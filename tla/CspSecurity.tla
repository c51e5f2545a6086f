----------------------------- MODULE CspSecurity -----------------------------
(***************************************************************************)
(* The two packet gates of src/src/csp_route.c as operators over a packet  *)
(* header h: csp_route_check_options() and csp_route_security_check().     *)
(* A header carries its flag bits (a subset of {"CRC32","HMAC","RDP"}) and *)
(* the outcome the opaque verifiers would give: crc_ok for                 *)
(* csp_crc32_verify(), hmac_ok for csp_hmac_verify().  Each gate yields    *)
(* the interface counter it increments, or "none" when the packet passes.  *)
(***************************************************************************)
CONSTANTS CSP_USE_HMAC,  \* HMAC support compiled in
          CSP_USE_RDP    \* RDP (reliable transport) support compiled in

\* csp_route_check_options(): packets with an option this build lacks.
CheckOptions(h) ==
    IF ~CSP_USE_HMAC /\ "HMAC" \in h.flags THEN "autherr"
    ELSE IF ~CSP_USE_RDP /\ "RDP" \in h.flags THEN "rx_error"
    ELSE "none"

\* Mutant: the HMAC rule checked whatever the build (the #if dropped).
SecurityCheckHmacAlways(opts, h) ==
    IF "CRC32" \in h.flags /\ ~h.crc_ok THEN "rx_error"
    ELSE IF "CRC32" \notin h.flags /\ "CRC32REQ" \in opts THEN "rx_error"
    ELSE IF "HMAC" \in h.flags /\ ~h.hmac_ok THEN "autherr"
    ELSE IF "HMAC" \notin h.flags /\ "HMACREQ" \in opts THEN "autherr"
    ELSE IF CSP_USE_RDP /\ "RDP" \notin h.flags /\ "RDPREQ" \in opts THEN "rx_error"
    ELSE "none"

\* csp_route_security_check(security_opts, iface, packet): the first of
\* the CRC32, HMAC and RDP rules that rejects the packet decides the counter.
SecurityCheck(opts, h) ==
    IF "CRC32" \in h.flags /\ ~h.crc_ok THEN "rx_error"
    ELSE IF "CRC32" \notin h.flags /\ "CRC32REQ" \in opts THEN "rx_error"
    ELSE IF CSP_USE_HMAC /\ "HMAC" \in h.flags /\ ~h.hmac_ok THEN "autherr"
    ELSE IF CSP_USE_HMAC /\ "HMAC" \notin h.flags /\ "HMACREQ" \in opts THEN "autherr"
    ELSE IF CSP_USE_RDP /\ "RDP" \notin h.flags /\ "RDPREQ" \in opts THEN "rx_error"
    ELSE "none"
=============================================================================
