----------------------------- MODULE SecurityGate -----------------------------
(***************************************************************************)
(* The two gates csp_route_work() runs on a packet addressed to this node, *)
(* in its order: csp_route_check_options() (route line 171), then          *)
(* csp_route_security_check() with the socket's or connection's options   *)
(* (lines 201, 228, 259), for every build (HMAC and RDP compiled in or     *)
(* out), every policy and every packet.  Each step is one packet through   *)
(* the gates; last records the case and the verdict.                      *)
(***************************************************************************)
EXTENDS Naturals

CONSTANTS NoPacket

VARIABLE last

Flags == {"CRC32", "HMAC", "RDP"}
Policies == SUBSET {"CRC32REQ", "HMACREQ", "RDPREQ"}
Headers == [flags : SUBSET Flags, crc_ok : BOOLEAN, hmac_ok : BOOLEAN]

\* csp_route.c compiled with CSP_USE_HMAC = hm and CSP_USE_RDP = rd.
Build(hm, rd) == INSTANCE CspSecurity WITH CSP_USE_HMAC <- hm, CSP_USE_RDP <- rd

\* Route lines 170-174, then the security check of the delivery branch:
\* the counter of the first gate that rejects, or "none".
Verdict(hm, rd, opts, h) ==
    IF Build(hm, rd)!CheckOptions(h) # "none" THEN Build(hm, rd)!CheckOptions(h)
    ELSE Build(hm, rd)!SecurityCheck(opts, h)

Init == last = NoPacket

Route(hm, rd, opts, h) ==
    last' = [hmac |-> hm, rdp |-> rd, opts |-> opts, h |-> h,
             verdict |-> Verdict(hm, rd, opts, h)]

Next == \E hm, rd \in BOOLEAN, opts \in Policies, h \in Headers : Route(hm, rd, opts, h)

Spec == Init /\ [][Next]_last

-----------------------------------------------------------------------------
(* Properties *)

\* Spec 4.5, rule by rule: the packet passes when every rule that applies
\* to the build holds.
SpecAccepts(hm, rd, opts, h) ==
    /\ "CRC32" \in h.flags => h.crc_ok
    /\ "CRC32REQ" \in opts => "CRC32" \in h.flags
    /\ hm /\ "HMAC" \in h.flags => h.hmac_ok
    /\ hm /\ "HMACREQ" \in opts => "HMAC" \in h.flags
    /\ rd /\ "RDPREQ" \in opts => "RDP" \in h.flags
    /\ ~hm => "HMAC" \notin h.flags
    /\ ~rd => "RDP" \notin h.flags

\* Spec 8's truth table: for every build, policy and packet, the two gates
\* of csp_route_work accept exactly the packets spec 4.5 accepts, and a
\* rejection counts an integrity failure (CRC32, missing RDP) as rx_error
\* and an authentication failure (HMAC) as autherr.
GateMatchesSpec ==
    last # NoPacket =>
        LET v == last.verdict
            h == last.h
        IN  /\ (v = "none") <=> SpecAccepts(last.hmac, last.rdp, last.opts, h)
            /\ v = "autherr" =>
                 "HMAC" \in h.flags \/ "HMACREQ" \in last.opts
=============================================================================
