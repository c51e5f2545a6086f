------------------------------ MODULE PycspCalls ------------------------------
(***************************************************************************)
(* What the Python binding promises its callers: every call on a capsule  *)
(* takes effect at one instant, as if it held the GIL from start to end.   *)
(* A packet capsule owns its packet until a call hands the packet to       *)
(* libcsp or frees it; from then on the capsule reads as freed.  Which     *)
(* thread makes a call does not matter here, so there are no threads.      *)
(***************************************************************************)
EXTENDS Naturals

CONSTANTS Caps, ConnCaps, Buffers, CSP_BUFFER_RESERVE, NoHdr, NULL

VARIABLES refc, hdr, pcap, ccap

vars == <<refc, hdr, pcap, ccap>>

Pool == INSTANCE CspBuffer

Pointer(k) == IF pcap[k] \in Buffers THEN pcap[k] ELSE NULL

\* The packet of capsule k leaves it: freed, sent, or handed to a service.
Hand(k) ==
    /\ Pool!Release(<<Pointer(k)>>)
    /\ pcap' = [pcap EXCEPT ![k] = "FREED"]
    /\ UNCHANGED ccap

Init ==
    /\ Pool!Init
    /\ pcap = [k \in Caps |-> "none"]
    /\ ccap = [c \in ConnCaps |-> "none"]

\* A new capsule around some free slot the pool may hand out.
BufferGet(k) ==
    /\ pcap[k] = "none" /\ Pool!CanGet
    /\ \E b \in Buffers : refc[b] = 0 /\ Pool!Get(b, NoHdr)
                          /\ pcap' = [pcap EXCEPT ![k] = b]
    /\ UNCHANGED ccap

\* buffer_free, or the destructor, of a capsule whose packet is gone.
Forget(k, to) ==
    /\ pcap[k] # "none" /\ Pointer(k) = NULL
    /\ pcap' = [pcap EXCEPT ![k] = to]
    /\ UNCHANGED <<refc, hdr, ccap>>

Free(k, to) ==
    /\ pcap[k] # "none" /\ Pointer(k) # NULL
    /\ Pool!Release(<<Pointer(k)>>)
    /\ pcap' = [pcap EXCEPT ![k] = to]
    /\ UNCHANGED ccap

\* send, service_handler: an open connection and a packet.
SendOn(c, k) == ccap[c] = "open" /\ Pointer(k) # NULL /\ Hand(k)

\* sendto: a packet.
Sendto(k) == Pointer(k) # NULL /\ Hand(k)

\* sendto_reply: the request must still hold its packet; only the reply
\* is handed over.
SendtoReply(kq, kr) == Pointer(kq) # NULL /\ Pointer(kr) # NULL /\ Hand(kr)

Connect(c) == ccap[c] = "none" /\ ccap' = [ccap EXCEPT ![c] = "open"]
              /\ UNCHANGED <<refc, hdr, pcap>>
Close(c) == ccap[c] = "open" /\ ccap' = [ccap EXCEPT ![c] = "FREED"]
            /\ UNCHANGED <<refc, hdr, pcap>>
DropConn(c) == ccap[c] # "none" /\ ccap' = [ccap EXCEPT ![c] = "none"]
               /\ UNCHANGED <<refc, hdr, pcap>>

Next ==
    \/ \E k \in Caps :
         \/ BufferGet(k) \/ Sendto(k)
         \/ \E to \in {"FREED", "none"} : Forget(k, to) \/ Free(k, to)
         \/ \E c \in ConnCaps : SendOn(c, k)
    \/ \E kq, kr \in Caps : SendtoReply(kq, kr)
    \/ \E c \in ConnCaps : Connect(c) \/ Close(c) \/ DropConn(c)

Spec == Init /\ [][Next]_vars
=============================================================================
