----------------------------- MODULE PycspCapsule -----------------------------
(***************************************************************************)
(* The capsule layer of the Python binding (pycsp.c) and the Python        *)
(* threads that share it.  A packet capsule holds a csp_packet_t pointer,  *)
(* or the marker CSP_POINTER_HAS_BEEN_FREED once a call consumed or freed  *)
(* the packet; get_capsule_pointer() turns the marker into NULL, so a      *)
(* second use raises TypeError instead of touching a freed buffer.  A      *)
(* connection capsule holds a csp_conn_t pointer the same way.             *)
(*                                                                         *)
(* Every call runs holding the GIL, except the part of send, sendto and    *)
(* sendto_reply between Py_BEGIN_ALLOW_THREADS and Py_END_ALLOW_THREADS:   *)
(* those calls are two steps, the pointer read before the GIL is released  *)
(* and the capsule marked freed after it is taken back.  A capsule's      *)
(* destructor runs when Python drops the last reference; a call in         *)
(* progress holds a reference to its arguments.                            *)
(***************************************************************************)
EXTENDS Naturals, FiniteSets

CONSTANTS
    Threads,     \* the Python threads
    Caps,        \* packet capsule objects (an id is reused once destroyed)
    ConnCaps,    \* connection capsule objects
    CapsOf,      \* CapsOf[t]: the packet capsules thread t passes to calls
    ConnsOf,     \* ConnsOf[t]: the connection capsules thread t uses
    Buffers, CSP_BUFFER_RESERVE, NoHdr,
    NULL

VARIABLES
    refc, hdr,   \* the buffer pool (CspBuffer)
    pcap,        \* pcap[k]: "none" (no such object), a buffer, or "FREED"
    ccap,        \* ccap[c]: "none", "open" (a csp_conn_t) or "FREED"
    th           \* th[t]: the call thread t is in with the GIL released

vars == <<refc, hdr, pcap, ccap, th>>

Pool == INSTANCE CspBuffer

Idle == [pc |-> "idle", conn |-> NULL, cap |-> NULL, pkt |-> NULL, req |-> NULL]

\* A capsule object exists: Python code can pass it to a call.
Live(k) == pcap[k] # "none"

\* get_capsule_pointer(capsule, PACKET_CAPSULE, allow_null): the pointer,
\* or NULL when the capsule carries CSP_POINTER_HAS_BEEN_FREED.
Pointer(k) == IF pcap[k] \in Buffers THEN pcap[k] ELSE NULL

\* A call in progress holds a reference to capsule k or connection c.
InUse(k) == \E t \in Threads : k \in {th[t].cap, th[t].req, th[t].conn}

\* if (packet) csp_buffer_free(packet).
FreeIfSet(k) ==
    IF Pointer(k) # NULL THEN Pool!Release(<<Pointer(k)>>)
    ELSE UNCHANGED <<refc, hdr>>

Init ==
    /\ Pool!Init
    /\ pcap = [k \in Caps |-> "none"]
    /\ ccap = [c \in ConnCaps |-> "none"]
    /\ th = [t \in Threads |-> Idle]

Ready(t, k) == th[t].pc = "idle" /\ k \in CapsOf[t]

-----------------------------------------------------------------------------
(* Calls that keep the GIL: one step each.  A call that raises changes     *)
(* nothing and is left out.                                                *)

\* Mutant: a get that also hands out the reserved slots.
BufferGetNoReserve(t, k) ==
    /\ Ready(t, k) /\ ~Live(k)
    /\ Pool!Remaining > 0
    /\ Pool!Get(Pool!Fresh, NoHdr)
    /\ pcap' = [pcap EXCEPT ![k] = Pool!Fresh]
    /\ UNCHANGED <<ccap, th>>

\* pycsp_buffer_get: csp_buffer_get(0) wrapped in a new capsule; it raises
\* when the pool is down to the reserve.
BufferGet(t, k) ==
    /\ Ready(t, k) /\ ~Live(k)
    /\ Pool!CanGet
    /\ Pool!Get(Pool!Fresh, NoHdr)
    /\ pcap' = [pcap EXCEPT ![k] = Pool!Fresh]
    /\ UNCHANGED <<ccap, th>>

\* Mutant: buffer_free that frees the packet but leaves the pointer in
\* the capsule.
BufferFreeKeep(t, k) ==
    /\ Ready(t, k) /\ Live(k)
    /\ FreeIfSet(k)
    /\ UNCHANGED <<pcap, ccap, th>>

\* pycsp_buffer_free: allow_null, so a freed capsule is a no-op.
BufferFree(t, k) ==
    /\ Ready(t, k) /\ Live(k)
    /\ FreeIfSet(k)
    /\ pcap' = [pcap EXCEPT ![k] = "FREED"]
    /\ UNCHANGED <<ccap, th>>

\* pycsp_service_handler: both capsules must hold a pointer;
\* csp_service_handler consumes the packet (it replies with it or frees it).
ServiceHandler(t, c, k) ==
    /\ Ready(t, k) /\ Live(k) /\ ccap[c] = "open"
    /\ Pointer(k) # NULL
    /\ Pool!Release(<<Pointer(k)>>)
    /\ pcap' = [pcap EXCEPT ![k] = "FREED"]
    /\ UNCHANGED <<ccap, th>>

\* pycsp_connect: a successful csp_connect wrapped in a connection capsule.
Connect(t, c) ==
    /\ th[t].pc = "idle" /\ ccap[c] = "none"
    /\ ccap' = [ccap EXCEPT ![c] = "open"]
    /\ UNCHANGED <<refc, hdr, pcap, th>>

\* pycsp_close: csp_close and the capsule marked freed; already freed is
\* a no-op.
Close(t, c) ==
    /\ th[t].pc = "idle" /\ ccap[c] = "open"
    /\ ccap' = [ccap EXCEPT ![c] = "FREED"]
    /\ UNCHANGED <<refc, hdr, pcap, th>>

\* pycsp_free_csp_buffer: the destructor of a packet capsule.
FreeCspBuffer(k) ==
    /\ Live(k) /\ ~InUse(k)
    /\ FreeIfSet(k)
    /\ pcap' = [pcap EXCEPT ![k] = "none"]
    /\ UNCHANGED <<ccap, th>>

\* pycsp_free_csp_conn: the destructor of a connection capsule, which
\* closes a connection still open.
FreeCspConn(c) ==
    /\ ccap[c] # "none" /\ ~InUse(c)
    /\ ccap' = [ccap EXCEPT ![c] = "none"]
    /\ UNCHANGED <<refc, hdr, pcap, th>>

-----------------------------------------------------------------------------
(* Calls that release the GIL around the libcsp call.                      *)

\* pycsp_send up to Py_BEGIN_ALLOW_THREADS: the connection, then the
\* packet, must hold a pointer (else TypeError).
SendBegin(t, c, k) ==
    /\ Ready(t, k) /\ Live(k)
    /\ ccap[c] = "open" /\ Pointer(k) # NULL
    /\ th' = [th EXCEPT ![t] = [Idle EXCEPT !.pc = "send", !.conn = c,
                                            !.cap = k, !.pkt = Pointer(k)]]
    /\ UNCHANGED <<refc, hdr, pcap, ccap>>

\* pycsp_sendto up to Py_BEGIN_ALLOW_THREADS.
SendtoBegin(t, k) ==
    /\ Ready(t, k) /\ Live(k)
    /\ Pointer(k) # NULL
    /\ th' = [th EXCEPT ![t] = [Idle EXCEPT !.pc = "sendto", !.cap = k,
                                            !.pkt = Pointer(k)]]
    /\ UNCHANGED <<refc, hdr, pcap, ccap>>

\* pycsp_sendto_reply up to Py_BEGIN_ALLOW_THREADS: the request, then the
\* reply, must hold a pointer.  Only the reply is consumed.
SendtoReplyBegin(t, kq, kr) ==
    /\ Ready(t, kq) /\ Ready(t, kr) /\ Live(kq) /\ Live(kr)
    /\ Pointer(kq) # NULL /\ Pointer(kr) # NULL
    /\ th' = [th EXCEPT ![t] = [Idle EXCEPT !.pc = "sendto_reply", !.cap = kr,
                                            !.pkt = Pointer(kr), !.req = kq]]
    /\ UNCHANGED <<refc, hdr, pcap, ccap>>

\* Mutant: the capsule left holding the pointer after the libcsp call.
ConsumeKeep(t) ==
    /\ Pool!Release(<<th[t].pkt>>)
    /\ th' = [th EXCEPT ![t] = Idle]
    /\ UNCHANGED <<pcap, ccap>>

\* The libcsp call frees the packet read before the GIL was released (the
\* ZMQ nexthop frees it after zmq_send); back under the GIL, the capsule
\* it came from is marked freed.
Consume(t) ==
    /\ Pool!Release(<<th[t].pkt>>)
    /\ pcap' = [pcap EXCEPT ![th[t].cap] = "FREED"]
    /\ th' = [th EXCEPT ![t] = Idle]
    /\ UNCHANGED ccap

SendEnd(t) == th[t].pc = "send" /\ Consume(t)
SendtoEnd(t) == th[t].pc = "sendto" /\ Consume(t)
SendtoReplyEnd(t) == th[t].pc = "sendto_reply" /\ Consume(t)

-----------------------------------------------------------------------------
Next ==
    \/ \E t \in Threads :
         \/ \E k \in Caps : BufferGet(t, k) \/ BufferFree(t, k)
                            \/ SendtoBegin(t, k)
                            \/ \E c \in ConnsOf[t] : ServiceHandler(t, c, k)
                                                   \/ SendBegin(t, c, k)
         \/ \E kq, kr \in Caps : SendtoReplyBegin(t, kq, kr)
         \/ \E c \in ConnsOf[t] : Connect(t, c) \/ Close(t, c)
         \/ SendEnd(t) \/ SendtoEnd(t) \/ SendtoReplyEnd(t)
    \/ \E k \in Caps : FreeCspBuffer(k)
    \/ \E c \in ConnCaps : FreeCspConn(c)

Spec == Init /\ [][Next]_vars

-----------------------------------------------------------------------------
(* Properties *)

TypeOK ==
    /\ refc \in [Buffers -> Nat]
    /\ pcap \in [Caps -> Buffers \cup {"none", "FREED"}]
    /\ ccap \in [ConnCaps -> {"none", "open", "FREED"}]
    /\ \A t \in Threads : th[t].pc \in {"idle", "send", "sendto", "sendto_reply"}

\* The capsules own the packets: every buffer's reference count equals the
\* number of capsules whose pointer is still set to it.  The binding marks a
\* capsule freed whenever the packet leaves it (buffer_free, send, sendto,
\* sendto_reply, service_handler, the destructor), so no packet is freed
\* twice, none leaks, and none is freed under a capsule that still uses it.
CapsuleConservation ==
    \A b \in Buffers : refc[b] = Cardinality({k \in Caps : pcap[k] = b})

\* While a call runs with the GIL released, what it gave libcsp is still
\* held by the capsules it came from: the packet being sent (send, sendto,
\* sendto_reply), the request sendto_reply reads its addresses from, and
\* the connection csp_send sends on.  No other call frees the packets,
\* reuses their slots or closes the connection before the call returns.
InFlightOwned ==
    \A t \in Threads : th[t].pc # "idle" =>
        /\ pcap[th[t].cap] = th[t].pkt
        /\ th[t].req # NULL => pcap[th[t].req] \in Buffers
        /\ th[t].conn # NULL => ccap[th[t].conn] = "open"

-----------------------------------------------------------------------------
(* Refinement: seen from Python, each call happens at once.  A call that    *)
(* released the GIL takes effect where it read the pointer: from then on   *)
(* its capsule reads as freed and its packet as released, and the step     *)
(* after the GIL is taken back changes nothing visible.                    *)

InFlight(k) == \E t \in Threads : th[t].pc # "idle" /\ th[t].cap = k
Flying(b) == Cardinality({t \in Threads : th[t].pc # "idle" /\ th[t].pkt = b})

Calls == INSTANCE PycspCalls WITH
    refc <- [b \in Buffers |-> refc[b] - Flying(b)],
    pcap <- [k \in Caps |-> IF InFlight(k) THEN "FREED" ELSE pcap[k]]

\* The two-step send, sendto and sendto_reply, the destructors and the
\* one-step calls implement PycspCalls: every call is atomic to Python.
CallsAtomic == Calls!Spec
=============================================================================
