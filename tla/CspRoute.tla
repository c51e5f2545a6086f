------------------------------ MODULE CspRoute ------------------------------
(***************************************************************************)
(* The receive path of libcsp and the tasks that share its tables:         *)
(*  - the ZMQ hub receive thread (csp_zmqhub_task), which fills buffers    *)
(*    and writes them to the router's input queue;                         *)
(*  - the router task, one csp_route_work() per packet, split into the     *)
(*    steps between which it touches the connection table;                *)
(*  - application tasks using the Python binding (pycsp.c): connect,       *)
(*    accept, read, recvfrom, send, buffer get/free and close.             *)
(* Buffers, connections and the gates are the modules CspBuffer, CspConn   *)
(* and CspSecurity.  Connection-table operations take no lock              *)
(* (csp_conn.c), so a task may run between any two of their steps.         *)
(***************************************************************************)
EXTENDS Naturals, Sequences, FiniteSets, FiniteSetsExt

CONSTANTS
    Buffers, CSP_BUFFER_RESERVE, NoHdr,       \* the buffer pool
    Conns, CONN_RXQ_LEN, CONN_MASK, MyAddr,   \* the connection pool
    NULL,
    CSP_USE_HMAC, CSP_USE_RDP,                \* compiled-in options
    BcastAddr,      \* the broadcast address of the interface
    Headers,        \* the packet headers a peer can send
    Sockets,        \* the sockets the application bound
    SockOpts,       \* SockOpts[s]: the option bits of socket s
    PortTable,      \* PortTable[p]: [callback: BOOLEAN, socket: socket or NULL]
    Apps,           \* the application tasks
    ConnectTargets, \* the <<dest, dport>> pairs the application connects to
    QFIFO_LEN,      \* length of the router input queue
    SOCK_QLEN,      \* length of a socket's rx_queue
    MAX_RX,         \* the number of frames the ZMQ hub receives in a run
    DEDUP,          \* csp_conf.dedup: "off", "all", "incoming" or "fwd"
    DEDUP_WINDOW    \* the number of recent packets the dedup filter keeps

ASSUME CSP_USE_RDP = FALSE   \* the RDP hand-off (route lines 265-274) is not modelled yet

VARIABLES
    refc, hdr,   \* the buffer pool (CspBuffer)
    conns,       \* the connection pool (CspConn)
    qfifo,       \* the router input queue: buffers in arrival order
    sockq,       \* sockq[s]: rx_queue of socket s (packets or connections)
    ctr,         \* the interface and debug counters
    rt,          \* the router task's place in csp_route_work and its locals
    app,         \* app[a]: the place of task a in a multi-step call
    appConns,    \* appConns[a]: connections task a holds (its capsules)
    appPkts,     \* appPkts[a]: buffers task a holds
    rxCount,     \* frames received so far (bounded by MAX_RX)
    seen         \* the dedup filter's recent packets, oldest first

vars == <<refc, hdr, conns, qfifo, sockq, ctr, rt, app, appConns, appPkts, rxCount, seen>>

Pool == INSTANCE CspBuffer
Conn == INSTANCE CspConn
Sec  == INSTANCE CspSecurity

-----------------------------------------------------------------------------
(* Packets and ports *)

\* The identifier a packet header carries.
Id(h) == [src |-> h.src, dst |-> h.dst, sport |-> h.sport, dport |-> h.dport]

\* The outgoing identifier of a server connection (route lines 234-240).
ReplyId(h) == [src |-> h.dst, dst |-> h.src, sport |-> h.dport, dport |-> h.sport]

\* is_to_me: my address or the broadcast address of the interface.
IsToMe(h) == h.dst \in {MyAddr, BcastAddr}

PortCallback(p) == p \in DOMAIN PortTable /\ PortTable[p].callback
PortSocket(p) == IF p \in DOMAIN PortTable THEN PortTable[p].socket ELSE NULL

ConnLess(s) == s # NULL /\ "CONN_LESS" \in SockOpts[s]

\* Counting the error e on the interface or in the debug counters.
Count(e) == IF e = "none" THEN UNCHANGED ctr
            ELSE ctr' = [ctr EXCEPT ![e] = @ + 1]

\* The router between two packets, and an application task between calls.
RtIdle == [pc |-> "input", pkt |-> NULL, conn |-> NULL, sock |-> NULL,
           idin |-> Conn!ZeroId, idout |-> Conn!ZeroId]
AppIdle == [pc |-> "idle", conn |-> NULL,
            idin |-> Conn!ZeroId, idout |-> Conn!ZeroId]

Counters == {"rx_error", "autherr", "drop", "conn_ovf", "conn_out"}

Init ==
    /\ Pool!Init
    /\ Conn!Init
    /\ qfifo = <<>>
    /\ sockq = [s \in Sockets |-> <<>>]
    /\ ctr = [e \in Counters |-> 0]
    /\ rt = RtIdle
    /\ app = [a \in Apps |-> AppIdle]
    /\ appConns = [a \in Apps |-> {}]
    /\ appPkts = [a \in Apps |-> {}]
    /\ rxCount = 0
    /\ seen = <<>>

-----------------------------------------------------------------------------
(* The ZMQ hub receive thread: one iteration of csp_zmqhub_task's loop.    *)
(* frame is "short" (too short, dropped silently), "bad" (the identifier   *)
(* cannot be stripped) or "ok".                                            *)

ZmqRx(h, frame) ==
    /\ rxCount < MAX_RX
    /\ rxCount' = rxCount + 1
    /\ \/ /\ frame = "short" \/ ~Pool!CanGet
          /\ UNCHANGED <<refc, hdr, qfifo, ctr>>
       \/ /\ frame = "bad" /\ Pool!CanGet
          /\ Count("rx_error")
          /\ UNCHANGED <<refc, hdr, qfifo>>
       \/ /\ frame = "ok" /\ Pool!CanGet
          /\ Len(qfifo) < QFIFO_LEN
          /\ Pool!Get(Pool!Fresh, h)
          /\ qfifo' = Append(qfifo, Pool!Fresh)
          /\ UNCHANGED ctr
       \/ /\ frame = "ok" /\ Pool!CanGet
          /\ Len(qfifo) = QFIFO_LEN
          /\ Count("rx_error")
          /\ UNCHANGED <<refc, hdr, qfifo>>
    /\ UNCHANGED <<conns, sockq, rt, app, appConns, appPkts, seen>>

-----------------------------------------------------------------------------
(* The router task: csp_route_work().                                      *)

\* csp_zmqhub_tx(): the frame is published under the driver lock, a send
\* error is only printed, and the packet is freed either way.
ZmqTx(b) == Pool!Release(<<b>>)

\* Freeing the router's packet b and counting e.
Discard(b, e) == Pool!Release(<<b>>) /\ Count(e)

\* Passed is_to_me and csp_route_check_options().
Admitted(h) == IsToMe(h) /\ Sec!CheckOptions(h) = "none"

\* Not to me: csp_send_direct() hands it to the ZMQ nexthop, which frees it.
RouteForward(b, h) ==
    /\ ~IsToMe(h)
    /\ ZmqTx(b)
    /\ UNCHANGED <<conns, sockq, ctr, rt>>

RouteUnsupported(b, h) ==
    /\ IsToMe(h)
    /\ Sec!CheckOptions(h) # "none"
    /\ Discard(b, Sec!CheckOptions(h))
    /\ UNCHANGED <<conns, sockq, rt>>

\* A callback port: CRC32 is required; the callback consumes the packet.
RouteCallback(b, h) ==
    /\ Admitted(h)
    /\ PortCallback(h.dport)
    /\ Discard(b, Sec!SecurityCheck({"CRC32REQ"}, h))
    /\ UNCHANGED <<conns, sockq, rt>>

\* Mutant: an overflowing socket queue counts the packet but never frees it.
RouteConnLessOvfLeak(b, h) ==
    LET s == PortSocket(h.dport)
        err == Sec!SecurityCheck(SockOpts[s], h)
    IN  /\ Admitted(h)
        /\ ~PortCallback(h.dport)
        /\ ConnLess(s)
        /\ \/ err # "none" /\ Discard(b, err) /\ UNCHANGED sockq
           \/ /\ err = "none" /\ Len(sockq[s]) < SOCK_QLEN
              /\ sockq' = [sockq EXCEPT ![s] = Append(@, b)]
              /\ UNCHANGED <<refc, hdr, ctr>>
           \/ /\ err = "none" /\ Len(sockq[s]) = SOCK_QLEN
              /\ Count("conn_ovf")
              /\ UNCHANGED <<refc, hdr, sockq>>
        /\ UNCHANGED <<conns, rt>>

\* A connection-less socket: the packet itself goes to its queue.
RouteConnLess(b, h) ==
    LET s == PortSocket(h.dport)
        err == Sec!SecurityCheck(SockOpts[s], h)
    IN  /\ Admitted(h)
        /\ ~PortCallback(h.dport)
        /\ ConnLess(s)
        /\ \/ err # "none" /\ Discard(b, err) /\ UNCHANGED sockq
           \/ /\ err = "none" /\ Len(sockq[s]) < SOCK_QLEN
              /\ sockq' = [sockq EXCEPT ![s] = Append(@, b)]
              /\ UNCHANGED <<refc, hdr, ctr>>
           \/ /\ err = "none" /\ Len(sockq[s]) = SOCK_QLEN
              /\ Discard(b, "conn_ovf")
              /\ UNCHANGED sockq
        /\ UNCHANGED <<conns, rt>>

\* Route lines 215-263: an existing connection, or a new server connection
\* for the listening socket of the port.
RouteToConn(b, h) ==
    LET s == PortSocket(h.dport)
        c == Conn!Find(Id(h))
    IN  /\ Admitted(h)
        /\ ~PortCallback(h.dport)
        /\ ~ConnLess(s)
        /\ \/ /\ c # NULL
              /\ Sec!SecurityCheck(conns[c].opts, h) # "none"
              /\ Discard(b, Sec!SecurityCheck(conns[c].opts, h))
              /\ UNCHANGED rt
           \/ /\ c # NULL
              /\ Sec!SecurityCheck(conns[c].opts, h) = "none"
              /\ rt' = [RtIdle EXCEPT !.pc = "deliver", !.pkt = b, !.conn = c]
              /\ UNCHANGED <<refc, hdr, ctr>>
           \/ /\ c = NULL /\ s = NULL
              /\ Discard(b, "none")
              /\ UNCHANGED rt
           \/ /\ c = NULL /\ s # NULL
              /\ Sec!SecurityCheck(SockOpts[s], h) # "none"
              /\ Discard(b, Sec!SecurityCheck(SockOpts[s], h))
              /\ UNCHANGED rt
           \/ /\ c = NULL /\ s # NULL
              /\ Sec!SecurityCheck(SockOpts[s], h) = "none"
              /\ rt' = [RtIdle EXCEPT !.pc = "new_check", !.pkt = b, !.sock = s,
                                      !.idin = Id(h), !.idout = ReplyId(h)]
              /\ UNCHANGED <<refc, hdr, ctr>>
        /\ UNCHANGED <<conns, sockq>>

\* Route lines 145-147: the packets csp_conf.dedup submits to the filter.
DedupApplies(h) ==
    \/ DEDUP = "all"
    \/ IsToMe(h) /\ DEDUP = "incoming"
    \/ ~IsToMe(h) /\ DEDUP = "fwd"

\* csp_dedup_is_duplicate (csp_dedup.c is not in this tree; spec 4.4): a
\* packet is a repeat when one with the same contents is among the last
\* DEDUP_WINDOW the filter recorded.  The payload is not modelled, so a
\* packet's contents are its header.
IsDuplicate(h) == \E i \in DOMAIN seen : seen[i] = h

\* The filter records a packet it has not seen, evicting the oldest.
DedupRecord(h) ==
    IF Len(seen) < DEDUP_WINDOW THEN Append(seen, h)
    ELSE Append(Tail(seen), h)

\* Mutant: a repeat counted but not freed.
RouteDuplicateLeak(b, h) ==
    /\ DedupApplies(h) /\ IsDuplicate(h)
    /\ Count("drop")
    /\ UNCHANGED <<refc, hdr, conns, sockq, rt, seen>>

\* Route lines 148-153: a repeat is freed and counted as a drop.
RouteDuplicate(b, h) ==
    /\ DedupApplies(h) /\ IsDuplicate(h)
    /\ Discard(b, "drop")
    /\ UNCHANGED <<conns, sockq, rt, seen>>

\* Taking the next packet from the input queue and routing it up to the
\* point where it needs a connection: the dedup filter first, then the
\* branches of csp_route_work in its order.
RouteInput ==
    /\ rt.pc = "input"
    /\ qfifo # <<>>
    /\ qfifo' = Tail(qfifo)
    /\ LET b == Head(qfifo)
           h == hdr[b]
       IN  \/ RouteDuplicate(b, h)
           \/ /\ DedupApplies(h) => ~IsDuplicate(h)
              /\ seen' = IF DedupApplies(h) THEN DedupRecord(h) ELSE seen
              /\ \/ RouteForward(b, h)
                 \/ RouteUnsupported(b, h)
                 \/ RouteCallback(b, h)
                 \/ RouteConnLess(b, h)
                 \/ RouteToConn(b, h)
    /\ UNCHANGED <<app, appConns, appPkts, rxCount>>

\* Mutant: a router that waits for a free connection slot instead of
\* dropping the packet when the pool is full.
RouteNewCheckBlocking ==
    /\ rt.pc = "new_check"
    /\ Conn!FirstFree # NULL
    /\ rt' = [rt EXCEPT !.pc = "claim", !.conn = Conn!FirstFree]
    /\ UNCHANGED <<refc, hdr, ctr, conns, qfifo, sockq, app, appConns, appPkts, rxCount, seen>>

\* csp_conn_new() from the router: the search loop.  No free slot: the
\* packet is dropped and counted (route lines 245-249).
RouteNewCheck ==
    /\ rt.pc = "new_check"
    /\ \/ /\ Conn!FirstFree = NULL
          /\ Discard(rt.pkt, "conn_out")
          /\ rt' = RtIdle
       \/ /\ Conn!FirstFree # NULL
          /\ rt' = [rt EXCEPT !.pc = "claim", !.conn = Conn!FirstFree]
          /\ UNCHANGED <<refc, hdr, ctr>>
    /\ UNCHANGED <<conns, qfifo, sockq, app, appConns, appPkts, rxCount, seen>>

\* csp_conn_new() claims the slot; the router stores the socket and its
\* options in it (route lines 251-253).
RouteClaim ==
    /\ rt.pc = "claim"
    /\ conns' = [Conn!Claimed(rt.conn, rt.idin, rt.idout)
                   EXCEPT ![rt.conn].dest_socket = rt.sock,
                          ![rt.conn].opts = SockOpts[rt.sock]]
    /\ rt' = [rt EXCEPT !.pc = "deliver"]
    /\ UNCHANGED <<refc, hdr, qfifo, sockq, ctr, app, appConns, appPkts, rxCount, seen>>

\* Route lines 276-293: enqueue on the connection and, for a connection not
\* yet posted, post it to its socket once; a full socket queue closes it.
RouteDeliver ==
    LET c == rt.conn
        b == rt.pkt
        d == conns[c].dest_socket
    IN  /\ rt.pc = "deliver"
        /\ \/ /\ ~Conn!CanEnqueue(c)
              /\ Discard(b, "conn_ovf")
              /\ UNCHANGED <<conns, sockq>>
           \/ /\ Conn!CanEnqueue(c) /\ d = NULL
              /\ conns' = [conns EXCEPT ![c].rxq = Append(@, b)]
              /\ UNCHANGED <<refc, hdr, ctr, sockq>>
           \/ /\ Conn!CanEnqueue(c) /\ d # NULL
              /\ Len(sockq[d]) = SOCK_QLEN
              /\ Count("conn_ovf")
              /\ Conn!CloseWith(c, <<b>>)
              /\ UNCHANGED sockq
           \/ /\ Conn!CanEnqueue(c) /\ d # NULL
              /\ Len(sockq[d]) < SOCK_QLEN
              /\ conns' = [conns EXCEPT ![c].rxq = Append(@, b),
                                        ![c].dest_socket = NULL]
              /\ sockq' = [sockq EXCEPT ![d] = Append(@, c)]
              /\ UNCHANGED <<refc, hdr, ctr>>
        /\ rt' = RtIdle
        /\ UNCHANGED <<qfifo, app, appConns, appPkts, rxCount, seen>>

Router == RouteInput \/ RouteNewCheck \/ RouteClaim \/ RouteDeliver

-----------------------------------------------------------------------------
(* Application tasks (pycsp.c).                                            *)

AppUnchanged == UNCHANGED <<qfifo, ctr, rt, rxCount, seen>>

\* pycsp_connect -> csp_connect: the identifiers, then csp_conn_new.
AppConnect(a, dest, dport) ==
    LET ids == Conn!ConnectIds(dest, dport)
    IN  /\ app[a].pc = "idle"
        /\ app' = [app EXCEPT ![a] = [AppIdle EXCEPT !.pc = "new_check",
                                        !.idin = ids.idin, !.idout = ids.idout]]
        /\ UNCHANGED <<refc, hdr, conns, sockq, appConns, appPkts>>
        /\ AppUnchanged

\* The search loop of csp_conn_new; NULL makes pycsp_connect raise.
AppNewCheck(a) ==
    /\ app[a].pc = "new_check"
    /\ app' = [app EXCEPT ![a] =
                 IF Conn!FirstFree = NULL THEN AppIdle
                 ELSE [@ EXCEPT !.pc = "claim", !.conn = Conn!FirstFree]]
    /\ UNCHANGED <<refc, hdr, conns, sockq, appConns, appPkts>>
    /\ AppUnchanged

\* csp_conn_new claims the slot; the task now holds the connection.
AppClaim(a) ==
    /\ app[a].pc = "claim"
    /\ Conn!Claim(app[a].conn, app[a].idin, app[a].idout)
    /\ appConns' = [appConns EXCEPT ![a] = @ \cup {app[a].conn}]
    /\ app' = [app EXCEPT ![a] = AppIdle]
    /\ UNCHANGED <<refc, hdr, sockq, appPkts>>
    /\ AppUnchanged

\* pycsp_accept -> csp_accept: the next connection posted to socket s.
AppAccept(a, s) ==
    /\ app[a].pc = "idle"
    /\ ~ConnLess(s)
    /\ sockq[s] # <<>>
    /\ appConns' = [appConns EXCEPT ![a] = @ \cup {Head(sockq[s])}]
    /\ sockq' = [sockq EXCEPT ![s] = Tail(@)]
    /\ UNCHANGED <<refc, hdr, conns, app, appPkts>>
    /\ AppUnchanged

\* pycsp_read -> csp_read: the next packet of a held connection.
AppRead(a, c) ==
    /\ app[a].pc = "idle"
    /\ c \in appConns[a]
    /\ conns[c].rxq # <<>>
    /\ appPkts' = [appPkts EXCEPT ![a] = @ \cup {Head(conns[c].rxq)}]
    /\ conns' = [conns EXCEPT ![c].rxq = Tail(@)]
    /\ UNCHANGED <<refc, hdr, sockq, app, appConns>>
    /\ AppUnchanged

\* Mutant: a recvfrom that hands out the head packet without dequeuing it.
AppRecvFromPeek(a, s) ==
    /\ app[a].pc = "idle"
    /\ ConnLess(s)
    /\ sockq[s] # <<>>
    /\ appPkts' = [appPkts EXCEPT ![a] = @ \cup {Head(sockq[s])}]
    /\ UNCHANGED <<refc, hdr, conns, sockq, app, appConns>>
    /\ AppUnchanged

\* pycsp_recvfrom -> csp_recvfrom: the next packet of a connection-less socket.
AppRecvFrom(a, s) ==
    /\ app[a].pc = "idle"
    /\ ConnLess(s)
    /\ sockq[s] # <<>>
    /\ appPkts' = [appPkts EXCEPT ![a] = @ \cup {Head(sockq[s])}]
    /\ sockq' = [sockq EXCEPT ![s] = Tail(@)]
    /\ UNCHANGED <<refc, hdr, conns, app, appConns>>
    /\ AppUnchanged

\* pycsp_buffer_get -> csp_buffer_get(0); NULL makes it raise.
AppBufferGet(a) ==
    /\ app[a].pc = "idle"
    /\ Pool!CanGet
    /\ Pool!Get(Pool!Fresh, NoHdr)
    /\ appPkts' = [appPkts EXCEPT ![a] = @ \cup {Pool!Fresh}]
    /\ UNCHANGED <<conns, sockq, app, appConns>>
    /\ AppUnchanged

\* pycsp_buffer_free -> csp_buffer_free.
AppBufferFree(a, b) ==
    /\ app[a].pc = "idle"
    /\ b \in appPkts[a]
    /\ Pool!Release(<<b>>)
    /\ appPkts' = [appPkts EXCEPT ![a] = @ \ {b}]
    /\ UNCHANGED <<conns, sockq, app, appConns>>
    /\ AppUnchanged

\* pycsp_send -> csp_send: the ZMQ nexthop (csp_zmqhub_tx) frees the packet.
AppSend(a, c, b) ==
    /\ app[a].pc = "idle"
    /\ c \in appConns[a]
    /\ b \in appPkts[a]
    /\ ZmqTx(b)
    /\ appPkts' = [appPkts EXCEPT ![a] = @ \ {b}]
    /\ UNCHANGED <<conns, sockq, app, appConns>>
    /\ AppUnchanged

\* pycsp_close -> csp_close: the dequeue loop ...
AppClose(a, c) ==
    /\ app[a].pc = "idle"
    /\ c \in appConns[a]
    /\ Conn!Drain(c)
    /\ app' = [app EXCEPT ![a] = [AppIdle EXCEPT !.pc = "close_end", !.conn = c]]
    /\ UNCHANGED <<sockq, appConns, appPkts>>
    /\ AppUnchanged

\* ... then the state set to closed, and the capsule marked freed.
AppCloseEnd(a) ==
    /\ app[a].pc = "close_end"
    /\ Conn!SetClosed(app[a].conn)
    /\ appConns' = [appConns EXCEPT ![a] = @ \ {app[a].conn}]
    /\ app' = [app EXCEPT ![a] = AppIdle]
    /\ UNCHANGED <<refc, hdr, sockq, appPkts>>
    /\ AppUnchanged

AppStep(a) ==
    \/ \E t \in ConnectTargets : AppConnect(a, t[1], t[2])
    \/ AppNewCheck(a)
    \/ AppClaim(a)
    \/ \E s \in Sockets : AppAccept(a, s) \/ AppRecvFrom(a, s)
    \/ \E c \in appConns[a] : AppRead(a, c) \/ AppClose(a, c)
    \/ AppBufferGet(a)
    \/ \E b \in appPkts[a] : AppBufferFree(a, b) \/ \E c \in appConns[a] : AppSend(a, c, b)
    \/ AppCloseEnd(a)

-----------------------------------------------------------------------------
Next ==
    \/ \E h \in Headers, frame \in {"short", "bad", "ok"} : ZmqRx(h, frame)
    \/ Router
    \/ \E a \in Apps : AppStep(a)

\* The router is a dedicated task that loops on csp_route_work forever.
Spec == Init /\ [][Next]_vars /\ WF_vars(Router)

-----------------------------------------------------------------------------
(* Properties *)

TypeOK ==
    /\ refc \in [Buffers -> Nat]
    /\ hdr \in [Buffers -> Headers \cup {NoHdr}]
    /\ \A c \in Conns :
         /\ conns[c].state \in {"SOCKET_OPEN", "SOCKET_CLOSED"}
         /\ conns[c].rxq \in Seq(Buffers) /\ Len(conns[c].rxq) <= CONN_RXQ_LEN
         /\ conns[c].dest_socket \in Sockets \cup {NULL}
    /\ qfifo \in Seq(Buffers) /\ Len(qfifo) <= QFIFO_LEN
    /\ \A s \in Sockets : Len(sockq[s]) <= SOCK_QLEN
    /\ ctr \in [Counters -> Nat]
    /\ rt.pc \in {"input", "new_check", "claim", "deliver"}
    /\ \A a \in Apps : app[a].pc \in {"idle", "new_check", "claim", "close_end"}
    /\ \A a \in Apps : appConns[a] \subseteq Conns /\ appPkts[a] \subseteq Buffers
    /\ rxCount \in 0..MAX_RX

\* The places that hold buffer b: the input queue, connection receive
\* queues, connection-less socket queues, application tasks and the router.
Holders(b) ==
      Pool!Occurrences(qfifo, b)
    + MapThenSumSet(LAMBDA c : Pool!Occurrences(conns[c].rxq, b), Conns)
    + MapThenSumSet(LAMBDA s : IF ConnLess(s) THEN Pool!Occurrences(sockq[s], b)
                               ELSE 0, Sockets)
    + Cardinality({a \in Apps : b \in appPkts[a]})
    + (IF rt.pkt = b THEN 1 ELSE 0)

\* Every buffer is freed exactly once by whoever last holds it: along every
\* drop, forward, callback, overflow and close path of csp_route_work,
\* csp_close and the tasks, the reference count of a slot equals the number
\* of places that hold it (no leak, no double free, no use after free).
BufferConservation == \A b \in Buffers : refc[b] = Holders(b)

\* The router task never stops with a packet half-routed or left queued:
\* infinitely often its input queue is empty and it waits for the next.
RouterDrains == []<>(qfifo = <<>> /\ rt.pc = "input")

\* The packet the router is working on: the head of its input queue while
\* it waits between packets, its local packet otherwise.
RouterPkt ==
    IF rt.pc # "input" THEN rt.pkt
    ELSE IF qfifo = <<>> THEN NULL ELSE Head(qfifo)

\* A callback port whose CRC32 check passes takes the packet over.
CallbackTakes(h) == PortCallback(h.dport) /\ Sec!SecurityCheck({"CRC32REQ"}, h) = "none"

\* Spec 7: every failure on the receive path frees the packet and counts
\* it.  A router step that frees a packet addressed to this node, other
\* than by handing it to a callback, increments an error counter.
DropsCounted ==
    [][\A b \in Buffers :
         /\ b = RouterPkt /\ refc'[b] < refc[b]
         /\ IsToMe(hdr[b]) /\ ~CallbackTakes(hdr[b])
         => \E e \in Counters : ctr'[e] > ctr[e]]_vars

\* A packet queued on an open connection belongs to it: its identifier
\* matches the connection's incoming identifier under the mask, as
\* csp_conn_find required when the router chose the connection.  Broken
\* when the router enqueues on a connection (route line 277) that a task
\* closed and csp_conn_new handed to someone else after csp_conn_find.
QueuedPacketsMatchConn ==
    \A c \in Conns :
        conns[c].state = "SOCKET_OPEN" =>
            \A i \in DOMAIN conns[c].rxq :
                Conn!Masked(Id(hdr[conns[c].rxq[i]])) = Conn!Masked(conns[c].idin)

\* The users of connection c: tasks holding it and socket accept queues.
Users(c) ==
      Cardinality({a \in Apps : c \in appConns[a]})
    + MapThenSumSet(LAMBDA s : IF ConnLess(s) THEN 0
                               ELSE Pool!Occurrences(sockq[s], c), Sockets)

\* An open connection has at most one user: it is posted to a socket at
\* most once (route lines 284-293 clear dest_socket), and a connection a
\* task created with csp_connect is never also handed to csp_accept.
ExclusiveConn == \A c \in Conns : conns[c].state = "SOCKET_OPEN" => Users(c) <= 1
=============================================================================
