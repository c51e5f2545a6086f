----------------------------- MODULE MC_CspRoute -----------------------------
(***************************************************************************)
(* A node with address 1 and one ZMQ interface, a peer at address 2 and a  *)
(* third node 3 reached through this one.  Port 1 has a callback, port 2   *)
(* a connection-less socket requiring CRC32, port 3 a listening socket.    *)
(* The application connects to port 3 of the peer, so replies come to     *)
(* port 31 (csp_connect's fixed source port).                              *)
(***************************************************************************)
EXTENDS CspRoute, TLC

MCBuffers == 1..4
MCConns == 1..2

Hdr(src, dst, sport, dport, flags, crc_ok) ==
    [src |-> src, dst |-> dst, sport |-> sport, dport |-> dport,
     flags |-> flags, crc_ok |-> crc_ok, hmac_ok |-> TRUE]

\* The packets the peer sends.
MCHeaders ==
    { Hdr(2, 3, 4, 3, {}, TRUE),            \* to node 3: forwarded
      Hdr(2, 1, 4, 1, {"CRC32"}, TRUE),     \* to the callback port
      Hdr(2, 1, 4, 2, {}, TRUE),            \* connection-less, CRC32 missing
      Hdr(2, 1, 4, 2, {"CRC32"}, TRUE),     \* connection-less, CRC32 good
      Hdr(2, 1, 4, 3, {}, TRUE),            \* to the server port from port 4
      Hdr(2, 1, 5, 3, {}, TRUE),            \* to the server port from port 5
      Hdr(2, 1, 4, 3, {"CRC32"}, FALSE),    \* to the server port, CRC32 bad
      Hdr(2, 1, 3, 31, {}, TRUE),           \* reply to csp_connect(2, 3)
      Hdr(2, 1, 4, 3, {"HMAC"}, TRUE) }     \* HMAC, not compiled in

\* For the connection-less run: datagrams to port 2 from two source ports
\* with a good CRC32, one without CRC32 and one with a bad CRC32.
MCDgHeaders ==
    { Hdr(2, 1, 4, 2, {"CRC32"}, TRUE),
      Hdr(2, 1, 5, 2, {"CRC32"}, TRUE),
      Hdr(2, 1, 4, 2, {}, TRUE),
      Hdr(2, 1, 6, 2, {"CRC32"}, FALSE) }
MCDgBuffers == 1..5
MCNoConnectTargets == {}

MCSockets == {"s_cl", "s_srv"}
MCSockOpts == [s \in MCSockets |-> IF s = "s_cl" THEN {"CONN_LESS", "CRC32REQ"} ELSE {}]
MCPortTable ==
    (1 :> [callback |-> TRUE, socket |-> NULL]) @@
    (2 :> [callback |-> FALSE, socket |-> "s_cl"]) @@
    (3 :> [callback |-> FALSE, socket |-> "s_srv"])
MCConnectTargets == {<<2, 3>>}
MCConnMask == {"src", "dst", "sport", "dport"}

\* Exploration constraint for runs about other hazards than the allocation
\* race: no two tasks are between the search and the claim of csp_conn_new
\* at the same time.
NoConcurrentConnNew ==
    Cardinality({a \in Apps : app[a].pc = "claim"} \cup
                (IF rt.pc = "claim" THEN {"router"} ELSE {})) <= 1
-----------------------------------------------------------------------------
(* Connection-less delivery on socket s_cl seen as a DatagramChannel.      *)

\* A packet the router will hand to s_cl if its checks pass.
ForClSock(b) ==
    LET h == hdr[b]
    IN  Admitted(h) /\ ~PortCallback(h.dport) /\ PortSocket(h.dport) = "s_cl"

\* On their way: those in the socket queue, then those still in the input
\* queue; taken: the buffers of this port the tasks hold.
Datagram == INSTANCE DatagramChannel
    WITH Msgs <- Buffers,
         chan <- sockq["s_cl"] \o SelectSeq(qfifo, ForClSock),
         got  <- {b \in UNION {appPkts[a] : a \in Apps} :
                    hdr[b] # NoHdr /\ PortSocket(hdr[b].dport) = "s_cl"}

\* The ZMQ RX thread, csp_route_work's connection-less branch (security
\* check, enqueue or overflow drop) and pycsp_recvfrom together implement a
\* lossy FIFO: the reader of s_cl gets each datagram at most once, in the
\* order the hub received them, and only datagrams that were received.
DatagramRefinement == Datagram!Spec
=============================================================================
