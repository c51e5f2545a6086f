------------------------------- MODULE CspConn -------------------------------
(***************************************************************************)
(* The static connection pool of src/src/csp_conn.c: MAX_STATIC_CONNS      *)
(* slots of csp_conn_t, each with a state, the incoming and outgoing       *)
(* identifiers, a receive queue of packet buffers and the two fields that  *)
(* csp_route_work() stores in a new server connection (dest_socket and     *)
(* opts).  Identifiers are records of the fields the connection mask       *)
(* selects; the priority is left out (no property tells priorities apart). *)
(***************************************************************************)
EXTENDS Naturals, Sequences, FiniteSets, FiniteSetsExt

CONSTANTS Conns,         \* the slot indices of arr_conn
          CONN_RXQ_LEN,  \* the length of each rx_queue
          CONN_MASK,     \* the identifier fields a connection is matched on
          MyAddr,        \* my_address
          NULL, Buffers, CSP_BUFFER_RESERVE, NoHdr

VARIABLES conns, refc, hdr

Pool == INSTANCE CspBuffer

\* The source port csp_connect() uses for every outgoing connection.
CONNECT_SPORT == 31

\* An identifier of zero-initialised static storage.
ZeroId == [src |-> 0, dst |-> 0, sport |-> 0, dport |-> 0]

\* csp_conn_init(): every slot closed.  The fields it does not assign keep
\* the zero value of the static array arr_conn.
Init ==
    conns = [i \in Conns |->
               [state |-> "SOCKET_CLOSED", idin |-> ZeroId, idout |-> ZeroId,
                rxq |-> <<>>, dest_socket |-> NULL, opts |-> {}]]

\* The part of identifier id that (id & mask) keeps.
Masked(id) == [f \in CONN_MASK |-> id[f]]

\* csp_conn_find(id, CONN_MASK): the first slot, in index order, whose
\* incoming identifier matches id under the mask and that is not closed.
Find(id) ==
    LET match == {i \in Conns : /\ Masked(conns[i].idin) = Masked(id)
                                /\ conns[i].state # "SOCKET_CLOSED"}
    IN  IF match = {} THEN NULL ELSE Min(match)

\* The search loop of csp_conn_new(): the first slot it reads as closed, or
\* NULL when none is.  The loop takes no lock: the read here and the claim
\* below are two steps, between which another task may run.
FirstFree ==
    LET free == {i \in Conns : conns[i].state = "SOCKET_CLOSED"}
    IN  IF free = {} THEN NULL ELSE Min(free)

\* The assignments csp_conn_new() makes to the slot it read as closed.
\* The slot is not read again, and dest_socket and opts are not assigned.
Claimed(i, idin, idout) ==
    [conns EXCEPT ![i].state = "SOCKET_OPEN", ![i].idin = idin, ![i].idout = idout]

Claim(i, idin, idout) == conns' = Claimed(i, idin, idout)

\* csp_connect(prio, dest, dport): the identifier pair of an outgoing
\* connection, always from source port 31.
ConnectIds(dest, dport) ==
    [idin  |-> [src |-> dest, dst |-> MyAddr, sport |-> dport, dport |-> CONNECT_SPORT],
     idout |-> [src |-> MyAddr, dst |-> dest, sport |-> CONNECT_SPORT, dport |-> dport]]

\* Mutant: the room test off by one.
CanEnqueueOffByOne(c) == Len(conns[c].rxq) <= CONN_RXQ_LEN

\* There is room in the receive queue of slot c.
CanEnqueue(c) == Len(conns[c].rxq) < CONN_RXQ_LEN

\* The dequeue loop of csp_close(): every queued packet freed.
Drain(c) == /\ Pool!Release(conns[c].rxq)
            /\ conns' = [conns EXCEPT ![c].rxq = <<>>]

\* The last assignment of csp_close().
SetClosed(c) == conns' = [conns EXCEPT ![c].state = "SOCKET_CLOSED"]

\* Mutant: a close that frees what was queued before but not the packet
\* just enqueued.
CloseWithLeak(c, s) ==
    /\ Pool!Release(conns[c].rxq)
    /\ conns' = [conns EXCEPT ![c].rxq = <<>>, ![c].state = "SOCKET_CLOSED"]

\* csp_close(conn) in one step, after packet b (or nothing, for <<>>) was
\* appended to its receive queue.
CloseWith(c, s) ==
    /\ Pool!Release(conns[c].rxq \o s)
    /\ conns' = [conns EXCEPT ![c].rxq = <<>>, ![c].state = "SOCKET_CLOSED"]
=============================================================================
