---------------------------- MODULE MC_PycspCapsule ----------------------------
(***************************************************************************)
(* Two Python threads, up to three packet capsules and two connections    *)
(* over a pool of 4 buffers with the reserve of 2: two packets can be held *)
(* at once, a third buffer_get fails, and a freed slot is handed out again. *)
(***************************************************************************)
EXTENDS PycspCapsule

MCBuffers == {"b1", "b2", "b3", "b4"}

\* Each thread passes only its own packets to calls (t1 two, t2 one) and
\* uses only its own connection.
MCPrivateCaps == [t \in Threads |-> IF t = "t1" THEN {"k1", "k2"} ELSE {"k3"}]
MCPrivateConns == [t \in Threads |-> IF t = "t1" THEN {"c1"} ELSE {"c2"}]

\* Both threads pass any packet capsule to calls.
MCSharedCaps == [t \in Threads |-> Caps]
MCSharedConns == [t \in Threads |-> ConnCaps]
=============================================================================
