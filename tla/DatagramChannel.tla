--------------------------- MODULE DatagramChannel ---------------------------
(***************************************************************************)
(* What a connection-less socket promises its reader (spec 2, 4.6 step 11):*)
(* datagrams may be lost, but are never duplicated, reordered or made up.  *)
(* chan holds the datagrams on their way, oldest first; got the ones the   *)
(* reader has taken and not yet given back (freed or sent on).             *)
(***************************************************************************)
EXTENDS Sequences, SequencesExt

CONSTANT Msgs

VARIABLES chan, got

Init == chan = <<>> /\ got = {}

\* A datagram enters the channel.
Send(m) ==
    /\ m \notin ToSet(chan) \cup got
    /\ chan' = Append(chan, m)
    /\ UNCHANGED got

\* Any datagram on its way may be lost.
Lose == \E i \in 1..Len(chan) : chan' = RemoveAt(chan, i) /\ UNCHANGED got

\* The reader takes the oldest datagram.
Recv ==
    /\ chan # <<>>
    /\ got' = got \cup {Head(chan)}
    /\ chan' = Tail(chan)

\* The reader is done with a datagram it took.
Consume(m) == m \in got /\ got' = got \ {m} /\ UNCHANGED chan

Next == (\E m \in Msgs : Send(m) \/ Consume(m)) \/ Lose \/ Recv

Spec == Init /\ [][Next]_<<chan, got>>
=============================================================================
