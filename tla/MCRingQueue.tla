----------------------------- MODULE MCRingQueue -----------------------------
(* Small instances of RingQueue for TLC. *)
EXTENDS RingQueue, TLC

CONSTANTS t1, t2, t3, small, large, huge

\* An element that fits every buffer, one that fits only large ones and one that
\* the queue does not take.
MCSizeOf == [e \in Elems |-> CASE e = small -> 1 [] e = large -> 2 [] e = huge -> 3]
MCRooms == {1, 2}
=============================================================================
