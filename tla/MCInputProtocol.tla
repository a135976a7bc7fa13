--------------------------- MODULE MCInputProtocol ---------------------------
(* Short sessions of either frontend with a few faults.  The cabinet's     *)
(* queue, timeouts and rebuilds give it more states for each snapshot.     *)
EXTENDS InputProtocol

SequenceBound == [k \in Kinds |-> IF k = "Digital" THEN 3 ELSE 2]
=============================================================================
