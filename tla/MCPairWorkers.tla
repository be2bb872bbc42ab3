--------------------------- MODULE MCPairWorkers ---------------------------
(* Instances of PairWorkers: up to four pairs, two tabs, three attempts each. *)
EXTENDS PairWorkers

CONSTANTS p1, p2, p3, p4, w1, w2

Once == [p \in Pairs |-> 1]
Twice == [p \in Pairs |-> 2]
=============================================================================
