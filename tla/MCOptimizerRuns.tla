-------------------------- MODULE MCOptimizerRuns --------------------------
(* Instances of OptimizerRuns: two runs of one pair, two requests at a time. *)
EXTENDS OptimizerRuns

CONSTANTS r1, r2, p1, p2, c1, c2

OneSymbol == [p \in Rows |-> "EURUSD"]
=============================================================================
