-------------------------- MODULE MCStopManagement --------------------------
(* Instances of StopManagement: prices 1..5, entry at 3, stop at 1.  One   *)
(* row trails at distance 1 from the start, the other at 2 once the price  *)
(* has come back to the entry.                                             *)
EXTENDS StopManagement, TLC

CONSTANTS t1, t2

Distances  == [t \in Trails |-> IF t = t1 THEN 1 ELSE 2]
Thresholds == [t \in Trails |-> IF t = t1 THEN 0 ELSE Entry]
=============================================================================
