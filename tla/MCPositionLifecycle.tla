------------------------ MODULE MCPositionLifecycle ------------------------
(* Instances of PositionLifecycle: two accounts, listed in the order a1,   *)
(* a2, of which a1 is the primary one.                                     *)
EXTENDS PositionLifecycle, TLC

CONSTANTS a1, a2, p1, p2, c1

Listed == [a \in Accounts |-> IF a = a1 THEN 1 ELSE 2]
=============================================================================
