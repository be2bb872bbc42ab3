-------------------------- MODULE MCBacktestTrials --------------------------
(* Instances of BacktestTrials: two pairs, two parameter sets.  On gold one *)
(* of them looks like the baseline and cannot be deployed; on cable both    *)
(* can.                                                                     *)
EXTENDS BacktestTrials, TLC

CONSTANTS gold, cable, s1, s2

GoldThenCable == <<gold, cable>>

Scores ==
  gold  :> (s1 :> 3 @@ s2 :> 1 @@ Found :> 2 @@ Baseline :> 1) @@
  cable :> (s1 :> 4 @@ s2 :> 2 @@ Found :> 2 @@ Baseline :> 0)
=============================================================================
