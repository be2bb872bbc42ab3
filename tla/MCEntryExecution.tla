------------------------- MODULE MCEntryExecution -------------------------
(* Instances of EntryExecution: an alert that TradingView sent twice, two  *)
(* workers, and a queue that delivers each receipt once or not.            *)
EXTENDS EntryExecution, TLC

CONSTANTS k1, r1, r2, d1, d2, a1, a2

\* Two webhooks for one trade, each delivered once.
SentTwice == r1 :> k1 @@ r2 :> k1
EachOnce  == d1 :> r1 @@ d2 :> r2

\* One webhook whose message is delivered twice.
SentOnce  == r1 :> k1
BothOfOne == d1 :> r1 @@ d2 :> r1
OneOfOne  == d1 :> r1
=============================================================================
