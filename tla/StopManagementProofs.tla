------------------------ MODULE StopManagementProofs ------------------------
(***************************************************************************)
(* Proofs about StopManagement for any number of trailing stops, any       *)
(* distances, thresholds and prices, and any number of requests.           *)
(***************************************************************************)
EXTENDS StopManagement, TLAPS

TrailRow == [active : BOOLEAN, on : BOOLEAN, cur : Int, high : Nat]

Places == {"idle", "trail", "move", "save_row", "save_trail", "be", "be_move", "be_save"}

Moving == {"move", "save_row", "save_trail"}

Job == [at : Places, todo : SUBSET Trails, seen : [Trails -> TrailRow],
        t : {{}} \cup {{t} : t \in Trails}, new : Int, ok : BOOLEAN]
-----------------------------------------------------------------------------
(* The worker's job.                                                       *)

LEMMA JobFields ==
  ASSUME TypeOK
  PROVE  /\ job \in Job
         /\ job.at \in Places /\ job.todo \subseteq Trails
         /\ job.seen \in [Trails -> TrailRow]
         /\ job.t \in {{}} \cup {{t} : t \in Trails}
         /\ job.new \in Int /\ job.ok \in BOOLEAN
BY DEF TypeOK, Job, Places, TrailRow

LEMMA IdleFields ==
  /\ Idle \in Job
  /\ Idle.at = "idle" /\ Idle.todo = {} /\ Idle.t = {} /\ Idle.new = 0
  /\ Idle.ok = FALSE /\ Idle.seen = [t \in Trails |-> NoTrail]
<1>1. NoTrail \in TrailRow  BY DEF NoTrail, TrailRow
<1> QED  BY <1>1 DEF Idle, Job, Places

\* The row in hand is put down, and the pass goes on with the others or ends.
LEMMA NextTrailFields ==
  ASSUME TypeOK, NEW rest, rest \subseteq Trails, NextTrail(rest)
  PROVE  /\ job' \in Job
         /\ job'.at = IF rest = {} THEN "be" ELSE "trail"
         /\ job'.todo = rest /\ job'.seen = job.seen
         /\ job'.t = {} /\ job'.new = 0
<1>1. PICK at \in Places : at = IF rest = {} THEN "be" ELSE "trail"  BY DEF Places
<1>2. job' = [job EXCEPT !.at = at, !.todo = rest, !.t = {}, !.new = 0]
  BY <1>1 DEF NextTrail
<1>3. job \in Job  BY JobFields
<1>4. job' = [at |-> at, todo |-> rest, seen |-> job.seen, t |-> {}, new |-> 0,
             ok |-> job.ok]
  BY <1>2, <1>3 DEF Job
<1>5. job' \in Job  BY <1>4, JobFields DEF Job
<1> QED  BY <1>1, <1>4, <1>5

LEMMA TypeOfJob ==
  ASSUME NEW j \in Job
  PROVE  j \in [at : {"idle", "trail", "move", "save_row", "save_trail", "be",
                      "be_move", "be_save"},
                todo : SUBSET Trails,
                seen : [Trails -> [active : BOOLEAN, on : BOOLEAN, cur : Int, high : Nat]],
                t : {{}} \cup {{t} : t \in Trails}, new : Int, ok : BOOLEAN]
BY DEF Job, Places, TrailRow

LEMMA NewTrailType ==
  ASSUME NEW t \in Trails, NEW sl \in Int
  PROVE  /\ NewTrail(t, sl) \in TrailRow
         /\ NewTrail(t, sl).cur = sl /\ NewTrail(t, sl).high = 0
BY DEF NewTrail, TrailRow

LEMMA BeStopType == BeStop \in Nat
BY StopAssumption DEF BeStop, HigherOf

\* What happens to the rows and the job in a step, with the sign of what is
\* written: all the invariants need of the actions.
LEMMA LookFields ==
  ASSUME TypeOK, Look
  PROVE  \E t \in job.todo :
           /\ trail' = [trail EXCEPT ![t].on = TRUE,
                                     ![t].high = HigherOf(job.seen[t].high, price)]
           /\ job' \in Job /\ job'.seen = job.seen /\ job'.todo = job.todo \ {t}
           /\ \/ /\ price - Dist[t] > job.seen[t].cur
                 /\ job'.at = "move" /\ job'.t = {t} /\ job'.new = price - Dist[t]
              \/ /\ price - Dist[t] <= job.seen[t].cur
                 /\ job'.at \in {"be", "trail"} /\ job'.t = {} /\ job'.new = 0
<1>1. PICK t \in job.todo :
        /\ trail' = [trail EXCEPT ![t].on = TRUE,
                                  ![t].high = HigherOf(job.seen[t].high, price)]
        /\ IF price - Dist[t] > job.seen[t].cur
           THEN job' = [job EXCEPT !.at = "move", !.todo = @ \ {t}, !.t = {t},
                                   !.new = price - Dist[t]]
           ELSE NextTrail(job.todo \ {t})
  BY DEF Look
<1>2. t \in Trails  BY <1>1, JobFields
<1>3. price - Dist[t] \in Int /\ job.seen[t].cur \in Int
  BY <1>2, JobFields, StopAssumption DEF TypeOK, TrailRow
<1>4. CASE price - Dist[t] > job.seen[t].cur
  <2>1. job' = [job EXCEPT !.at = "move", !.todo = @ \ {t}, !.t = {t}, !.new = price - Dist[t]]
    BY <1>1, <1>4
  <2>2. /\ job'.at = "move" /\ job'.todo = job.todo \ {t} /\ job'.t = {t}
        /\ job'.new = price - Dist[t] /\ job'.seen = job.seen /\ job' \in Job
    BY <1>2, <1>3, <2>1, JobFields DEF Job, Places
  <2> QED  BY <1>1, <1>4, <2>2
<1>5. CASE ~(price - Dist[t] > job.seen[t].cur)
  <2>1. NextTrail(job.todo \ {t})  BY <1>1, <1>5
  <2>2. job.todo \ {t} \subseteq Trails  BY JobFields
  <2>3. price - Dist[t] <= job.seen[t].cur  BY <1>3, <1>5
  <2> QED  BY <1>1, <2>1, <2>2, <2>3, NextTrailFields
<1> QED  BY <1>4, <1>5

LEMMA BeTriggersFields ==
  ASSUME TypeOK, BeTriggers
  PROVE  /\ job' \in Job
         /\ job'.at = "be_move" /\ job'.todo = {} /\ job'.t = {} /\ job'.new \in Nat
         /\ job'.seen = [t \in Trails |-> NoTrail]
<1>1. PICK new \in Nat : new = BeStop  BY BeStopType
<1>2. job' = [Idle EXCEPT !.at = "be_move", !.new = new]  BY <1>1 DEF BeTriggers
<1>3. job' = [at |-> "be_move", todo |-> {}, seen |-> [t \in Trails |-> NoTrail],
              t |-> {}, new |-> new, ok |-> FALSE]
  BY <1>2 DEF Idle
<1>4. [t \in Trails |-> NoTrail] \in [Trails -> TrailRow]  BY DEF NoTrail, TrailRow
<1>5. job' \in Job  BY <1>3, <1>4 DEF Job, Places
<1> QED  BY <1>3, <1>5

LEMMA BeMovesFields ==
  ASSUME TypeOK, BeMoves
  PROVE  /\ job' \in Job
         /\ job'.at = "be_save" /\ job'.todo = job.todo /\ job'.t = job.t
         /\ job'.new = job.new /\ job'.seen = job.seen
<1>1. PICK ok \in BOOLEAN : job' = [job EXCEPT !.at = "be_save", !.ok = ok]
  BY DEF BeMoves
<1>2. job' = [at |-> "be_save", todo |-> job.todo, seen |-> job.seen, t |-> job.t,
              new |-> job.new, ok |-> ok]
  BY <1>1, JobFields DEF Job
<1>3. job' \in Job  BY <1>2, JobFields DEF Job, Places
<1> QED  BY <1>2, <1>3

LEMMA StepFields ==
  ASSUME TypeOK, NEW at \in Places, job' = [job EXCEPT !.at = at]
  PROVE  /\ job' \in Job
         /\ job'.at = at /\ job'.todo = job.todo /\ job'.t = job.t
         /\ job'.new = job.new /\ job'.seen = job.seen
<1>1. job' = [at |-> at, todo |-> job.todo, seen |-> job.seen, t |-> job.t,
              new |-> job.new, ok |-> job.ok]
  BY JobFields DEF Job
<1>2. job' \in Job  BY <1>1, JobFields DEF Job
<1> QED  BY <1>1, <1>2

LEMMA StartFields ==
  ASSUME TypeOK, StartPass
  PROVE  /\ job' \in Job
         /\ job'.at \in {"be", "trail"} /\ job'.t = {} /\ job'.new = 0
         /\ job'.todo = {t \in Trails : trail[t].active} /\ job'.seen = trail
         /\ job'.todo = {} <=> job'.at = "be"
<1> DEFINE active == {t \in Trails : trail[t].active}
<1>1. PICK at \in Places : at = IF active = {} THEN "be" ELSE "trail"  BY DEF Places
<1>2. job' = [Idle EXCEPT !.at = at, !.todo = active, !.seen = trail]
  BY <1>1 DEF StartPass
<1>3. job' = [at |-> at, todo |-> active, seen |-> trail, t |-> {}, new |-> 0, ok |-> FALSE]
  BY <1>2 DEF Idle
<1>4. trail \in [Trails -> TrailRow]  BY DEF TypeOK, TrailRow
<1>5. job' \in Job  BY <1>3, <1>4 DEF Job
<1> QED  BY <1>1, <1>3, <1>5
-----------------------------------------------------------------------------
(* Types.                                                                  *)

RowRec == [open : BOOLEAN, sl : Int, be : BOOLEAN]

InHand(j) == (j.t = {}) <=> (j.at \notin Moving)

LEMMA TypeParts ==
  TypeOK <=> /\ price \in Nat /\ held \in BOOLEAN /\ bsl \in Int /\ row \in RowRec
             /\ trail \in [Trails -> TrailRow] /\ job \in Job /\ InHand(job)
             /\ req \in Nat /\ human \in Nat /\ beCalls \in 0..2
BY DEF TypeOK, RowRec, TrailRow, Job, Places, InHand, Moving

LEMMA ModifyType ==
  ASSUME TypeOK, NEW new \in Int, NEW ok \in BOOLEAN, Modify(new, ok)
  PROVE  bsl' \in Int
BY DEF Modify, TypeOK

\* A row is added that was not there: by the dashboard, or at the handover.
Adds(sl) ==
  \E t \in Trails : trail[t] = NoTrail /\ trail' = [trail EXCEPT ![t] = NewTrail(t, sl)]

LEMMA AddsType ==
  ASSUME TypeOK, NEW sl \in Int, Adds(sl) \/ UNCHANGED trail
  PROVE  trail' \in [Trails -> TrailRow]
BY TypeParts, NewTrailType DEF Adds

LEMMA HandOverAdds ==
  ASSUME NEW sl, HandOver(sl)
  PROVE  Adds(sl) \/ UNCHANGED trail
BY DEF HandOver, Adds

LEMMA LookTrail ==
  ASSUME TypeOK, NEW t \in Trails, NEW high \in Nat,
         trail' = [trail EXCEPT ![t].on = TRUE, ![t].high = high]
  PROVE  /\ trail' \in [Trails -> TrailRow]
         /\ trail'[t] = [trail[t] EXCEPT !.on = TRUE, !.high = high]
         /\ trail'[t].on = TRUE /\ trail'[t].high = high
         /\ trail'[t].cur = trail[t].cur /\ trail'[t].active = trail[t].active
         /\ \A u \in Trails : u # t => trail'[u] = trail[u]
<1>1. trail \in [Trails -> TrailRow] /\ trail[t] \in TrailRow  BY TypeParts
<1>2. trail'[t] = [active |-> trail[t].active, on |-> TRUE, cur |-> trail[t].cur,
                   high |-> high]
  BY <1>1 DEF TrailRow
<1>3. trail'[t] \in TrailRow  BY <1>1, <1>2 DEF TrailRow
<1>4. \A u \in Trails : u # t => trail'[u] = trail[u]  BY <1>1
<1>5. trail' \in [Trails -> TrailRow]  BY <1>1, <1>3, <1>4
<1> QED  BY <1>1, <1>2, <1>4, <1>5 DEF TrailRow

LEMMA SaveTrailRows ==
  ASSUME TypeOK, SaveTrail
  PROVE  /\ trail' \in [Trails -> TrailRow]
         /\ \A t \in Trails \ job.t : trail'[t] = trail[t]
         /\ \A t \in job.t : \/ trail'[t] = [trail[t] EXCEPT !.cur = job.new]
                             \/ "db_write" \in Faults /\ trail'[t] = trail[t]
<1>1. trail \in [Trails -> TrailRow] /\ job.new \in Int /\ job.t \subseteq Trails
  BY TypeParts, JobFields
<1>2. \A t \in Trails : [trail[t] EXCEPT !.cur = job.new] \in TrailRow
  BY <1>1 DEF TrailRow
<1> QED  BY <1>1, <1>2 DEF SaveTrail

LEMMA TypeStep ==
  ASSUME TypeOK, [Next]_vars
  PROVE  TypeOK'
<1>0. /\ price \in Nat /\ held \in BOOLEAN /\ bsl \in Int /\ row \in RowRec
      /\ trail \in [Trails -> TrailRow] /\ job \in Job /\ InHand(job)
      /\ req \in Nat /\ human \in Nat /\ beCalls \in 0..2
  BY TypeParts
<1> DEFINE Parts ==
      /\ price' \in Nat /\ held' \in BOOLEAN /\ bsl' \in Int /\ row' \in RowRec
      /\ trail' \in [Trails -> TrailRow] /\ job' \in Job /\ InHand(job')
      /\ req' \in Nat /\ human' \in Nat /\ beCalls' \in 0..2
<1>t. Parts => TypeOK'
  BY TypeParts DEF TypeOK, RowRec, TrailRow, Job, Places, InHand, Moving
<1>f. /\ job.todo \subseteq Trails /\ job.new \in Int /\ job.ok \in BOOLEAN
  BY JobFields
<1>1. CASE PriceMoves
  BY <1>0, <1>t, <1>1, StopAssumption DEF PriceMoves, Prices
<1>2. CASE PositionCloses
  BY <1>0, <1>t, <1>2 DEF PositionCloses
<1>3. CASE StartPass
  <2>1. job' \in Job /\ InHand(job')  BY <1>3, StartFields DEF InHand, Moving
  <2> QED  BY <1>0, <1>t, <1>3, <2>1 DEF StartPass
<1>4. CASE SkipRow
  <2>1. PICK t \in job.todo : NextTrail(job.todo \ {t})  BY <1>4 DEF SkipRow
  <2>2. job' \in Job /\ InHand(job')
    BY <1>f, <2>1, NextTrailFields DEF InHand, Moving
  <2> QED  BY <1>0, <1>t, <1>4, <2>2 DEF SkipRow
<1>5. CASE Look
  <2>1. PICK t \in job.todo :
          /\ trail' = [trail EXCEPT ![t].on = TRUE,
                                    ![t].high = HigherOf(job.seen[t].high, price)]
          /\ job' \in Job
          /\ \/ job'.at = "move" /\ job'.t = {t}
             \/ job'.at \in {"be", "trail"} /\ job'.t = {}
    BY <1>5, LookFields
  <2>2. t \in Trails /\ job.seen[t] \in TrailRow  BY <1>f, JobFields
  <2>3. PICK high \in Nat : high = HigherOf(job.seen[t].high, price)
    BY <1>0, <2>2 DEF HigherOf, TrailRow
  <2>4. trail' \in [Trails -> TrailRow]  BY <2>1, <2>2, <2>3, LookTrail
  <2>5. InHand(job')  BY <2>1 DEF InHand, Moving
  <2> QED  BY <1>0, <1>t, <1>5, <2>1, <2>4, <2>5 DEF Look
<1>6. CASE MoveBroker
  <2>1. job' \in Job /\ job'.at = "save_row" /\ job'.t = job.t
    BY <1>6, StepFields DEF MoveBroker, Places
  <2>2. bsl' \in Int  BY <1>6, <1>f, ModifyType DEF MoveBroker
  <2>3. InHand(job')  BY <1>0, <1>6, <2>1 DEF InHand, Moving, MoveBroker
  <2> QED  BY <1>0, <1>t, <1>6, <2>1, <2>2, <2>3 DEF MoveBroker
<1>7. CASE SaveRow
  <2>1. row' = [row EXCEPT !.sl = job.new] \/ row' = row  BY <1>7 DEF SaveRow
  <2>2. row' \in RowRec  BY <1>0, <1>f, <2>1 DEF RowRec
  <2>3. CASE job' = [job EXCEPT !.at = "save_trail"]
    <3>1. job' \in Job /\ job'.at = "save_trail" /\ job'.t = job.t
      BY <2>3, StepFields DEF Places
    <3>2. InHand(job')  BY <1>0, <1>7, <3>1 DEF InHand, Moving, SaveRow
    <3> QED  BY <1>0, <1>t, <1>7, <2>2, <3>1, <3>2 DEF SaveRow
  <2>4. CASE NextTrail(job.todo)
    <3>1. job' \in Job /\ InHand(job')
      BY <1>f, <2>4, NextTrailFields DEF InHand, Moving
    <3> QED  BY <1>0, <1>t, <1>7, <2>2, <3>1 DEF SaveRow
  <2> QED  BY <1>7, <2>3, <2>4 DEF SaveRow
<1>8. CASE SaveTrail
  <2>1. trail' \in [Trails -> TrailRow]  BY <1>8, SaveTrailRows
  <2>2. job' \in Job /\ InHand(job')
    BY <1>f, <1>8, NextTrailFields DEF InHand, Moving, SaveTrail
  <2> QED  BY <1>0, <1>t, <1>8, <2>1, <2>2 DEF SaveTrail
<1>9. CASE BeWaits
  <2>1. job' \in Job /\ InHand(job')  BY <1>9, IdleFields DEF BeWaits, InHand, Moving
  <2> QED  BY <1>0, <1>t, <1>9, <2>1 DEF BeWaits
<1>10. CASE BeTriggers
  <2>1. job' \in Job /\ InHand(job')  BY <1>10, BeTriggersFields DEF InHand, Moving
  <2> QED  BY <1>0, <1>t, <1>10, <2>1 DEF BeTriggers
<1>11. CASE BeMoves
  <2>1. job' \in Job /\ job'.at = "be_save" /\ job'.t = job.t
    BY <1>11, BeMovesFields
  <2>2. InHand(job')  BY <1>0, <1>11, <2>1 DEF BeMoves, InHand, Moving
  <2>3. bsl' \in Int  BY <1>11, <1>f, ModifyType DEF BeMoves
  <2>4. beCalls' \in 0..2  BY <1>0, <1>11 DEF BeMoves
  <2> QED  BY <1>0, <1>t, <1>11, <2>1, <2>2, <2>3, <2>4 DEF BeMoves
<1>12. CASE BeSaves
  <2>1. job' \in Job /\ InHand(job')  BY <1>12, IdleFields DEF BeSaves, InHand, Moving
  <2>2. row' = [row EXCEPT !.be = TRUE, !.sl = job.new] \/ row' = row  BY <1>12 DEF BeSaves
  <2>3. row' \in RowRec  BY <1>0, <1>f, <2>2 DEF RowRec
  <2>4. trail' \in [Trails -> TrailRow]
    BY <1>0, <1>f, <1>12, HandOverAdds, AddsType DEF BeSaves
  <2> QED  BY <1>0, <1>t, <1>12, <2>1, <2>3, <2>4 DEF BeSaves
<1>13. ASSUME NEW t \in Trails, AddTrailing(t) PROVE TypeOK'
  <2>1. row.sl \in Int  BY <1>0 DEF RowRec
  <2>2. trail' \in [Trails -> TrailRow]
    BY <1>13, <2>1, AddsType DEF AddTrailing, Adds
  <2> QED  BY <1>0, <1>t, <1>13, <2>2 DEF AddTrailing, Asks
<1>14. ASSUME NEW t \in Trails, RemoveTrailing(t) PROVE TypeOK'
  <2>1. trail' \in [Trails -> TrailRow]  BY <1>0, <1>14 DEF RemoveTrailing, TrailRow
  <2> QED  BY <1>0, <1>t, <1>14, <2>1 DEF RemoveTrailing
<1>15. CASE AskModify
  <2>1. PICK new \in Prices, ok \in BOOLEAN :
          Modify(new, ok) /\ req' = IF ok THEN new ELSE 0
    BY <1>15 DEF AskModify
  <2>2. new \in Nat  BY StopAssumption DEF Prices
  <2>3. bsl' \in Int  BY <2>1, <2>2, ModifyType
  <2> QED  BY <1>0, <1>t, <1>15, <2>1, <2>2, <2>3 DEF AskModify, Asks
<1>16. CASE SaveModified
  <2>1. row' \in RowRec  BY <1>0, <1>16 DEF SaveModified, RowRec
  <2> QED  BY <1>0, <1>t, <1>16, <2>1 DEF SaveModified
<1>17. CASE BatchBreakeven
  <2>1. row' \in RowRec  BY <1>0, <1>17, StopAssumption DEF BatchBreakeven, RowRec
  <2> QED  BY <1>0, <1>t, <1>17, <2>1 DEF BatchBreakeven, Asks
<1>18. CASE RowCloses
  <2>1. row' \in RowRec  BY <1>0, <1>18 DEF RowCloses, RowRec
  <2> QED  BY <1>0, <1>t, <1>18, <2>1 DEF RowCloses
<1>19. CASE UNCHANGED vars
  BY <1>0, <1>t, <1>19 DEF vars
<1> QED  BY <1>1, <1>2, <1>3, <1>4, <1>5, <1>6, <1>7, <1>8, <1>9, <1>10, <1>11, <1>12,
            <1>13, <1>14, <1>15, <1>16, <1>17, <1>18, <1>19
         DEF Next, Worker, Dashboard

LEMMA TypeInit == Init => TypeOK
<1>1. NoTrail \in TrailRow  BY DEF NoTrail, TrailRow
<1>2. InHand(Idle)  BY IdleFields DEF InHand, Moving
<1> QED  BY <1>1, <1>2, IdleFields, TypeParts, StopAssumption DEF Init, RowRec

\* Every variable keeps its type, and the worker has a row of trailing_stops in
\* hand exactly while it moves and saves its stop.
THEOREM TypeCorrect == Spec => []TypeOK
BY TypeInit, TypeStep, PTL DEF Spec
-----------------------------------------------------------------------------
(* Break-even fires once.                                                  *)

\* Once a break-even modification is sent, its row is marked, or about to be.
BeInv == /\ beCalls \in {0, 1}
         /\ job.at = "be_move" => beCalls = 0
         /\ beCalls = 1 => row.be \/ job.at = "be_save"

LEMMA RowKeepsBe ==
  ASSUME TypeOK, [Next]_vars
  PROVE  row.be => row'.be
BY DEF TypeOK, Next, Worker, Dashboard, vars, PriceMoves, PositionCloses, StartPass, SkipRow,
       Look, MoveBroker, SaveRow, SaveTrail, BeWaits, BeTriggers, BeMoves, BeSaves,
       AddTrailing, RemoveTrailing, AskModify, SaveModified, BatchBreakeven, RowCloses

\* Where the worker may be after a step that is not of break-even.
LEMMA ElsewhereFields ==
  ASSUME TypeOK, StartPass \/ SkipRow \/ Look \/ MoveBroker \/ SaveRow \/ SaveTrail
  PROVE  /\ job'.at \in {"trail", "move", "save_row", "save_trail", "be"}
         /\ job.at \notin {"be_save", "be_move"}
         /\ UNCHANGED beCalls
<1>f. job.todo \subseteq Trails  BY JobFields
<1>1. CASE StartPass
  <2>1. job'.at \in {"be", "trail"}  BY <1>1, StartFields
  <2> QED  BY <1>1, <2>1 DEF StartPass
<1>2. CASE SkipRow
  <2>1. PICK t \in job.todo : NextTrail(job.todo \ {t})  BY <1>2 DEF SkipRow
  <2>2. job'.at \in {"be", "trail"}  BY <1>f, <2>1, NextTrailFields
  <2> QED  BY <1>2, <2>2 DEF SkipRow
<1>3. CASE Look
  <2>1. job'.at \in {"move", "be", "trail"}  BY <1>3, LookFields
  <2> QED  BY <1>3, <2>1 DEF Look
<1>4. CASE MoveBroker
  <2>1. job'.at = "save_row"  BY <1>4, StepFields DEF MoveBroker, Places
  <2> QED  BY <1>4, <2>1 DEF MoveBroker
<1>5. CASE SaveRow
  <2>1. CASE job' = [job EXCEPT !.at = "save_trail"]
    <3>1. job'.at = "save_trail"  BY <2>1, StepFields DEF Places
    <3> QED  BY <1>5, <3>1 DEF SaveRow
  <2>2. CASE NextTrail(job.todo)
    <3>1. job'.at \in {"be", "trail"}  BY <1>f, <2>2, NextTrailFields
    <3> QED  BY <1>5, <3>1 DEF SaveRow
  <2> QED  BY <1>5, <2>1, <2>2 DEF SaveRow
<1>6. CASE SaveTrail
  <2>1. job'.at \in {"be", "trail"}  BY <1>f, <1>6, NextTrailFields DEF SaveTrail
  <2> QED  BY <1>6, <2>1 DEF SaveTrail
<1> QED  BY <1>1, <1>2, <1>3, <1>4, <1>5, <1>6

LEMMA BeStep ==
  ASSUME "db_write" \notin Faults, TypeOK, BeInv, [Next]_vars
  PROVE  BeInv'
<1>0. row.be => row'.be  BY RowKeepsBe
<1>1. CASE StartPass \/ SkipRow \/ Look \/ MoveBroker \/ SaveRow \/ SaveTrail
  BY <1>0, <1>1, ElsewhereFields DEF BeInv
<1>2. CASE BeWaits
  BY <1>2, IdleFields DEF BeInv, BeWaits
<1>3. CASE BeTriggers
  <2>1. beCalls = 0 /\ beCalls' = 0
    BY <1>3 DEF BeInv, BeTriggers, Pending
  <2> QED  BY <2>1, <1>3, BeTriggersFields DEF BeInv
<1>4. CASE BeMoves
  <2>1. beCalls = 0 /\ beCalls' = 1  BY <1>4 DEF BeInv, BeMoves
  <2> QED  BY <2>1, <1>4, BeMovesFields DEF BeInv
<1>5. CASE BeSaves
  <2>1. row' = [row EXCEPT !.be = TRUE, !.sl = job.new]  BY <1>5 DEF BeSaves
  <2>2. row'.be = TRUE  BY <2>1 DEF TypeOK
  <2> QED  BY <1>5, <2>2, IdleFields DEF BeInv, BeSaves
<1>6. CASE PriceMoves \/ PositionCloses \/ Dashboard \/ UNCHANGED vars
  <2>1. UNCHANGED <<job, beCalls>>
    BY <1>6 DEF PriceMoves, PositionCloses, Dashboard, vars, AddTrailing, RemoveTrailing,
                AskModify, SaveModified, BatchBreakeven, RowCloses
  <2> QED  BY <1>0, <2>1 DEF BeInv
<1> QED  BY <1>1, <1>2, <1>3, <1>4, <1>5, <1>6 DEF Next, Worker

\* Break-even is sent to the broker at most once, whether the broker takes it,
\* refuses it or says nothing, and whoever writes the row in between, as long as
\* no UPDATE of the worker is lost: the mark is set in the step after the call.
THEOREM BreakEvenFiresOnce ==
  ASSUME "db_write" \notin Faults
  PROVE  Spec => []BeFiresOnce
<1>1. Init => BeInv  BY IdleFields DEF Init, BeInv
<1>2. TypeOK /\ BeInv /\ [Next]_vars => BeInv'  BY BeStep
<1>3. BeInv => BeFiresOnce  BY DEF BeInv, BeFiresOnce
<1> QED  BY <1>1, <1>2, <1>3, TypeCorrect, PTL DEF Spec
-----------------------------------------------------------------------------
(* A trailing stop follows the price.                                      *)

\* Nothing the stop is set to is negative, and a price is at least one.
SignInv ==
  /\ price > 0 /\ row.sl >= 0 /\ job.new >= 0
  /\ \A t \in Trails : trail[t].cur >= 0 /\ job.seen[t].cur >= 0

\* Row r is no further than its distance from its high.
Close(t, r) == r.high > 0 => r.cur >= r.high - Dist[t]

\* A row that the pass has yet to look at is as close as it was in the snapshot,
\* and has not fallen back behind it since.
SeenInv ==
  \A t \in job.todo : /\ t \notin job.t
                      /\ Close(t, job.seen[t])
                      /\ trail[t].cur >= job.seen[t].cur

\* The row in hand gets the stop its new high asks for.
HandInv ==
  \A t \in job.t : trail[t].on /\ job.new >= trail[t].high - Dist[t]

TrailInv == SignInv /\ SeenInv /\ HandInv /\ TrailFollows

LEMMA SignStep ==
  ASSUME TypeOK, SignInv, [Next]_vars
  PROVE  SignInv'
<1>0. /\ price > 0 /\ row.sl >= 0 /\ job.new >= 0
      /\ \A t \in Trails : trail[t].cur >= 0 /\ job.seen[t].cur >= 0
  BY DEF SignInv
<1>p. /\ price \in Nat /\ row \in RowRec /\ trail \in [Trails -> TrailRow] /\ req \in Nat
      /\ job.new \in Int /\ job.seen \in [Trails -> TrailRow] /\ job.todo \subseteq Trails
      /\ job.t \subseteq Trails
  BY TypeParts, JobFields
<1>1. price' > 0
  <2>1. price' = price \/ price' \in Prices
    BY DEF Next, Worker, Dashboard, vars, PriceMoves, PositionCloses, StartPass, SkipRow,
           Look, MoveBroker, SaveRow, SaveTrail, BeWaits, BeTriggers, BeMoves, BeSaves,
           AddTrailing, RemoveTrailing, AskModify, SaveModified, BatchBreakeven, RowCloses
  <2> QED  BY <1>0, <2>1, StopAssumption DEF Prices
<1>2. row'.sl >= 0
  <2>1. \/ row' = row \/ row' = [row EXCEPT !.sl = job.new]
        \/ row' = [row EXCEPT !.be = TRUE, !.sl = job.new]
        \/ row' = [row EXCEPT !.sl = req] \/ row' = [row EXCEPT !.sl = Entry]
        \/ row' = [row EXCEPT !.open = FALSE]
    BY DEF Next, Worker, Dashboard, vars, PriceMoves, PositionCloses, StartPass, SkipRow,
           Look, MoveBroker, SaveRow, SaveTrail, BeWaits, BeTriggers, BeMoves, BeSaves,
           AddTrailing, RemoveTrailing, AskModify, SaveModified, BatchBreakeven, RowCloses
  <2>2. row'.sl \in {row.sl, job.new, req, Entry}  BY <1>p, <2>1 DEF RowRec
  <2>3. req >= 0 /\ Entry >= 0  BY <1>p, StopAssumption
  <2> QED  BY <1>0, <2>2, <2>3
<1>3. job'.new >= 0 /\ \A t \in Trails : job'.seen[t].cur >= 0
  <2>1. CASE StartPass
    <3>1. job'.new = 0 /\ job'.seen = trail  BY <2>1, StartFields
    <3> QED  BY <1>0, <3>1
  <2>2. CASE SkipRow
    <3>1. PICK t \in job.todo : NextTrail(job.todo \ {t})  BY <2>2 DEF SkipRow
    <3>2. job'.new = 0 /\ job'.seen = job.seen  BY <1>p, <3>1, NextTrailFields
    <3> QED  BY <1>0, <3>2
  <2>3. CASE Look
    <3>1. PICK t \in job.todo :
            /\ job'.seen = job.seen
            /\ \/ price - Dist[t] > job.seen[t].cur /\ job'.new = price - Dist[t]
               \/ job'.new = 0
      BY <2>3, LookFields
    <3>2. t \in Trails /\ job.seen[t] \in TrailRow  BY <1>p
    <3>3. job.seen[t].cur \in Int /\ Dist[t] \in Nat  BY <3>2, StopAssumption DEF TrailRow
    <3>4. job.seen[t].cur >= 0  BY <1>0, <3>2
    <3>5. job'.new >= 0  BY <1>p, <3>1, <3>3, <3>4
    <3> QED  BY <1>0, <3>1, <3>5
  <2>4. CASE MoveBroker
    <3>1. job'.new = job.new /\ job'.seen = job.seen
      BY <2>4, StepFields DEF MoveBroker, Places
    <3> QED  BY <1>0, <3>1
  <2>5. CASE SaveRow
    <3>1. CASE job' = [job EXCEPT !.at = "save_trail"]
      <4>1. job'.new = job.new /\ job'.seen = job.seen  BY <3>1, StepFields DEF Places
      <4> QED  BY <1>0, <4>1
    <3>2. CASE NextTrail(job.todo)
      <4>1. job'.new = 0 /\ job'.seen = job.seen  BY <1>p, <3>2, NextTrailFields
      <4> QED  BY <1>0, <4>1
    <3> QED  BY <2>5, <3>1, <3>2 DEF SaveRow
  <2>6. CASE SaveTrail
    <3>1. job'.new = 0 /\ job'.seen = job.seen
      BY <1>p, <2>6, NextTrailFields DEF SaveTrail
    <3> QED  BY <1>0, <3>1
  <2>7. CASE BeWaits \/ BeSaves
    <3>1. job'.new = 0 /\ job'.seen = [t \in Trails |-> NoTrail]
      BY <2>7, IdleFields DEF BeWaits, BeSaves
    <3> QED  BY <3>1 DEF NoTrail
  <2>8. CASE BeTriggers
    <3>1. job'.new \in Nat /\ job'.seen = [t \in Trails |-> NoTrail]
      BY <2>8, BeTriggersFields
    <3> QED  BY <3>1 DEF NoTrail
  <2>9. CASE BeMoves
    <3>1. job'.new = job.new /\ job'.seen = job.seen  BY <2>9, BeMovesFields
    <3> QED  BY <1>0, <3>1
  <2>10. CASE UNCHANGED job
    BY <1>0, <2>10
  <2> QED  BY <2>1, <2>2, <2>3, <2>4, <2>5, <2>6, <2>7, <2>8, <2>9, <2>10
           DEF Next, Worker, Dashboard, vars, PriceMoves, PositionCloses, AddTrailing,
               RemoveTrailing, AskModify, SaveModified, BatchBreakeven, RowCloses
<1>4. \A t \in Trails : trail'[t].cur >= 0
  <2>1. CASE Look
    <3>1. PICK t \in job.todo :
            trail' = [trail EXCEPT ![t].on = TRUE,
                                   ![t].high = HigherOf(job.seen[t].high, price)]
      BY <2>1, LookFields
    <3>2. \A u \in Trails : trail'[u].cur = trail[u].cur
      BY <1>p, <3>1 DEF TrailRow
    <3> QED  BY <1>0, <3>2
  <2>2. CASE SaveTrail
    <3>1. \A t \in Trails : trail'[t].cur \in {trail[t].cur, job.new}
      BY <1>p, <2>2 DEF SaveTrail, TrailRow
    <3> QED  BY <1>0, <3>1
  <2>3. ASSUME NEW t \in Trails, RemoveTrailing(t)
        PROVE  \A u \in Trails : trail'[u].cur >= 0
    <3>1. \A u \in Trails : trail'[u].cur = trail[u].cur
      BY <1>p, <2>3 DEF RemoveTrailing, TrailRow
    <3> QED  BY <1>0, <3>1
  <2>4. ASSUME NEW sl \in Int, sl >= 0, Adds(sl)
        PROVE  \A u \in Trails : trail'[u].cur >= 0
    <3>1. PICK t \in Trails : trail' = [trail EXCEPT ![t] = NewTrail(t, sl)]
      BY <2>4 DEF Adds
    <3> QED  BY <1>0, <1>p, <2>4, <3>1, NewTrailType
  <2>5. ASSUME NEW t \in Trails, AddTrailing(t)
        PROVE  \A u \in Trails : trail'[u].cur >= 0
    <3>1. row.sl \in Int  BY <1>p DEF RowRec
    <3> QED  BY <1>0, <2>4, <2>5, <3>1 DEF AddTrailing, Adds
  <2>6. CASE BeSaves
    BY <1>0, <1>p, <2>4, <2>6, HandOverAdds DEF BeSaves
  <2>7. CASE UNCHANGED trail
    BY <1>0, <2>7
  <2> QED  BY <2>1, <2>2, <2>3, <2>5, <2>6, <2>7
           DEF Next, Worker, Dashboard, vars, PriceMoves, PositionCloses, StartPass, SkipRow,
               MoveBroker, SaveRow, BeWaits, BeTriggers, BeMoves, AskModify, SaveModified,
               BatchBreakeven, RowCloses
<1> QED  BY <1>1, <1>2, <1>3, <1>4 DEF SignInv

\* A row is added that was not in hand, and starts with no high: nothing that
\* was promised of the rows is about it.
LEMMA AddsKeeps ==
  ASSUME TypeOK, TrailInv, NEW sl \in Int, sl >= 0, Adds(sl) \/ UNCHANGED trail,
         NEW j \in Job, job' = j, j.todo \subseteq job.todo, j.t = job.t,
         j.seen = job.seen \/ j.todo = {}, j.new = job.new \/ j.t = {}
  PROVE  SeenInv' /\ HandInv' /\ TrailFollows'
<1>p. /\ trail \in [Trails -> TrailRow] /\ job.seen \in [Trails -> TrailRow]
      /\ job.todo \subseteq Trails /\ job.t \subseteq Trails /\ job.new \in Int
  BY TypeParts, JobFields
<1>0. SignInv /\ SeenInv /\ HandInv /\ TrailFollows  BY DEF TrailInv
<1>1. CASE UNCHANGED trail
  BY <1>0, <1>1 DEF SeenInv, HandInv, TrailFollows, Close
<1>2. CASE Adds(sl)
  <2>1. PICK t \in Trails : trail[t] = NoTrail /\ trail' = [trail EXCEPT ![t] = NewTrail(t, sl)]
    BY <1>2 DEF Adds
  <2>2. trail'[t].cur = sl /\ trail'[t].high = 0
    BY <1>p, <2>1, NewTrailType
  <2>3. \A u \in Trails : u # t => trail'[u] = trail[u]  BY <1>p, <2>1
  <2>4. trail[t].cur = 0 /\ trail[t].on = FALSE  BY <2>1 DEF NoTrail
  <2>5. t \notin job.t  BY <1>0, <2>4 DEF HandInv
  <2>6. HandInv'  BY <1>0, <1>p, <2>3, <2>5 DEF HandInv
  <2>7. SeenInv'
    <3>1. SUFFICES ASSUME NEW u \in job'.todo
                   PROVE  /\ u \notin job'.t /\ Close(u, job'.seen[u])
                          /\ trail'[u].cur >= job'.seen[u].cur
      BY DEF SeenInv, Close
    <3>2. u \in job.todo /\ job'.seen = job.seen /\ job'.t = job.t  BY <3>1
    <3>3. /\ u \notin job.t /\ Close(u, job.seen[u])
          /\ trail[u].cur >= job.seen[u].cur
      BY <1>0, <3>2 DEF SeenInv
    <3>4. u = t => trail'[u].cur >= job.seen[u].cur
      <4>1. u \in Trails /\ job.seen[u] \in TrailRow  BY <1>p, <3>2
      <4>2. job.seen[u].cur \in Int  BY <4>1 DEF TrailRow
      <4> QED  BY <2>2, <2>4, <3>3, <4>2
    <3> QED  BY <1>p, <2>3, <3>2, <3>3, <3>4
  <2>8. TrailFollows'
    BY <1>0, <1>p, <2>2, <2>3 DEF TrailFollows
  <2> QED  BY <2>6, <2>7, <2>8
<1> QED  BY <1>1, <1>2

\* A step that writes no row and takes at most rows out of the pass.
LEMMA RowsStay ==
  ASSUME TypeOK, TrailInv, UNCHANGED trail, job'.todo \subseteq job.todo,
         job'.t = job.t, job'.seen = job.seen \/ job'.todo = {},
         job'.new = job.new \/ job'.t = {}
  PROVE  SeenInv' /\ HandInv' /\ TrailFollows'
BY DEF TrailInv, SeenInv, HandInv, TrailFollows, Close

LEMMA LookCloses ==
  ASSUME TypeOK, TrailInv, Look
  PROVE  SeenInv' /\ HandInv' /\ TrailFollows'
<1>p. /\ trail \in [Trails -> TrailRow] /\ job.seen \in [Trails -> TrailRow]
      /\ job.todo \subseteq Trails /\ job.t \subseteq Trails /\ price \in Nat
      /\ InHand(job)
  BY TypeParts, JobFields
<1>0. SignInv /\ SeenInv /\ HandInv /\ TrailFollows  BY DEF TrailInv
<1>1. PICK t \in job.todo :
        /\ trail' = [trail EXCEPT ![t].on = TRUE,
                                  ![t].high = HigherOf(job.seen[t].high, price)]
        /\ job'.seen = job.seen /\ job'.todo = job.todo \ {t}
        /\ \/ /\ price - Dist[t] > job.seen[t].cur
              /\ job'.t = {t} /\ job'.new = price - Dist[t]
           \/ /\ price - Dist[t] <= job.seen[t].cur
              /\ job'.t = {} /\ job'.new = 0
  BY LookFields
<1>2. t \in Trails /\ job.seen[t] \in TrailRow /\ Dist[t] \in Nat  BY <1>p, <1>1, StopAssumption
<1>3. PICK high \in Nat : high = HigherOf(job.seen[t].high, price)
  BY <1>p, <1>2 DEF HigherOf, TrailRow
<1>4. /\ trail'[t].on = TRUE /\ trail'[t].high = high
      /\ trail'[t].cur = trail[t].cur
      /\ \A u \in Trails : u # t => trail'[u] = trail[u]
  BY <1>1, <1>2, <1>3, LookTrail
<1>5. job.t = {}  BY <1>p DEF InHand, Moving, Look
<1>6. /\ Close(t, job.seen[t]) /\ trail[t].cur >= job.seen[t].cur
  BY <1>0, <1>1 DEF SeenInv
<1>7. PICK h \in Nat : h = job.seen[t].high  BY <1>2 DEF TrailRow
<1>8. PICK c \in Int : c = job.seen[t].cur  BY <1>2 DEF TrailRow
<1>9. PICK d \in Nat : d = Dist[t]  BY <1>2
<1>10. high = IF h > price THEN h ELSE price  BY <1>3, <1>7 DEF HigherOf
<1>11. h > 0 => c >= h - d  BY <1>6, <1>7, <1>8, <1>9 DEF Close
<1>12. PICK k \in Int : k = trail[t].cur  BY <1>p, <1>2 DEF TrailRow
<1>13. k >= c  BY <1>6, <1>8, <1>12
<1>14. SeenInv'
  <2>1. SUFFICES ASSUME NEW u \in job'.todo
                 PROVE  /\ u \notin job'.t /\ Close(u, job'.seen[u])
                        /\ trail'[u].cur >= job'.seen[u].cur
    BY DEF SeenInv, Close
  <2>2. u \in job.todo /\ u # t  BY <1>1, <2>1
  <2> QED  BY <1>0, <1>1, <1>4, <1>p, <2>2 DEF SeenInv
<1>15. CASE price - Dist[t] > job.seen[t].cur
  <2>1. job'.t = {t} /\ job'.new = price - d
    BY <1>1, <1>9, <1>15, <1>p, <1>2, <1>8
  <2>2. price - d > c  BY <1>8, <1>9, <1>15
  <2>3. high = price  BY <1>p, <1>10, <1>11, <2>2
  <2>4. HandInv'
    <3>1. SUFFICES ASSUME NEW u \in job'.t
                   PROVE  trail'[u].on /\ job'.new >= trail'[u].high - Dist[u]
      BY DEF HandInv
    <3>2. u = t  BY <2>1
    <3>3. price - d >= high - d  BY <1>p, <2>3
    <3> QED  BY <1>4, <1>9, <2>1, <3>2, <3>3
  <2>5. TrailFollows'
    BY <1>0, <1>4, <1>5, <2>1 DEF TrailFollows
  <2> QED  BY <1>14, <2>4, <2>5
<1>16. CASE price - Dist[t] <= job.seen[t].cur
  <2>1. job'.t = {}  BY <1>1, <1>16, <1>p, <1>2, <1>8
  <2>2. price - d <= c  BY <1>8, <1>9, <1>16
  <2>3. k >= high - d  BY <1>p, <1>10, <1>11, <1>13, <2>2
  <2>4. HandInv'  BY <2>1 DEF HandInv
  <2>5. TrailFollows'
    <3>1. SUFFICES ASSUME NEW u \in Trails, trail'[u].active, trail'[u].high > 0
                   PROVE  trail'[u].cur >= trail'[u].high - Dist[u]
      BY DEF TrailFollows
    <3>2. CASE u = t   BY <1>4, <1>9, <1>12, <2>3, <3>2
    <3>3. CASE u # t   BY <1>0, <1>4, <1>5, <3>1, <3>3 DEF TrailFollows
    <3> QED  BY <3>2, <3>3
  <2> QED  BY <1>14, <2>4, <2>5
<1>17. (price - Dist[t] > job.seen[t].cur) \/ (price - Dist[t] <= job.seen[t].cur)
  BY <1>1
<1> QED  BY <1>15, <1>16, <1>17

LEMMA TrailStep ==
  ASSUME "db_write" \notin Faults, TypeOK, TrailInv, [Next]_vars
  PROVE  TrailInv'
<1>p. /\ trail \in [Trails -> TrailRow] /\ job \in Job /\ InHand(job)
      /\ job.todo \subseteq Trails /\ job.t \subseteq Trails /\ job.new \in Int
      /\ row \in RowRec
  BY TypeParts, JobFields
<1>0. SignInv /\ SeenInv /\ HandInv /\ TrailFollows  BY DEF TrailInv
<1>s. SignInv'  BY <1>0, SignStep
<1> DEFINE Rest == SeenInv' /\ HandInv' /\ TrailFollows'
<1>r. SUFFICES Rest  BY <1>s DEF TrailInv
<1>1. CASE StartPass
  <2>1. /\ job'.t = {} /\ job'.todo = {t \in Trails : trail[t].active} /\ job'.seen = trail
        /\ UNCHANGED trail
    BY <1>1, StartFields DEF StartPass
  <2>2. job.t = {}  BY <1>p, <1>1 DEF InHand, Moving, StartPass
  <2>3. \A t \in Trails : trail[t].cur >= trail[t].cur
    <3>1. \A t \in Trails : trail[t].cur \in Int  BY <1>p DEF TrailRow
    <3> QED  BY <3>1
  <2>4. SeenInv'  BY <1>0, <2>1, <2>2, <2>3 DEF SeenInv, TrailFollows, Close
  <2>5. HandInv'  BY <2>1 DEF HandInv
  <2>6. TrailFollows'  BY <1>0, <2>1, <2>2 DEF TrailFollows
  <2> QED  BY <2>4, <2>5, <2>6
<1>2. CASE SkipRow
  <2>1. PICK t \in job.todo : NextTrail(job.todo \ {t})  BY <1>2 DEF SkipRow
  <2>2. /\ job'.todo = job.todo \ {t} /\ job'.seen = job.seen /\ job'.t = {}
    BY <1>p, <2>1, NextTrailFields
  <2>3. job.t = {}  BY <1>p, <1>2 DEF InHand, Moving, SkipRow
  <2> QED  BY <1>2, <2>2, <2>3, RowsStay DEF SkipRow
<1>3. CASE Look
  BY <1>3, LookCloses
<1>4. CASE MoveBroker
  <2>1. job'.todo = job.todo /\ job'.t = job.t /\ job'.new = job.new /\ job'.seen = job.seen
    BY <1>4, StepFields DEF MoveBroker, Places
  <2> QED  BY <1>4, <2>1, RowsStay DEF MoveBroker
<1>5. CASE SaveRow
  <2>1. job' = [job EXCEPT !.at = "save_trail"] /\ UNCHANGED trail  BY <1>5 DEF SaveRow
  <2>2. job'.todo = job.todo /\ job'.t = job.t /\ job'.new = job.new /\ job'.seen = job.seen
    BY <2>1, StepFields DEF Places
  <2> QED  BY <2>1, <2>2, RowsStay
<1>6. CASE SaveTrail
  <2>1. job'.todo = job.todo /\ job'.seen = job.seen /\ job'.t = {}
    BY <1>p, <1>6, NextTrailFields DEF SaveTrail
  <2>2. /\ \A t \in Trails \ job.t : trail'[t] = trail[t]
        /\ \A t \in job.t : trail'[t] = [trail[t] EXCEPT !.cur = job.new]
    BY <1>6, SaveTrailRows
  <2>3. \A t \in job.t : /\ trail'[t].cur = job.new
                         /\ trail'[t].high = trail[t].high
    <3> TAKE t \in job.t
    <3>1. PICK r \in TrailRow : r = trail[t]  BY <1>p
    <3>2. trail'[t] = [r EXCEPT !.cur = job.new]  BY <2>2, <3>1
    <3>3. trail'[t] = [active |-> r.active, on |-> r.on, cur |-> job.new, high |-> r.high]
      BY <3>2 DEF TrailRow
    <3> QED  BY <3>1, <3>3
  <2>4. SeenInv'  BY <1>0, <1>p, <2>1, <2>2 DEF SeenInv, Close
  <2>5. HandInv'  BY <2>1 DEF HandInv
  <2>6. TrailFollows'
    <3>1. SUFFICES ASSUME NEW u \in Trails, trail'[u].active, trail'[u].high > 0
                   PROVE  trail'[u].cur >= trail'[u].high - Dist[u]
      BY DEF TrailFollows
    <3>2. CASE u \in job.t   BY <1>0, <2>3, <3>2 DEF HandInv
    <3>3. CASE u \notin job.t   BY <1>0, <2>2, <3>1, <3>3 DEF TrailFollows
    <3> QED  BY <3>2, <3>3
  <2> QED  BY <2>4, <2>5, <2>6
<1>7. CASE BeWaits \/ BeTriggers
  <2>1. job'.todo = {} /\ job'.t = {} /\ UNCHANGED trail
    BY <1>7, IdleFields, BeTriggersFields DEF BeWaits, BeTriggers
  <2>2. job.t = {}  BY <1>p, <1>7 DEF InHand, Moving, BeWaits, BeTriggers
  <2> QED  BY <2>1, <2>2, RowsStay
<1>8. CASE BeMoves
  <2>1. job'.todo = job.todo /\ job'.t = job.t /\ job'.new = job.new /\ job'.seen = job.seen
    BY <1>8, BeMovesFields
  <2> QED  BY <1>8, <2>1, RowsStay DEF BeMoves
<1>9. CASE BeSaves
  <2>1. job.t = {}  BY <1>p, <1>9 DEF InHand, Moving, BeSaves
  <2>2. Adds(job.new) \/ UNCHANGED trail  BY <1>9, HandOverAdds DEF BeSaves
  <2>3. job' = Idle  BY <1>9 DEF BeSaves
  <2>4. job.new >= 0  BY <1>0 DEF SignInv
  <2> QED  BY <1>p, <2>1, <2>2, <2>3, <2>4, IdleFields, AddsKeeps
<1>10. ASSUME NEW t \in Trails, AddTrailing(t) PROVE Rest
  <2>1. row.sl \in Int /\ row.sl >= 0  BY <1>0, <1>p DEF RowRec, SignInv
  <2>2. Adds(row.sl) /\ job' = job  BY <1>10 DEF AddTrailing, Adds
  <2> QED  BY <1>p, <2>1, <2>2, AddsKeeps
<1>11. ASSUME NEW t \in Trails, RemoveTrailing(t) PROVE Rest
  <2>1. /\ \A u \in Trails : /\ trail'[u].cur = trail[u].cur /\ trail'[u].on = trail[u].on
                             /\ trail'[u].high = trail[u].high
                             /\ trail'[u].active => trail[u].active
        /\ job' = job
    BY <1>p, <1>11 DEF RemoveTrailing, TrailRow
  <2> QED  BY <1>0, <1>p, <2>1 DEF SeenInv, HandInv, TrailFollows, Close
<1>12. CASE UNCHANGED <<trail, job>>
  BY <1>12, RowsStay
<1>13. ASSUME \/ PriceMoves \/ PositionCloses \/ AskModify \/ SaveModified
              \/ BatchBreakeven \/ RowCloses \/ UNCHANGED vars
       PROVE  UNCHANGED <<trail, job>>
  BY <1>13 DEF PriceMoves, PositionCloses, AskModify, SaveModified, BatchBreakeven,
               RowCloses, vars
<1> QED  BY <1>1, <1>2, <1>3, <1>4, <1>5, <1>6, <1>7, <1>8, <1>9, <1>10, <1>11, <1>12,
            <1>13 DEF Next, Worker, Dashboard

\* A trailing stop keeps up with the highest price its row has seen, whoever adds,
\* removes or adds again rows while the worker is between its snapshot and its
\* last UPDATE, and whatever the broker answers; only a lost UPDATE leaves it
\* behind.
THEOREM StopsFollow ==
  ASSUME "db_write" \notin Faults
  PROVE  Spec => []TrailFollows
<1>1. Init => TrailInv
  BY IdleFields, StopAssumption
     DEF Init, TrailInv, SignInv, SeenInv, HandInv, TrailFollows, NoTrail
<1>2. TypeOK /\ TrailInv /\ [Next]_vars => TrailInv'  BY TrailStep
<1>3. TrailInv => TrailFollows  BY DEF TrailInv
<1> QED  BY <1>1, <1>2, <1>3, TypeCorrect, PTL DEF Spec
=============================================================================
