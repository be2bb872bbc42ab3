--------------------------- MODULE StopManagement ---------------------------
(***************************************************************************)
(* The stop loss of one open trade and the three who move it: the trailing *)
(* stops and the break-even manager, which the worker loop runs one after  *)
(* the other, and people at the dashboard.  The stop is kept three times:  *)
(* at the broker, in trading_signals.sl, and in current_sl of each row of  *)
(* trailing_stops; no two of them are written together.                    *)
(* The trade is a buy; a sell is its mirror image.  Prices are in steps    *)
(* larger than the spread.                                                 *)
(* Source: trailing_stop_manager.py, breakeven_manager.py, worker.py,      *)
(* api_portfolio_control.py, api_positions.py, meta_api_adapter.py.        *)
(***************************************************************************)
EXTENDS Integers, FiniteSets

CONSTANTS
  Trails,     \* ids for rows of trailing_stops
  Dist,       \* Dist[t]: trail_distance_pips
  StartAt,    \* StartAt[t]: the entry (wait_for_breakeven) or the
              \* activation_price the row waits for; 0 if for nothing
  Entry, FirstStop,
  Trigger,    \* be_trigger_price, 0 if the signal had none
  PineStop,   \* be_sl_price
  Buffer,     \* breakeven_buffer_pips
  MaxPrice,   \* bound: prices are 1..MaxPrice
  MaxHuman,   \* bound: requests of the dashboard that set a stop
  Faults

FaultKinds == {"refused",     \* the breaker is open, or not the adapter's account
               "lost_reply",  \* the position is modified, the reply says failed
               "refused_200", \* HTTP 200 with a body that says it was refused
               "no_price",    \* _get_symbol_price raises
               "db_write"}    \* an UPDATE fails, or the worker dies before it

ASSUME StopAssumption ==
  /\ Dist \in [Trails -> Nat]
  /\ StartAt \in [Trails -> Nat]
  /\ {Entry, FirstStop, Trigger, PineStop, Buffer, MaxPrice, MaxHuman} \subseteq Nat
  /\ 0 < FirstStop /\ FirstStop < Entry
  /\ Faults \subseteq FaultKinds

VARIABLES
  price,    \* the bid
  held,     \* the position is open at the broker
  bsl,      \* its stop loss there
  row,      \* status OPEN?, sl and be_triggered of the row of trading_signals
  trail,    \* rows of trailing_stops
  job,      \* where the worker loop is
  req,      \* a modify_sl_tp between broker and table: the new stop, or 0
  human,    \* requests so far
  beCalls   \* break-even modifications sent to the broker, at most two counted

vars == <<price, held, bsl, row, trail, job, req, human, beCalls>>

Prices == 1..MaxPrice

\* A row that was never added, and one that was removed, are not is_active.
NoTrail == [active |-> FALSE, on |-> FALSE, cur |-> 0, high |-> 0]

\* seen is the snapshot of trailing_stops, todo what is left of it, t the row
\* in hand and new the stop it gets.
Idle == [at |-> "idle", todo |-> {}, seen |-> [t \in Trails |-> NoTrail],
         t |-> {}, new |-> 0, ok |-> FALSE]

TypeOK ==
  /\ price \in Nat
  /\ held \in BOOLEAN
  /\ bsl \in Int
  /\ row \in [open : BOOLEAN, sl : Int, be : BOOLEAN]
  /\ trail \in [Trails -> [active : BOOLEAN, on : BOOLEAN, cur : Int, high : Nat]]
  /\ job \in [at : {"idle", "trail", "move", "save_row", "save_trail", "be",
                    "be_move", "be_save"},
              todo : SUBSET Trails,
              seen : [Trails -> [active : BOOLEAN, on : BOOLEAN, cur : Int, high : Nat]],
              t : {{}} \cup {{t} : t \in Trails}, new : Int, ok : BOOLEAN]
  /\ (job.t = {}) <=> (job.at \notin {"move", "save_row", "save_trail"})
  /\ req \in Nat
  /\ human \in Nat
  /\ beCalls \in 0..2

Init ==
  /\ price = Entry
  /\ held = TRUE
  /\ bsl = FirstStop
  /\ row = [open |-> TRUE, sl |-> FirstStop, be |-> FALSE]
  /\ trail = [t \in Trails |-> NoTrail]
  /\ job = Idle
  /\ req = 0
  /\ human = 0
  /\ beCalls = 0
-----------------------------------------------------------------------------
(* The market and the broker.                                              *)

PriceMoves ==
  /\ price' \in {price - 1, price + 1} \cap Prices
  /\ UNCHANGED <<held, bsl, row, trail, job, req, human, beCalls>>

\* Stop loss, take profit or a close at the terminal.
PositionCloses ==
  /\ held
  /\ held' = FALSE
  /\ UNCHANGED <<price, bsl, row, trail, job, req, human, beCalls>>

\* POSITION_MODIFY, with what modify_position returns: a stop on the wrong side
\* of the price, or of a position that is gone, is refused.
Modify(new, ok) ==
  \/ held /\ new < price /\ bsl' = new /\ ok = TRUE
  \/ held /\ new < price /\ bsl' = new /\ ok = FALSE /\ "lost_reply" \in Faults
  \/ (held => new >= price \/ "refused" \in Faults) /\ ok = FALSE /\ UNCHANGED bsl
  \/ "refused_200" \in Faults /\ ok = TRUE /\ UNCHANGED bsl
-----------------------------------------------------------------------------
(* update_trailing_stops: one read of the active rows, then row by row.    *)

NextTrail(rest) ==
  job' = [job EXCEPT !.at = IF rest = {} THEN "be" ELSE "trail", !.todo = rest,
                     !.t = {}, !.new = 0]

StartPassIfAny ==   \* mutant: nothing to trail ends the pass, break-even included
  /\ job.at = "idle"
  /\ \E t \in Trails : trail[t].active
  /\ job' = [Idle EXCEPT !.at = "trail", !.todo = {t \in Trails : trail[t].active},
                         !.seen = trail]
  /\ UNCHANGED <<price, held, bsl, row, trail, req, human, beCalls>>

\* Neither the status of the signal nor whether the position exists is asked.
StartPass ==
  /\ job.at = "idle"
  /\ LET active == {t \in Trails : trail[t].active}
     IN job' = [Idle EXCEPT !.at = IF active = {} THEN "be" ELSE "trail",
                            !.todo = active, !.seen = trail]
  /\ UNCHANGED <<price, held, bsl, row, trail, req, human, beCalls>>

\* is_activated is set once the price is at the one or the other threshold.
Follows(t) == job.seen[t].on \/ price >= StartAt[t]

SkipRow ==
  /\ job.at = "trail"
  /\ \E t \in job.todo : /\ ~Follows(t) \/ "no_price" \in Faults
                        /\ NextTrail(job.todo \ {t})
  /\ UNCHANGED <<price, held, bsl, row, trail, req, human, beCalls>>

HigherOf(a, b) == IF a > b THEN a ELSE b

\* "Only move SL up, never down": up from current_sl as the snapshot has it.
Look ==
  /\ job.at = "trail"
  /\ \E t \in job.todo :
       LET new == price - Dist[t]
       IN /\ Follows(t)
          /\ trail' = [trail EXCEPT ![t].on = TRUE,
                                    ![t].high = HigherOf(job.seen[t].high, price)]
          /\ IF new > job.seen[t].cur
             THEN job' = [job EXCEPT !.at = "move", !.todo = @ \ {t}, !.t = {t}, !.new = new]
             ELSE NextTrail(job.todo \ {t})
  /\ UNCHANGED <<price, held, bsl, row, req, human, beCalls>>

\* _move_stop_loss: what the broker answers is logged and no more.
MoveBroker ==
  /\ job.at = "move"
  /\ \E ok \in BOOLEAN : Modify(job.new, ok)
  /\ job' = [job EXCEPT !.at = "save_row"]
  /\ UNCHANGED <<price, held, row, trail, req, human, beCalls>>

SaveRow ==
  /\ job.at = "save_row"
  /\ \/ /\ row' = [row EXCEPT !.sl = job.new]
        /\ job' = [job EXCEPT !.at = "save_trail"]
     \/ /\ "db_write" \in Faults
        /\ NextTrail(job.todo)
        /\ UNCHANGED row
  /\ UNCHANGED <<price, held, bsl, trail, req, human, beCalls>>

SaveTrailIfConfirmed ==   \* mutant: current_sl only for a position that is there
  /\ job.at = "save_trail"
  /\ trail' = [t \in Trails |-> IF t \in job.t /\ held THEN [trail[t] EXCEPT !.cur = job.new]
                                                       ELSE trail[t]]
  /\ NextTrail(job.todo)
  /\ UNCHANGED <<price, held, bsl, row, req, human, beCalls>>

SaveTrail ==
  /\ job.at = "save_trail"
  /\ \/ trail' = [t \in Trails |-> IF t \in job.t THEN [trail[t] EXCEPT !.cur = job.new]
                                                  ELSE trail[t]]
     \/ "db_write" \in Faults /\ UNCHANGED trail
  /\ NextTrail(job.todo)
  /\ UNCHANGED <<price, held, bsl, row, req, human, beCalls>>
-----------------------------------------------------------------------------
(* BreakevenManager.check_and_trigger.                                     *)

\* The columns _fetch_pending selects.
PendingColumns == {"id", "symbol", "side", "broker_order_id", "be_trigger_price",
                   "be_sl_price", "entry"}

\* The stop of the snapshot, from which the handover computes its distance.
OriginalStop == IF "sl" \in PendingColumns THEN FirstStop ELSE 0

\* _apply_be_buffer.
BeStop == IF Buffer = 0 THEN PineStop ELSE HigherOf(PineStop, Entry + Buffer)

PendingEver == row.open /\ Trigger > 0   \* mutant: be_triggered is not asked for

Pending == row.open /\ Trigger > 0 /\ ~row.be

BeWaits ==
  /\ job.at = "be"
  /\ ~Pending \/ price < Trigger \/ "no_price" \in Faults
  /\ job' = Idle
  /\ UNCHANGED <<price, held, bsl, row, trail, req, human, beCalls>>

BeTriggers ==
  /\ job.at = "be"
  /\ Pending
  /\ price >= Trigger
  /\ job' = [Idle EXCEPT !.at = "be_move", !.new = BeStop]
  /\ UNCHANGED <<price, held, bsl, row, trail, req, human, beCalls>>

BeMoves ==
  /\ job.at = "be_move"
  /\ \E ok \in BOOLEAN : Modify(job.new, ok) /\ job' = [job EXCEPT !.at = "be_save", !.ok = ok]
  /\ beCalls' = IF beCalls < 2 THEN beCalls + 1 ELSE 2
  /\ UNCHANGED <<price, held, row, trail, req, human>>

\* add_trailing_stop: the stop of the table is where the row starts from.
NewTrail(t, sl) == [active |-> TRUE, on |-> StartAt[t] = 0, cur |-> sl, high |-> 0]

\* _activate_trailing_stop: only after a confirmed move, and only if the stop of
\* the snapshot is known.
HandOver(sl) ==
  IF job.ok /\ OriginalStop > 0
  THEN \E t \in Trails : trail[t] = NoTrail /\ trail' = [trail EXCEPT ![t] = NewTrail(t, sl)]
  ELSE UNCHANGED trail

BeSavesIfMoved ==   \* mutant: a refused modification is tried again
  /\ job.at = "be_save"
  /\ row' = IF job.ok THEN [row EXCEPT !.be = TRUE, !.sl = job.new] ELSE row
  /\ HandOver(job.new)
  /\ job' = Idle
  /\ UNCHANGED <<price, held, bsl, req, human, beCalls>>

\* _mark_triggered: done, whether or not the broker has moved the stop.
BeSaves ==
  /\ job.at = "be_save"
  /\ \/ /\ row' = [row EXCEPT !.be = TRUE, !.sl = job.new]
        /\ HandOver(job.new)
     \/ "db_write" \in Faults /\ UNCHANGED <<row, trail>>
  /\ job' = Idle
  /\ UNCHANGED <<price, held, bsl, req, human, beCalls>>
-----------------------------------------------------------------------------
(* The dashboard.                                                          *)

Asks == human < MaxHuman /\ human' = human + 1

\* The add_trailing batch action and /optimizer/trailing-stop: any number of
\* rows for one signal.
AddTrailing(t) ==
  /\ Asks
  /\ trail[t] = NoTrail
  /\ trail' = [trail EXCEPT ![t] = NewTrail(t, row.sl)]
  /\ UNCHANGED <<price, held, bsl, row, job, req, beCalls>>

RemoveTrailing(t) ==
  /\ trail[t].active
  /\ trail' = [trail EXCEPT ![t].active = FALSE]
  /\ UNCHANGED <<price, held, bsl, row, job, req, human, beCalls>>

\* modify_sl_tp: the broker first; a failure is answered 502 and nothing saved.
AskModify ==
  /\ Asks
  /\ row.open
  /\ req = 0
  /\ \E new \in Prices, ok \in BOOLEAN :
       Modify(new, ok) /\ req' = IF ok THEN new ELSE 0
  /\ UNCHANGED <<price, held, row, trail, job, beCalls>>

SaveModified ==
  /\ req > 0
  /\ \/ row' = [row EXCEPT !.sl = req]
     \/ "db_write" \in Faults /\ UNCHANGED row
  /\ req' = 0
  /\ UNCHANGED <<price, held, bsl, trail, job, human, beCalls>>

\* The move_sl_breakeven batch action: the broker is not told.
BatchBreakeven ==
  /\ Asks
  /\ row' = [row EXCEPT !.sl = Entry]
  /\ UNCHANGED <<price, held, bsl, trail, job, req, beCalls>>

\* The close batch action, and every other writer that takes the row out of
\* OPEN (PositionLifecycle).
RowCloses ==
  /\ row.open
  /\ row' = [row EXCEPT !.open = FALSE]
  /\ UNCHANGED <<price, held, bsl, trail, job, req, human, beCalls>>
-----------------------------------------------------------------------------
Worker ==
  \/ StartPass \/ SkipRow \/ Look
  \/ MoveBroker \/ SaveRow \/ SaveTrail
  \/ BeWaits \/ BeTriggers \/ BeMoves \/ BeSaves

Dashboard ==
  \/ \E t \in Trails : AddTrailing(t) \/ RemoveTrailing(t)
  \/ AskModify \/ SaveModified \/ BatchBreakeven \/ RowCloses

Next ==
  \/ PriceMoves \/ PositionCloses
  \/ Worker
  \/ Dashboard

Spec == Init /\ [][Next]_vars

\* The loop comes round every 60 seconds and no step of it blocks for ever.
\* A price that is asked for again and again is had in the end.  Nobody at the
\* dashboard has to do anything, and no price has to move.
FairSpec == Spec /\ WF_vars(Worker) /\ SF_vars(BeTriggers)
-----------------------------------------------------------------------------
\* While a row is active and not in the worker's hands, its stop is no further
\* than its distance from the highest price it has seen ("follow favorable
\* price movement"), whoever adds or removes rows in between.
TrailFollows ==
  \A t \in Trails :
    trail[t].active /\ trail[t].high > 0 /\ t \notin job.t
      => trail[t].cur >= trail[t].high - Dist[t]

\* Break-even is sent to the broker at most once ("so it never fires twice"),
\* although the broker may refuse it and the answer may be lost.
BeFiresOnce == beCalls <= 1

\* Once the price stays beyond the trigger of an OPEN row, break-even fires,
\* whatever the trailing stops are doing.
BeFires == <>[](row.open /\ Trigger > 0 /\ price >= Trigger) => <>row.be

\* A trailing stop only ever tightens the stop at the broker ("Only move SL up,
\* never down").
TrailingTightens == [][job.at = "move" /\ job' # job => bsl' >= bsl]_vars

\* Once break-even has moved the stop and is saved, a trailing stop follows
\* ("after BE fires, activates TrailingStopManager").
TrailAfterBe ==
  [][job.at = "be_save" /\ job.ok /\ row'.be /\ ~row.be => \E t \in Trails : trail'[t].active]_vars
=============================================================================
