------------------------- MODULE PositionLifecycle -------------------------
(***************************************************************************)
(* One trade after its entry: a row of trading_signals per account, the    *)
(* positions at the broker, and the writers that take a row out of OPEN:   *)
(* the exit webhook, the watchdog and the broker reconciliation, which run *)
(* in the loop of a worker process, one job at a time (two processes run   *)
(* side by side while a deployment replaces the other); and in the API     *)
(* process the stream of deals and the requests of the positions page.     *)
(* Source: worker.py, logic.py, supabase.py, watchdog.py,                  *)
(* broker_reconciliation.py, meta_api_adapter.py, router.py,               *)
(* metaapi_streaming_service.py, api_positions.py,                         *)
(* api_portfolio_control.py.                                               *)
(***************************************************************************)
EXTENDS Naturals, FiniteSets

CONSTANTS
  Accounts,  \* active broker profiles, all LIVE; each has a row of the trade
  Procs,     \* worker processes
  Clerks,    \* threads of the API process: deals of the stream, requests
  Primary,   \* get_primary_credentials: the account of the watchdog, and of
             \* an adapter made without a profile
  Rank,      \* the order of the profiles in get_active_profiles
  Foreign,   \* profiles without MetaApi credentials (binance, bybit)
  Entering,  \* accounts whose entry is still in progress
  MaxExits,  \* bound: exit webhooks of the trade
  Faults,
  NoTarget   \* the (None, None) target of an exit

FaultKinds == {"db_read",      \* a SELECT of the exit path fails
               "db_write",     \* an UPDATE fails
               "positions",    \* the list of positions cannot be fetched
               "deals",        \* nor can the history of deals
               "lost_reply",   \* the reply to a close is lost
               "refused_200",  \* HTTP 200 with a body that says it was refused
               "mode_toggle",  \* the system mode was changed between entry and exit
               "early_exit",   \* the exit comes before the entry is through
               "partial",      \* a position is closed in part
               "unasked",      \* a request closes a row whose position stays open
               "sweep"}        \* a clean-up while other accounts trade

ASSUME ConstantsAssumption ==
  /\ Primary \in Accounts
  /\ Rank \in [Accounts -> Nat]
  /\ \A a, b \in Accounts : Rank[a] = Rank[b] => a = b
  /\ Foreign \subseteq Accounts
  /\ Entering \subseteq Accounts
  /\ MaxExits \in Nat
  /\ Faults \subseteq FaultKinds
  /\ NoTarget \notin Accounts

VARIABLES
  row,      \* row[a]: status, whether it has a broker_order_id, source of pnl_usd
  pos,      \* pos[a]: the position at the broker
  deal,     \* accounts whose history shows the exit deal
  entering, \* accounts whose entry is not yet recorded
  mode,     \* the system mode, which the webhook stamps on every signal
  exits,    \* exit webhooks still to come
  job,      \* job[p]: what the loop of process p is at
  desk      \* desk[c]: what the thread c of the API process is at

vars == <<row, pos, deal, entering, mode, exits, job, desk>>

\* Statuses of a row that was never executed, as three tests list them.  Some
\* writers write "closed" for "CLOSED"; every test modelled here ignores case.
Rejected    == {"rejected", "execution_failed"}      \* logic.py
NotTargeted == Rejected \cup {"unexecuted"}          \* worker.py
NonExecuted == NotTargeted \cup {"PENDING"}          \* supabase.py

Statuses == NonExecuted \cup {"execution_cancelled", "OPEN", "CLOSED"}

Targets == Accounts \cup {NoTarget}

Idle == [at |-> "idle", todo |-> {}, tgt |-> NoTarget, alert |-> NoTarget]

Free == [at |-> "free", todo |-> {}]

TypeOK ==
  /\ row \in [Accounts -> [status : Statuses, oid : BOOLEAN,
                           pnl : {"none", "alert", "broker"}]]
  /\ pos \in [Accounts -> {"none", "open", "closed"}]
  /\ deal \subseteq Accounts
  /\ entering \subseteq Accounts
  /\ mode \in {"PAPER", "LIVE"}
  /\ exits \in 0..MaxExits
  /\ job \in [Procs ->
       [at : {"idle", "exit", "unexecuted", "close", "save", "pnl",
              "watch", "resolve", "profile", "list", "settle"},
        todo : SUBSET Targets, tgt : Targets, alert : Targets]]
  /\ desk \in [Clerks ->
       [at : {"free", "deal", "close", "mark", "rows", "stale", "pnl"},
        todo : SUBSET Accounts]]

\* What the entry leaves: a filled row, a row that never was an order, or an
\* entry under way.  The order of a PAPER trade exists in the table only.
Init ==
  /\ mode \in {"PAPER", "LIVE"}
  /\ pos \in [Accounts -> {"none", "open"}]
  /\ row \in [Accounts -> [status : {"PENDING", "rejected", "execution_cancelled", "OPEN"},
                           oid : BOOLEAN, pnl : {"none"}]]
  /\ \E traded \in {"PAPER", "LIVE"} :
       /\ traded = mode \/ "mode_toggle" \in Faults
       /\ entering = IF traded = "LIVE" THEN Entering ELSE {}
       /\ \A a \in Accounts : pos[a] = "open" <=> row[a].status = "OPEN" /\ traded = "LIVE"
  /\ \A a \in Accounts : /\ row[a].oid = (row[a].status = "OPEN")
                         /\ a \in entering => row[a].status = "PENDING"
  /\ deal = {}
  /\ exits = MaxExits
  /\ job = [p \in Procs |-> Idle]
  /\ desk = [c \in Clerks |-> Free]

At(p, s) == job[p].at = s

Become(p, s, todo, tgt, alert) ==
  job' = [job EXCEPT ![p] =
            [at |-> s, todo |-> todo, tgt |-> tgt, alert |-> alert]]

\* The loop of p goes on with the rest of its list, or ends.
GoOn(p, s, rest) ==
  job' = [job EXCEPT ![p] = IF rest = {} THEN Idle
                            ELSE [Idle EXCEPT !.at = s, !.todo = rest]]

\* An UPDATE that may be lost.
Write(new) == row' = new \/ ("db_write" \in Faults /\ UNCHANGED row)
-----------------------------------------------------------------------------
(* The broker and the entry thread, seen from here.                        *)

\* Stop loss, take profit or somebody at the terminal.
BrokerCloses(a) ==
  /\ pos[a] = "open"
  /\ pos' = [pos EXCEPT ![a] = "closed"]
  /\ UNCHANGED <<desk, mode, row, deal, entering, exits, job>>

DealShows(a) ==
  /\ pos[a] = "closed"
  /\ a \notin deal
  /\ deal' = deal \cup {a}
  /\ UNCHANGED <<desk, mode, row, pos, entering, exits, job>>

EntryFills(a) ==
  /\ a \in entering
  /\ pos[a] = "none"
  /\ pos' = [pos EXCEPT ![a] = "open"]
  /\ UNCHANGED <<desk, mode, row, deal, entering, exits, job>>

EntryLinks(a) ==
  /\ a \in entering
  /\ pos[a] # "none"
  /\ row' = [row EXCEPT ![a].status = "OPEN", ![a].oid = TRUE]
  /\ entering' = entering \ {a}
  /\ UNCHANGED <<desk, mode, pos, deal, exits, job>>

EntryFails(a) ==
  /\ a \in entering
  /\ pos[a] = "none"
  /\ row' = [row EXCEPT ![a].status = "execution_failed"]
  /\ entering' = entering \ {a}
  /\ UNCHANGED <<desk, mode, pos, deal, exits, job>>
-----------------------------------------------------------------------------
(* The exit webhook.                                                       *)

Closed(r) == [r EXCEPT !.status = "CLOSED", !.pnl = "alert"]

\* update_alert_exit: every row of the trade key that was executed.  The test
\* for a duplicate sees the row only when the key has one row.
ExitAll ==
  IF Cardinality(Accounts) = 1 /\ \A a \in Accounts : row[a].status = "CLOSED"
  THEN row
  ELSE [a \in Accounts |-> IF row[a].status \in NonExecuted THEN row[a]
                                                            ELSE Closed(row[a])]

\* _resolve_exit_profile_targets.
OwnersOfOrders == {a \in Accounts : row[a].oid /\ row[a].status \notin NotTargeted}

ExitTargets == IF OwnersOfOrders = {} THEN {NoTarget} ELSE OwnersOfOrders

\* An exit with nothing to do at the broker: tp_hit, sl_hit and break_even are
\* notes on a LIVE row, and nothing happens while live trading is off.
IgnoreExit(p) ==
  /\ mode = "LIVE"
  /\ job[p] = Idle
  /\ exits > 0
  /\ exits' = exits - 1
  /\ UNCHANGED <<desk, mode, row, pos, deal, entering, job>>

\* run_mode PAPER: the executed rows get the exit, and then all rows of the key
\* are CLOSED, whatever they were.
PaperExit(p) ==
  /\ mode = "PAPER"
  /\ job[p] = Idle
  /\ exits > 0
  /\ entering = {} \/ "early_exit" \in Faults
  /\ exits' = exits - 1
  /\ row' = [a \in Accounts |-> [ExitAll[a] EXCEPT !.status = "CLOSED"]]
  /\ UNCHANGED <<desk, mode, pos, deal, entering, job>>

StartExit(p) ==
  /\ mode = "LIVE"
  /\ job[p] = Idle
  /\ exits > 0
  /\ entering = {} \/ "early_exit" \in Faults
  /\ exits' = exits - 1
  /\ \/ GoOn(p, "exit", ExitTargets)
     \/ "db_read" \in Faults /\ GoOn(p, "exit", {NoTarget})
  /\ UNCHANGED <<desk, mode, row, pos, deal, entering>>

\* The alert of a target: its own row, or get_alert_by_trade_key, which
\* prefers a row that was executed.
Preferred ==
  LET executed == {a \in Accounts : row[a].status \notin NonExecuted}
  IN IF executed = {} THEN Accounts ELSE executed

IsAlertOf(b, t) == \/ b = t
                   \/ b \in Preferred /\ (t = NoTarget \/ "db_read" \in Faults)

LoadAlert(p) ==
  /\ At(p, "exit")
  /\ \E t \in job[p].todo, b \in Accounts :
       LET rest == job[p].todo \ {t}
       IN /\ IsAlertOf(b, t)
          /\ \/ /\ row[b].status \in Rejected
                /\ GoOn(p, "exit", rest)
             \/ /\ row[b].status \notin Rejected
                /\ row[b].oid
                /\ Become(p, "close", rest, t, b)
             \/ /\ row[b].status = "PENDING"
                /\ ~row[b].oid
                /\ Become(p, "unexecuted", rest, t, b)
             \/ /\ row[b].status \notin Rejected \cup {"PENDING"}
                /\ ~row[b].oid
                /\ GoOn(p, "exit", rest)
  /\ UNCHANGED <<desk, mode, row, pos, deal, entering, exits>>

\* The update names the trade key, not the row that was read.
MarkUnexecuted(p) ==
  /\ At(p, "unexecuted")
  /\ Write([a \in Accounts |-> [row[a] EXCEPT !.status = "unexecuted"]])
  /\ GoOn(p, "exit", job[p].todo)
  /\ UNCHANGED <<desk, mode, pos, deal, entering, exits>>

\* get_adapter: the profile's, or without one the primary account's, which
\* raises when that account has no credentials.
AdapterOf(p)  == IF job[p].tgt = NoTarget THEN Primary ELSE job[p].tgt
HasAdapter(p) == job[p].tgt # NoTarget \/ Primary \notin Foreign
Reaches(p)    == HasAdapter(p) /\ AdapterOf(p) = job[p].alert

SendCloseReopening(p) ==   \* mutant: a failure hands the row to the watchdog
  /\ At(p, "close")
  /\ \/ /\ Reaches(p)
        /\ pos[job[p].alert] = "open"
        /\ pos' = [pos EXCEPT ![job[p].alert] = "closed"]
        /\ job' = [job EXCEPT ![p].at = "save"]
        /\ UNCHANGED row
     \/ /\ row' = [row EXCEPT ![job[p].alert].status = "OPEN"]
        /\ GoOn(p, "exit", job[p].todo)
        /\ UNCHANGED pos
  /\ UNCHANGED <<desk, mode, deal, entering, exits>>

\* close_order.  A failure is logged ("watchdog will retry") and that is all;
\* a 200 counts as filled whatever its body says.
SendClose(p) ==
  /\ At(p, "close")
  /\ \/ /\ Reaches(p)
        /\ pos[job[p].alert] = "open"
        /\ pos' = [pos EXCEPT ![job[p].alert] = "closed"]
        /\ \/ job' = [job EXCEPT ![p].at = "save"]
           \/ "lost_reply" \in Faults /\ GoOn(p, "exit", job[p].todo)
     \/ /\ GoOn(p, "exit", job[p].todo)
        /\ UNCHANGED pos
     \/ /\ "refused_200" \in Faults
        /\ HasAdapter(p)
        /\ job' = [job EXCEPT ![p].at = "save"]
        /\ UNCHANGED pos
  /\ UNCHANGED <<desk, mode, row, deal, entering, exits>>

SaveExitEverywhere(p) ==   \* mutant: update_alert_exit although a row is given
  /\ At(p, "save")
  /\ row' = ExitAll
  /\ job' = [job EXCEPT ![p].at = "pnl"]
  /\ UNCHANGED <<desk, mode, pos, deal, entering, exits>>

\* The row of the target, or every executed row of the key.
SaveExit(p) ==
  /\ At(p, "save")
  /\ \/ /\ row' = IF job[p].tgt = NoTarget THEN ExitAll
                  ELSE [row EXCEPT ![job[p].tgt] = Closed(@)]
        /\ job' = [job EXCEPT ![p].at = "pnl"]
     \/ /\ "db_write" \in Faults
        /\ GoOn(p, "exit", job[p].todo)
        /\ UNCHANGED row
  /\ UNCHANGED <<desk, mode, pos, deal, entering, exits>>

\* The broker's profit replaces the alert's if the deal is in the history.
FetchPnl(p) ==
  /\ At(p, "pnl")
  /\ \/ Reaches(p) /\ job[p].alert \in deal /\ row' = [row EXCEPT ![job[p].alert].pnl = "broker"]
     \/ UNCHANGED row
  /\ GoOn(p, "exit", job[p].todo)
  /\ UNCHANGED <<desk, mode, pos, deal, entering, exits>>
-----------------------------------------------------------------------------
(* TradeWatchdog.run_sync: open rows first, then the positions of the      *)
(* primary account, then its history for each row that has none.           *)

WatchRows(p) ==
  /\ job[p] = Idle
  /\ Primary \notin Foreign
  /\ LET open == {a \in Accounts : row[a].status = "OPEN" /\ row[a].oid}
     IN open # {} /\ Become(p, "watch", open, NoTarget, NoTarget)
  /\ UNCHANGED <<desk, mode, row, pos, deal, entering, exits>>

WatchPositions(p) ==
  /\ At(p, "watch")
  /\ \/ GoOn(p, "resolve",
             IF pos[Primary] = "open" THEN job[p].todo \ {Primary} ELSE job[p].todo)
     \/ "positions" \in Faults /\ job' = [job EXCEPT ![p] = Idle]
  /\ UNCHANGED <<desk, mode, row, pos, deal, entering, exits>>

\* _resolve_closed_trade: nothing without an exit deal.
Resolve(p) ==
  /\ At(p, "resolve")
  /\ \E a \in job[p].todo :
       /\ \/ /\ a = Primary
             /\ a \in deal
             /\ Write([row EXCEPT ![a].status = "CLOSED", ![a].pnl = "broker"])
          \/ /\ a = Primary /\ a \in deal => "deals" \in Faults
             /\ UNCHANGED row
       /\ GoOn(p, "resolve", job[p].todo \ {a})
  /\ UNCHANGED <<desk, mode, pos, deal, entering, exits>>
-----------------------------------------------------------------------------
(* run_reconciliation, profile by profile.                                 *)

IsNext(a, S) == a \in S /\ \A b \in S : Rank[a] <= Rank[b]

StartReconciliation(p) ==
  /\ job[p] = Idle
  /\ GoOn(p, "profile", Accounts)
  /\ UNCHANGED <<desk, mode, row, pos, deal, entering, exits>>

\* A profile without credentials raises in the constructor of the adapter, and
\* the pass ends there.
ReconcileRow(p) ==
  /\ At(p, "profile")
  /\ \E a \in job[p].todo :
       LET rest == job[p].todo \ {a}
       IN /\ IsNext(a, job[p].todo)
          /\ \/ a \in Foreign /\ job' = [job EXCEPT ![p] = Idle]
             \/ /\ a \notin Foreign
                /\ row[a].status = "OPEN" /\ row[a].oid
                /\ Become(p, "list", rest, a, a)
             \/ /\ a \notin Foreign
                /\ row[a].status = "OPEN" => ~row[a].oid
                /\ GoOn(p, "profile", rest)
  /\ UNCHANGED <<desk, mode, row, pos, deal, entering, exits>>

\* get_open_positions answers [] when it fails.
ReconcilePositions(p) ==
  /\ At(p, "list")
  /\ \/ /\ pos[job[p].tgt] = "open"
        /\ GoOn(p, "profile", job[p].todo)
     \/ /\ pos[job[p].tgt] # "open" \/ "positions" \in Faults
        /\ job' = [job EXCEPT ![p].at = "settle"]
  /\ UNCHANGED <<desk, mode, row, pos, deal, entering, exits>>

SettleWithDealOnly(p) ==   \* mutant: no fallback without a deal
  /\ At(p, "settle")
  /\ \/ job[p].tgt \in deal /\ row' = [row EXCEPT ![job[p].tgt].status = "CLOSED",
                                                  ![job[p].tgt].pnl = "broker"]
     \/ (job[p].tgt \in deal => "deals" \in Faults) /\ UNCHANGED row
  /\ GoOn(p, "profile", job[p].todo)
  /\ UNCHANGED <<desk, mode, pos, deal, entering, exits>>

\* _update_trade_closed with the deal, _update_trade_closed_fallback without.
Settle(p) ==
  /\ At(p, "settle")
  /\ LET a == job[p].tgt
     IN \/ /\ a \in deal
           /\ Write([row EXCEPT ![a].status = "CLOSED", ![a].pnl = "broker"])
        \/ /\ a \in deal => "deals" \in Faults
           /\ Write([row EXCEPT ![a].status = "CLOSED"])
  /\ GoOn(p, "profile", job[p].todo)
  /\ UNCHANGED <<desk, mode, pos, deal, entering, exits>>
-----------------------------------------------------------------------------
(* The API process.  A thread c holds what it has read in desk[c]; all its *)
(* updates go by row id, and it asks the primary account only.             *)

Sit(c, s, todo) ==
  desk' = [desk EXCEPT ![c] = IF todo = {} THEN Free ELSE [at |-> s, todo |-> todo]]

Begin(c, s, todo) ==
  /\ desk[c] = Free
  /\ todo # {}
  /\ Sit(c, s, todo)
  /\ UNCHANGED <<mode, row, pos, deal, entering, exits, job>>

\* The thread writes the row of a, and goes on with the rest.
Put(c, s, a, new) ==
  /\ desk[c].at = s
  /\ a \in desk[c].todo
  /\ Write([row EXCEPT ![a] = new])
  /\ Sit(c, s, desk[c].todo \ {a})
  /\ UNCHANGED <<mode, pos, deal, entering, exits, job>>

Realized(r) == r.status = "CLOSED" /\ r.pnl # "none"

\* _DealHandler: an exit deal arrives, again after every resynchronisation, and
\* rows of its position that are not closed with a profit are looked up.
HearDeal(c) ==
  /\ Primary \notin Foreign
  /\ pos[Primary] = "closed" \/ (pos[Primary] = "open" /\ "partial" \in Faults)
  /\ row[Primary].oid
  /\ ~Realized(row[Primary])
  /\ Begin(c, "deal", {Primary})

RecordDeal(c) ==
  \E a \in desk[c].todo : Put(c, "deal", a, [row[a] EXCEPT !.status = "CLOSED", !.pnl = "broker"])

\* A clerk who knows the accounts closes by hand what the adapter can close.
ManualClose(c) ==
  /\ Primary \notin Foreign
  /\ \E a \in Accounts :
       /\ row[a].status = "OPEN"
       /\ a = Primary \/ pos[a] # "open" \/ "unasked" \in Faults
       /\ Begin(c, "close", {a})

\* "Update DB regardless of broker result": the answer decides nothing.
SendManualClose(c) ==
  /\ desk[c].at = "close"
  /\ \E a \in desk[c].todo :
       /\ \/ /\ a = Primary
             /\ pos[a] = "open"
             /\ pos' = [pos EXCEPT ![a] = "closed"]
          \/ /\ pos[a] # "open" \/ "unasked" \in Faults
             /\ UNCHANGED pos
       /\ Sit(c, "mark", {a})
  /\ UNCHANGED <<mode, row, deal, entering, exits, job>>

MarkClosed(c) ==
  \E a \in desk[c].todo : Put(c, "mark", a, [row[a] EXCEPT !.status = "CLOSED"])

\* The batch action of the portfolio page does not ask the broker at all.
BatchClose(a) ==
  /\ row[a].oid
  /\ pos[a] # "open" \/ "unasked" \in Faults
  /\ Write([row EXCEPT ![a].status = "CLOSED"])
  /\ UNCHANGED <<desk, mode, pos, deal, entering, exits, job>>

\* cleanup-stale: the positions of the primary account, ...
SweepPositions(c) ==
  /\ Primary \notin Foreign
  /\ \/ "sweep" \in Faults
     \/ entering = {} /\ \A a \in Accounts \ {Primary} : row[a].status # "OPEN"
  /\ \/ Begin(c, "rows", {a \in Accounts : a = Primary => pos[a] # "open"})
     \/ "positions" \in Faults /\ Begin(c, "rows", Accounts)

\* ... the open rows of every account, ...
SweepRows(c) ==
  /\ desk[c].at = "rows"
  /\ Sit(c, "stale", {a \in desk[c].todo : row[a].status = "OPEN" /\ row[a].oid})
  /\ UNCHANGED <<mode, row, pos, deal, entering, exits, job>>

\* ... and one update for each of them that is not a position.
SweepClose(c) ==
  \E a \in desk[c].todo : Put(c, "stale", a, [row[a] EXCEPT !.status = "CLOSED"])

\* backfill-pnl: closed rows without a profit (or all closed rows), ...
BackfillRows(c) ==
  /\ Primary \notin Foreign
  /\ \E again \in BOOLEAN :
       Begin(c, "pnl", {a \in Accounts : /\ row[a].status = "CLOSED"
                                         /\ row[a].oid
                                         /\ again \/ row[a].pnl = "none"})

\* ... which get that of the primary account's history, if it has one.
Backfill(c) ==
  \E a \in desk[c].todo :
    \/ /\ a = Primary
       /\ a \in deal
       /\ Put(c, "pnl", a, [row[a] EXCEPT !.pnl = "broker"])
    \/ /\ a = Primary /\ a \in deal => "deals" \in Faults
       /\ Put(c, "pnl", a, row[a])
-----------------------------------------------------------------------------
Exit(p) == \/ LoadAlert(p) \/ MarkUnexecuted(p) \/ SendClose(p)
           \/ SaveExit(p) \/ FetchPnl(p)

Watch(p) == WatchPositions(p) \/ Resolve(p)

Reconcile(p) == ReconcileRow(p) \/ ReconcilePositions(p) \/ Settle(p)

Work(p) == Exit(p) \/ Watch(p) \/ Reconcile(p)

Request(c) == \/ HearDeal(c) \/ ManualClose(c) \/ SweepPositions(c) \/ BackfillRows(c)

Serve(c) == \/ RecordDeal(c) \/ SendManualClose(c) \/ MarkClosed(c)
            \/ SweepRows(c) \/ SweepClose(c) \/ Backfill(c)

Entry(a) == EntryFills(a) \/ EntryLinks(a) \/ EntryFails(a)

Next ==
  \/ \E a \in Accounts : BrokerCloses(a) \/ DealShows(a) \/ Entry(a) \/ BatchClose(a)
  \/ \E p \in Procs : \/ IgnoreExit(p) \/ PaperExit(p) \/ StartExit(p)
                      \/ WatchRows(p) \/ StartReconciliation(p)
                      \/ Work(p)
  \/ \E c \in Clerks : Request(c) \/ Serve(c)

Spec == Init /\ [][Next]_vars

\* A job that is begun goes on; the timers of the loop (60 s and 300 s) come
\* round in every process that is not stuck in a job; an entry ends.
FairSpec == /\ Spec
            /\ \A p \in Procs : /\ WF_vars(Work(p))
                                /\ SF_vars(StartReconciliation(p))
            /\ \A a \in Accounts : WF_vars(Entry(a))
-----------------------------------------------------------------------------
(* Properties.                                                             *)

\* A position that is open at the broker has an OPEN row, the only rows the
\* watchdog and the reconciliation look at; the DB is "updated to CLOSED AFTER
\* broker close is confirmed" (logic.py 400), whatever the three writers and
\* the broker do to each other.
OpenIsTracked ==
  \A a \in Accounts : pos[a] = "open" /\ a \notin entering => row[a].status = "OPEN"

\* A row that left OPEN for good does not come back: no writer works from a
\* status it read before the row was closed.
ClosedStaysClosed ==
  [][\A a \in Accounts : row[a].oid /\ row[a].status = "CLOSED"
                         => row'[a].status = "CLOSED"]_vars

\* A profit the broker reported is not replaced by the alert's ("to avoid
\* overwriting broker-verified PnL on duplicate exit webhooks", supabase.py 299).
BrokerPnlKept ==
  [][\A a \in Accounts : row[a].pnl = "broker"
                         => row'[a].pnl = "broker"]_vars

\* A position the broker has closed does not stay OPEN in the table ("prevents
\* ghost positions", broker_reconciliation.py 7).
NoGhosts ==
  \A a \in Accounts : pos[a] = "closed" /\ row[a].status = "OPEN"
                      ~> row[a].status # "OPEN"
=============================================================================
