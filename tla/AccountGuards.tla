--------------------------- MODULE AccountGuards ---------------------------
(***************************************************************************)
(* The guards of each account before a trade: its kill switch, the         *)
(* guardian of its day's loss and the day's risk budget.  The worker takes *)
(* one signal at a time and runs one thread per account of the live mode;  *)
(* the threads share Redis, where the dashboard turns a switch, and read   *)
(* snapshots that a background job takes of the broker's accounts.         *)
(* What process_trade does is EntryExecution, seen from outside.           *)
(* Source: pipeline/account_guards.py, worker.py, mtm_guardian.py,         *)
(* pine_streak.py, account_sync_service.py, api_risk.py.                   *)
(***************************************************************************)
EXTENDS Integers, FiniteSets

CONSTANTS
  Accounts,    \* names of the broker profiles of the live mode
  Default,     \* the name "default"
  HeldOver,    \* those with a position from before, at no profit or loss
  Start,       \* the balance to begin with, and account_balance of a signal
  LimitPct,    \* trinity_max_daily_loss_pct
  Budget,      \* pine_daily_risk_budget_pct
  Risk,        \* risk_percent of a signal
  MaxSignals, MaxDays, MaxClicks,  \* bounds: signals, nights, dashboard requests
  Faults

FaultKinds == {"redis",      \* a command to Redis fails
               "raises",     \* process_trade raises, before or after the order
               "breaker",    \* the MetaApi circuit breaker is open
               "no_status"}  \* the request for the account's balance fails

ASSUME GuardAssumption ==
  /\ HeldOver \subseteq Accounts
  /\ {Start, Budget, Risk} \subseteq Nat \ {0}
  /\ LimitPct \in 1..100
  /\ {MaxSignals, MaxDays, MaxClicks} \subseteq Nat
  /\ Faults \subseteq FaultKinds

Names == Accounts \cup {Default}
Missing == -1

VARIABLES
  bal, eq, open,   \* the account at the broker: balance, equity, any position
  closed,          \* closed PnL of the trading day in trading_signals
  snap,            \* account_status_snapshots, as far as the guardian reads it
  kill,            \* the keys trading:kill_switch[:name] that are "1"
  today,           \* risk_deployed_pct under pine:today_trades[:name]
  mode,            \* the trading mode of system_config
  msg,             \* the signal in the queue or in the worker's hands
  th,              \* th[a]: the thread of account a
  signals, days, clicks,
  told,            \* the accounts somebody has told to stop (history)
  down,            \* the accounts that have lost the limit in a day (history)
  placed,          \* orders of the default account since the last rollup (history)
  unsure           \* since then, the budget was not read or not written (history)

broker == <<bal, eq, open, closed, down>>
count  == <<signals, days, clicks>>
vars   == <<broker, snap, kill, today, mode, msg, th, count, told, placed, unsure>>

Off == [at |-> "off", seen |-> 0, blind |-> FALSE, told |-> FALSE]
NoMsg == [at |-> "none", stamp |-> "LIVE", stopped |-> FALSE]
NoSnap == [first |-> Missing, eq |-> Missing, bal |-> Missing]

TypeOK ==
  /\ bal \in [Accounts -> Nat] /\ eq \in [Accounts -> Nat] /\ open \in [Accounts -> BOOLEAN]
  /\ closed \in [Accounts -> Int]
  /\ snap \in [Accounts -> [first : Nat \cup {Missing}, eq : Nat \cup {Missing},
                            bal : Nat \cup {Missing}]]
  /\ \A a \in Accounts : (snap[a].eq = Missing) <=> (snap[a].bal = Missing)
  /\ kill \subseteq Names
  /\ today \in [Names -> Nat]
  /\ mode \in {"PAPER", "LIVE"}
  /\ msg \in [at : {"none", "queued", "work"}, stamp : {"PAPER", "LIVE"}, stopped : BOOLEAN]
  /\ th \in [Accounts -> [at : {"off", "kill", "mtm", "budget", "rest", "go", "record", "write"},
                          seen : Nat, blind : BOOLEAN, told : BOOLEAN]]
  /\ \A a \in Accounts : th[a].at # "off" => msg.at = "work"
  /\ signals \in Nat /\ days \in Nat /\ clicks \in Nat
  /\ told \subseteq Names
  /\ down \subseteq Accounts
  /\ placed \in Nat
  /\ unsure \in BOOLEAN

Init ==
  /\ bal = [a \in Accounts |-> Start] /\ eq = bal
  /\ open = [a \in Accounts |-> a \in HeldOver]
  /\ closed = [a \in Accounts |-> 0]
  /\ snap = [a \in Accounts |-> NoSnap]
  /\ kill = {} /\ told = {} /\ down = {}
  /\ today = [k \in Names |-> 0]
  /\ mode = "LIVE"
  /\ msg = NoMsg
  /\ th = [a \in Accounts |-> Off]
  /\ signals = 0 /\ days = 0 /\ clicks = 0
  /\ placed = 0
  /\ unsure = FALSE
-----------------------------------------------------------------------------
(* The broker, the nights and the job that takes snapshots.                *)

Lost(from, to) == from > 0 /\ (from - to) * 100 >= LimitPct * from

\* Only losses and their recovery are of interest: equity stays below Start.
Moves(a) ==
  /\ open[a]
  /\ eq' \in {[eq EXCEPT ![a] = e] : e \in {eq[a] - 1, eq[a] + 1} \cap 1..Start}
  /\ down' = IF Lost(Start, eq'[a]) THEN down \cup {a} ELSE down
  /\ UNCHANGED <<bal, open, closed, snap, kill, today, mode, msg, th, count, told, placed, unsure>>

Closes(a) ==
  /\ open[a]
  /\ open' = [open EXCEPT ![a] = FALSE]
  /\ bal' = [bal EXCEPT ![a] = eq[a]]
  /\ closed' = [closed EXCEPT ![a] = @ + eq[a] - bal[a]]
  /\ UNCHANGED <<eq, down, snap, kill, today, mode, msg, th, count, told, placed, unsure>>

\* Midnight in New York, for both tables.
NewDay ==
  /\ days < MaxDays
  /\ days' = days + 1
  /\ closed' = [a \in Accounts |-> 0]
  /\ snap' = [a \in Accounts |-> [snap[a] EXCEPT !.first = Missing]]
  /\ UNCHANGED <<bal, eq, open, down, kill, today, mode, msg, th, signals, clicks, told, placed,
                 unsure>>

\* What get_account_status answers: "On failure, returns minimal dict with zeros."
StatusOf(a) == {[eq |-> eq[a], bal |-> bal[a]]} \cup
               (IF "no_status" \in Faults THEN {[eq |-> 0, bal |-> 0]} ELSE {})

Snapped(a, s) ==
  snap' = [snap EXCEPT ![a] = [first |-> IF @.first = Missing THEN s.bal ELSE @.first,
                               eq |-> s.eq, bal |-> s.bal]]

SyncAnyway(a) ==   \* mutant: the answer of the open breaker is stored, too
  /\ a # Default
  /\ \/ \E s \in StatusOf(a) : Snapped(a, s)
     \/ "breaker" \in Faults /\ Snapped(a, [eq |-> 0, bal |-> 0])
  /\ UNCHANGED <<broker, kill, today, mode, msg, th, count, told, placed, unsure>>

\* sync_account_status.  With the breaker open it leaves without a snapshot.  The
\* guardian reads none of the default account.
Sync(a) ==
  /\ a # Default
  /\ \E s \in StatusOf(a) : Snapped(a, s)
  /\ UNCHANGED <<broker, kill, today, mode, msg, th, count, told, placed, unsure>>

\* The latest snapshot is more than ten minutes old.
SnapExpires(a) ==
  /\ snap[a].eq # Missing
  /\ snap' = [snap EXCEPT ![a].eq = Missing, ![a].bal = Missing]
  /\ UNCHANGED <<broker, kill, today, mode, msg, th, count, told, placed, unsure>>
-----------------------------------------------------------------------------
(* The dashboard: toggle_kill_switch, and the trading mode.                *)

Clicks == clicks < MaxClicks /\ clicks' = clicks + 1

Engage ==
  /\ Clicks
  /\ kill' = kill \cup {Default}
  /\ told' = told \cup {Default}
  /\ UNCHANGED <<broker, snap, today, mode, msg, th, signals, days, placed, unsure>>

Reset ==
  /\ Default \in kill
  /\ kill' = kill \ {Default}
  /\ told' = told \ {Default}
  /\ th' = [a \in Accounts |-> [th[a] EXCEPT !.told = @ /\ a # Default]]
  /\ msg' = [msg EXCEPT !.stopped = FALSE]
  /\ UNCHANGED <<broker, snap, today, mode, count, placed, unsure>>

SwitchMode ==
  /\ Clicks
  /\ mode' = IF mode = "LIVE" THEN "PAPER" ELSE "LIVE"
  /\ UNCHANGED <<broker, snap, kill, today, msg, th, signals, days, told, placed, unsure>>
-----------------------------------------------------------------------------
(* The worker.                                                             *)

\* The webhook stamps run_mode with the mode of the moment.
Receive ==
  /\ msg.at = "none"
  /\ signals < MaxSignals
  /\ signals' = signals + 1
  /\ msg' = [NoMsg EXCEPT !.at = "queued", !.stamp = mode]
  /\ UNCHANGED <<broker, snap, kill, today, mode, th, days, clicks, told, placed, unsure>>

\* process_trade asks for the mode again and goes by that.  In PAPER mode the
\* accounts of the live mode are not concerned.
Process ==
  /\ msg.at = "queued"
  /\ msg' = IF mode = "LIVE" THEN [msg EXCEPT !.at = "work", !.stopped = Default \in told] ELSE NoMsg
  /\ th' = [a \in Accounts |-> IF mode = "LIVE" THEN [Off EXCEPT !.at = "kill", !.told = a \in told]
                                                ELSE Off]
  /\ UNCHANGED <<broker, snap, kill, today, mode, count, told, placed, unsure>>

\* as_completed has had every thread.
Done ==
  /\ msg.at = "work"
  /\ \A a \in Accounts : th[a] = Off
  /\ msg' = NoMsg
  /\ UNCHANGED <<broker, snap, kill, today, mode, th, count, told, placed, unsure>>

\* The daily reset, between two signals in the first hour of a day in UTC; it is
\* done again by a worker restarted in that hour.
Rollup ==
  /\ msg.at # "work"
  /\ today' = [today EXCEPT ![Default] = 0]
  /\ placed' = 0
  /\ unsure' = FALSE
  /\ UNCHANGED <<broker, snap, kill, mode, msg, th, count, told>>
-----------------------------------------------------------------------------
(* run_account_guards in the thread of account a, and what follows.        *)

Goes(a, to) == th' = [th EXCEPT ![a].at = to]
Stops(a)    == th' = [th EXCEPT ![a] = Off]
Blindly(a, to) == th' = [th EXCEPT ![a].at = to, ![a].blind = TRUE]

\* What becomes of a guard that cannot have its data, where it asks for the mode.
FailsClosed(a, to) == IF msg.stamp = "LIVE" THEN Stops(a) ELSE Blindly(a, to)

CheckKillSwitch(a) ==
  /\ th[a].at = "kill"
  /\ \/ IF a \in kill THEN Stops(a) ELSE Goes(a, "mtm")
     \/ "redis" \in Faults /\ FailsClosed(a, "mtm")
  /\ UNCHANGED <<broker, snap, kill, today, mode, msg, count, told, placed, unsure>>

\* get_real_time_equity: the snapshots if there is a recent one, or else closed
\* trades; open ones are asked for under statuses that no fill has.
LimitReached(a) ==
  LET s == snap[a]
  IN IF a # Default /\ s.eq # Missing
     THEN Lost(IF s.first # Missing THEN s.first ELSE s.bal, s.eq)
     ELSE Lost(Start, Start + closed[a])

GuardianStopsAll(a) ==   \* mutant: the key of the docstring's usage, for every account
  /\ th[a].at = "mtm"
  /\ IF LimitReached(a)
     THEN Stops(a) /\ kill' = kill \cup {Default} /\ told' = told \cup {a}
     ELSE Goes(a, "budget") /\ UNCHANGED <<kill, told>>
  /\ UNCHANGED <<broker, snap, today, mode, msg, count, placed, unsure>>

\* check_kill_switch sets the account's key; that it cannot is passed over.
Guardian(a) ==
  /\ th[a].at = "mtm"
  /\ IF LimitReached(a)
     THEN /\ Stops(a)
          /\ \/ kill' = kill \cup {a} /\ told' = told \cup {a}
             \/ "redis" \in Faults /\ UNCHANGED <<kill, told>>
     ELSE Goes(a, "budget") /\ UNCHANGED <<kill, told>>
  /\ UNCHANGED <<broker, snap, today, mode, msg, count, placed, unsure>>

CheckBudgetAtLimit(a) ==   \* mutant: <= for <
  /\ th[a].at = "budget"
  /\ IF today[a] <= Budget THEN Goes(a, "rest") ELSE Stops(a)
  /\ UNCHANGED <<broker, snap, kill, today, mode, msg, count, told, placed, unsure>>

\* check_risk_budget.  get_today_summary takes a failed read for nothing deployed.
\* The limit on the number of trades is new with each guardian and never reached.
CheckBudget(a) ==
  /\ th[a].at = "budget"
  /\ \/ /\ IF today[a] < Budget THEN Goes(a, "rest") ELSE Stops(a)
        /\ UNCHANGED unsure
     \/ "redis" \in Faults /\ Blindly(a, "rest") /\ unsure' = TRUE
  /\ UNCHANGED <<broker, snap, kill, today, mode, msg, count, told, placed>>

\* Circuit breaker, weekly and monthly loss, losses in a row, PropGuard,
\* correlation and consistency: each may reject.
OtherGuards(a) ==
  /\ th[a].at = "rest"
  /\ Goes(a, "go") \/ Stops(a)
  /\ UNCHANGED <<broker, snap, kill, today, mode, msg, count, told, placed, unsure>>

Fill(a) ==
  /\ open' = [open EXCEPT ![a] = TRUE]
  /\ placed' = IF a = Default THEN placed + 1 ELSE placed

\* logic.process_trade returns, with an order or without, or raises.
ProcessTrade(a) ==
  /\ th[a].at = "go"
  /\ \/ Goes(a, "record") /\ UNCHANGED unsure /\ (Fill(a) \/ UNCHANGED <<open, placed>>)
     \/ /\ "raises" \in Faults
        /\ Stops(a)
        /\ \/ Fill(a) /\ unsure' = TRUE
           \/ UNCHANGED <<open, placed, unsure>>
  /\ UNCHANGED <<bal, eq, closed, down, snap, kill, today, mode, msg, count, told>>

\* record_trade_result is called without the name of the account.
RecordKey == Default

ReadToday(a) ==
  /\ th[a].at = "record"
  /\ \/ th' = [th EXCEPT ![a].at = "write", ![a].seen = today[RecordKey]] /\ UNCHANGED unsure
     \/ /\ "redis" \in Faults
        /\ th' = [th EXCEPT ![a].at = "write", ![a].seen = 0]
        /\ unsure' = TRUE
  /\ UNCHANGED <<broker, snap, kill, today, mode, msg, count, told, placed>>

WriteToday(a) ==
  /\ th[a].at = "write"
  /\ Stops(a)
  /\ \/ today' = [today EXCEPT ![RecordKey] = th[a].seen + Risk] /\ UNCHANGED unsure
     \/ "redis" \in Faults /\ unsure' = TRUE /\ UNCHANGED today
  /\ UNCHANGED <<broker, snap, kill, mode, msg, count, told, placed>>
-----------------------------------------------------------------------------
Thread(a) ==
  \/ CheckKillSwitch(a) \/ Guardian(a) \/ CheckBudget(a) \/ OtherGuards(a)
  \/ ProcessTrade(a) \/ ReadToday(a) \/ WriteToday(a)

World(a) == Moves(a) \/ Closes(a) \/ Sync(a) \/ SnapExpires(a)

Next ==
  \/ \E a \in Accounts : Thread(a) \/ World(a)
  \/ NewDay
  \/ Engage \/ Reset \/ SwitchMode
  \/ Receive \/ Process \/ Done \/ Rollup

Spec == Init /\ [][Next]_vars
-----------------------------------------------------------------------------
\* An account that has been told to stop, the default one at the dashboard or any
\* by its guardian, trades no signal that is taken up afterwards, unless a guard
\* had to do without its data.
KillHolds == \A a \in Accounts : th[a].at = "go" /\ th[a].told => th[a].blind

\* The guardian stops no account that has not lost its limit ("prevents massive
\* phantom losses"), through nights, old snapshots and an open breaker.
NoPhantomKill == \A a \in Accounts \ {Default} : a \in kill => a \in down

\* "Max cumulative risk % per day", for the default account between two rollups:
\* one trade may go beyond it, although other accounts record in the same place.
BudgetHolds == ~unsure => placed * Risk < Budget + Risk

\* The dashboard's switch stops all trading ("worker reads this on every trade").
EmergencyStop == msg.stopped => \A a \in Accounts : th[a].at # "go"

\* "Every guard that cannot validate a LIVE trade due to missing data REJECTS it."
FailClosed == \A a \in Accounts : th[a].at = "go" => ~th[a].blind
=============================================================================
