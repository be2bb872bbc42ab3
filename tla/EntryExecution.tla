-------------------------- MODULE EntryExecution --------------------------
(***************************************************************************)
(* The entry path: a webhook's receipt row, its delivery to a worker, the  *)
(* fan-out to one thread per account, and in each thread the Redis claim,  *)
(* the row check, the account guards, the row, the order and the row that  *)
(* links the order.  Source: api.py, worker.py, logic.py, supabase.py.     *)
(*                                                                         *)
(* A receipt is one accepted webhook.  Several receipts may carry one      *)
(* trade key (an alert sent twice).  A delivery is one message a worker    *)
(* takes; two deliveries of one receipt are a dead letter that was         *)
(* retried, perhaps while its message was still in the queue.              *)
(***************************************************************************)
EXTENDS Naturals, FiniteSets

CONSTANTS
  Keys, Receipts, Deliveries, Accounts,
  KeyOf,       \* the trade key of a receipt
  RcptOf,      \* the receipt a delivery carries
  First,       \* matching[0]: the account whose payload keeps the receipt
  Workers,     \* how many deliveries may be in progress at once
  MaxAttempts, \* POSTs of one order that _request_with_retry may send
  Faults,      \* the faults of the environment this instance allows
  NoAccount, NoAlert, NoKey, NoOrder, PaperOrder

Threads == Deliveries \X Accounts  \* _execute_for_profile of one delivery
RowIds  == Receipts \cup Deliveries \cup Threads
Orders  == Threads \X (1..MaxAttempts)

FaultKinds == {"redis",       \* Redis does not answer the claim
               "db_read",     \* Supabase does not answer a SELECT
               "db_write",    \* Supabase refuses an INSERT or UPDATE
               "ttl",         \* a claim outlives its 300 s
               "lost_reply",  \* the broker's reply to a POST is lost
               "notify",      \* the notification block raises
               "crash",       \* a worker process dies
               "old_pending"} \* a row is 60 minutes old while in progress

ASSUME ConstantsAssumption ==
  /\ KeyOf \in [Receipts -> Keys]
  /\ RcptOf \in [Deliveries -> Receipts]
  /\ First \in Accounts
  /\ NoAccount \notin Accounts
  /\ NoAlert \notin RowIds
  /\ Receipts \cap Deliveries = {}
  /\ Receipts \cap Threads = {}
  /\ Deliveries \cap Threads = {}
  /\ {NoOrder, PaperOrder} \cap Orders = {}
  /\ MaxAttempts \in Nat \ {0}
  /\ Faults \subseteq FaultKinds

\* Every message is delivered once: what the queue gives when no dead letter is
\* retried (DeliveriesAreDistinct of SignalQueueProofs).
DistinctReceipts == \A d, e \in Deliveries : RcptOf[d] = RcptOf[e] => d = e

VARIABLES
  inbox,   \* inbox[r]: "new", "queued" (200) or "refused" (503)
  rows,    \* trading_signals
  lock,    \* the <<key, account>> whose trade_lock key exists in Redis
  sid,     \* sid[d]: _signal_id stamped on delivery d
  pc,      \* pc[t]: where thread t is
  alert,   \* alert[t]: alert_id, the row save_alert returned to thread t
  attempt, \* attempt[t]: the POST thread t is about to send
  orders,  \* orders the broker has accepted
  stuck    \* rows expire_stuck_pending has read and not yet updated

vars == <<inbox, rows, lock, sid, pc, alert, attempt, orders, stuck>>

Absent == [key |-> NoKey, acct |-> NoAccount, status |-> "absent",
           oid |-> NoOrder]

Key(t)  == KeyOf[RcptOf[t[1]]]
Live(i) == rows[i].status # "absent"

\* _EXIT_NON_EXECUTED_STATUSES, of those that occur here: an exit passes over them.
NonExecuted == {"rejected", "filtered", "execution_failed"}

Statuses == NonExecuted \cup {"absent", "received", "PENDING", "OPEN", "execution_cancelled"}

Finished == {"done", "skip_lock", "skip_row", "crashed"}
Steps    == {"claim", "check", "guard", "reject", "submit", "filled",
             "refused", "raised", "notify"}

Running(d) == \E a \in Accounts : pc[<<d, a>>] \in Steps

TypeOK ==
  /\ inbox \in [Receipts -> {"new", "queued", "refused"}]
  /\ rows \in [RowIds -> [key : Keys \cup {NoKey},
                          acct : Accounts \cup {NoAccount},
                          status : Statuses,
                          oid : Orders \cup {NoOrder, PaperOrder}]]
  /\ lock \subseteq Keys \X Accounts
  /\ sid \in [Deliveries -> Receipts \cup {NoAlert}]
  /\ pc \in [Threads -> {"queued"} \cup Steps \cup Finished]
  /\ alert \in [Threads -> RowIds \cup {NoAlert}]
  /\ attempt \in [Threads -> 1..MaxAttempts]
  /\ orders \subseteq Orders
  /\ stuck \subseteq RowIds

Init ==
  /\ inbox = [r \in Receipts |-> "new"]
  /\ rows = [i \in RowIds |-> Absent]
  /\ lock = {}
  /\ sid = [d \in Deliveries |-> NoAlert]
  /\ pc = [t \in Threads |-> "queued"]
  /\ alert = [t \in Threads |-> NoAlert]
  /\ attempt = [t \in Threads |-> 1]
  /\ orders = {}
  /\ stuck = {}
-----------------------------------------------------------------------------
(* The table.  The two partial unique indexes of migration 069 make a      *)
(* write fail when another row has the key and the account (or no account).*)

ConflictNoIndex(i, k, a) == FALSE   \* mutant: migration 069 not applied

Conflict(i, k, a) ==
  \E j \in RowIds \ {i} : Live(j) /\ rows[j].key = k /\ rows[j].acct = a

\* rows after row i becomes (k, a, s), inserted or updated.
Put(i, k, a, s) ==
  [rows EXCEPT ![i] = [key |-> k, acct |-> a, status |-> s, oid |-> @.oid]]

CanInsert(i, k, a) == ~Live(i) /\ ~Conflict(i, k, a)

SetStatus(i, s) == [rows EXCEPT ![i].status = s]

\* save_result for one account: the receipt's row if this payload has one,
\* a new row otherwise.  A write that fails is logged and nothing more.
UsesReceipt(t) == t[2] = First /\ Live(RcptOf[t[1]])

SaveResult(t, s) ==
  \/ /\ UsesReceipt(t)
     /\ IF Conflict(RcptOf[t[1]], Key(t), t[2])
        THEN UNCHANGED rows
        ELSE rows' = Put(RcptOf[t[1]], Key(t), t[2], s)
  \/ /\ ~UsesReceipt(t)
     /\ IF CanInsert(t, Key(t), t[2])
        THEN rows' = Put(t, Key(t), t[2], s)
        ELSE UNCHANGED rows
  \/ /\ "db_write" \in Faults
     /\ UNCHANGED rows
-----------------------------------------------------------------------------
(* The webhook and the dequeue.                                            *)

\* api.py: insert the 'received' row (a failure is not fatal), then enqueue.
Webhook(r) ==
  /\ inbox[r] = "new"
  /\ \/ /\ CanInsert(r, KeyOf[r], NoAccount)
        /\ rows' = Put(r, KeyOf[r], NoAccount, "received")
     \/ /\ CanInsert(r, KeyOf[r], NoAccount) => "db_write" \in Faults
        /\ UNCHANGED rows
  /\ \E answer \in {"queued", "refused"} : inbox' = [inbox EXCEPT ![r] = answer]
  /\ UNCHANGED <<lock, sid, pc, alert, attempt, orders, stuck>>

Waiting(d) == /\ inbox[RcptOf[d]] = "queued"
              /\ \A a \in Accounts : pc[<<d, a>>] = "queued"
              /\ Cardinality({e \in Deliveries : Running(e)}) < Workers

AllAt(d, p) == [t \in Threads |-> IF t[1] = d THEN p ELSE pc[t]]

\* A worker takes d, passes the global guards, stamps _signal_id and fans out.
Start(d) ==
  /\ Waiting(d)
  /\ \/ Live(RcptOf[d]) /\ sid' = [sid EXCEPT ![d] = RcptOf[d]]
     \/ (Live(RcptOf[d]) => "db_read" \in Faults) /\ UNCHANGED sid
  /\ pc' = AllAt(d, "claim")
  /\ UNCHANGED <<inbox, rows, lock, alert, attempt, orders, stuck>>

\* A global guard, the kill switch or the mode rejects d: one row without an
\* account (save_result) ...
RejectSignal(d) ==
  /\ Waiting(d)
  /\ LET r == RcptOf[d]
         i == IF Live(r) THEN r ELSE d
     IN \/ IF Live(r)
           THEN rows' = SetStatus(r, "rejected")
           ELSE IF CanInsert(d, KeyOf[r], NoAccount)
                THEN rows' = Put(d, KeyOf[r], NoAccount, "rejected")
                ELSE UNCHANGED rows
        \/ "db_write" \in Faults /\ UNCHANGED rows
  /\ pc' = AllAt(d, "done")
  /\ UNCHANGED <<inbox, lock, sid, alert, attempt, orders, stuck>>

\* ... or one row per account (save_result_for_profiles).
RejectForProfiles(d) ==
  /\ Waiting(d)
  /\ Cardinality(Accounts) > 1
  /\ pc' = AllAt(d, "reject")
  /\ UNCHANGED <<inbox, rows, lock, sid, alert, attempt, orders, stuck>>
-----------------------------------------------------------------------------
(* One thread of the fan-out: _execute_for_profile and logic.process_trade.*)

Goto(t, p) == pc' = [pc EXCEPT ![t] = p]

\* _claim_trade_key: SET NX EX, fail-open.
Claim(t) ==
  /\ pc[t] = "claim"
  /\ \/ /\ <<Key(t), t[2]>> \notin lock
        /\ lock' = lock \cup {<<Key(t), t[2]>>}
        /\ Goto(t, "check")
     \/ /\ <<Key(t), t[2]>> \in lock
        /\ Goto(t, "skip_lock")
        /\ UNCHANGED lock
     \/ /\ "redis" \in Faults
        /\ Goto(t, "check")
        /\ UNCHANGED lock
  /\ UNCHANGED <<inbox, rows, sid, alert, attempt, orders, stuck>>

\* The EX 300 of the claim runs out: after the thread, or under it.
Expire(k, a) ==
  /\ <<k, a>> \in lock
  /\ \/ "ttl" \in Faults
     \/ \A t \in Threads : Key(t) = k /\ t[2] = a => pc[t] \notin Steps
  /\ lock' = lock \ {<<k, a>>}
  /\ UNCHANGED <<inbox, rows, sid, pc, alert, attempt, orders, stuck>>

HasRowOfAnyAccount(k, a) ==   \* mutant: the profile filter is dropped
  \E i \in RowIds : Live(i) /\ rows[i].key = k

HasRow(k, a) == \E i \in RowIds : Live(i) /\ rows[i].key = k /\ rows[i].acct = a

\* _exists_trade_key: a row for the key and the account, fail-open.
CheckRow(t) ==
  /\ pc[t] = "check"
  /\ \/ HasRow(Key(t), t[2]) /\ Goto(t, "skip_row")
     \/ ~HasRow(Key(t), t[2]) /\ Goto(t, "guard")
     \/ "db_read" \in Faults /\ Goto(t, "guard")
  /\ UNCHANGED <<inbox, rows, lock, sid, alert, attempt, orders, stuck>>

\* run_account_guards returns a reason; passing them changes nothing.
GuardReject(t) ==
  /\ pc[t] = "guard"
  /\ Goto(t, "reject")
  /\ UNCHANGED <<inbox, rows, lock, sid, alert, attempt, orders, stuck>>

SaveRejection(t) ==
  /\ pc[t] = "reject"
  /\ SaveResult(t, "rejected")
  /\ Goto(t, "done")
  /\ UNCHANGED <<inbox, lock, sid, alert, attempt, orders, stuck>>

SaveAlertBestEffort(t) ==   \* mutant: a failed save does not stop the thread
  /\ pc[t] = "guard"
  /\ \/ /\ CanInsert(t, Key(t), t[2])
        /\ rows' = Put(t, Key(t), t[2], "PENDING")
     \/ UNCHANGED rows
  /\ alert' = [alert EXCEPT ![t] = t]
  /\ Goto(t, "submit")
  /\ UNCHANGED <<inbox, lock, sid, attempt, orders, stuck>>

\* save_alert: update the stamped row, or insert, or raise.
SaveAlertInto(t, i) ==
  /\ rows' = Put(i, Key(t), t[2], "PENDING")
  /\ alert' = [alert EXCEPT ![t] = i]
  /\ Goto(t, "submit")

CanUpdate(t) == /\ t[2] = First
                /\ sid[t[1]] # NoAlert
                /\ ~Conflict(sid[t[1]], Key(t), t[2])

SaveAlert(t) ==
  /\ pc[t] = "guard"
  /\ \/ CanUpdate(t) /\ SaveAlertInto(t, sid[t[1]])
     \/ /\ CanUpdate(t) => "db_write" \in Faults
        /\ CanInsert(t, Key(t), t[2])
        /\ SaveAlertInto(t, t)
     \/ /\ CanUpdate(t) \/ CanInsert(t, Key(t), t[2]) => "db_write" \in Faults
        /\ Goto(t, "raised")
        /\ UNCHANGED <<rows, alert>>
  /\ UNCHANGED <<inbox, lock, sid, attempt, orders, stuck>>

\* Payload run_mode PAPER: a simulated fill; dry run or live trading off: the
\* row stays PENDING; should_forward_alert says no: filtered, no notification.
NoBroker(t) ==
  /\ pc[t] = "submit"
  /\ attempt[t] = 1
  /\ \/ /\ rows' = [rows EXCEPT ![alert[t]].status = "OPEN",
                                ![alert[t]].oid = PaperOrder]
        /\ Goto(t, "notify")
     \/ /\ UNCHANGED rows
        /\ Goto(t, "notify")
     \/ /\ rows' = SetStatus(alert[t], "filtered")
        /\ Goto(t, "done")
  /\ UNCHANGED <<inbox, lock, sid, alert, attempt, orders, stuck>>

\* The next-wick wait gives up: execution_cancelled.  An exception before the
\* order (credentials, prices, a sizing rejection) counts as refused.
Abandon(t) ==
  /\ pc[t] = "submit"
  /\ attempt[t] = 1
  /\ \/ /\ rows' = SetStatus(alert[t], "execution_cancelled")
        /\ Goto(t, "done")
     \/ /\ UNCHANGED rows
        /\ Goto(t, "refused")
  /\ UNCHANGED <<inbox, lock, sid, alert, attempt, orders, stuck>>

\* One POST of submit_order.  That it was taken but not filled, or filled without an
\* id, is left out: the MetaApi adapter does not answer so.  A request without an
\* answer is sent again until the attempts are used up; the broker may have taken the
\* order all the same.
Post(t) ==
  /\ pc[t] = "submit"
  /\ \/ /\ orders' = orders \cup {<<t, attempt[t]>>}
        /\ Goto(t, "filled")
        /\ UNCHANGED attempt
     \/ /\ Goto(t, "refused")
        /\ UNCHANGED <<orders, attempt>>
     \/ /\ \/ UNCHANGED orders
           \/ "lost_reply" \in Faults /\ orders' = orders \cup {<<t, attempt[t]>>}
        /\ IF attempt[t] < MaxAttempts
           THEN attempt' = [attempt EXCEPT ![t] = @ + 1] /\ UNCHANGED pc
           ELSE Goto(t, "refused") /\ UNCHANGED attempt
  /\ UNCHANGED <<inbox, rows, lock, sid, alert, stuck>>

\* The fill is linked to every row of the key and the account; a failed write
\* is logged and the thread goes on.
LinkedAllAccounts(t) ==   \* mutant: the update filters on trade_key alone
  [i \in RowIds |->
     IF Live(i) /\ rows[i].key = Key(t)
     THEN [rows[i] EXCEPT !.status = "OPEN", !.oid = <<t, attempt[t]>>]
     ELSE rows[i]]

Linked(t) ==
  [i \in RowIds |->
     IF Live(i) /\ rows[i].key = Key(t) /\ rows[i].acct = t[2]
     THEN [rows[i] EXCEPT !.status = "OPEN", !.oid = <<t, attempt[t]>>]
     ELSE rows[i]]

LinkFill(t) ==
  /\ pc[t] = "filled"
  /\ rows' = Linked(t) \/ ("db_write" \in Faults /\ UNCHANGED rows)
  /\ Goto(t, "notify")
  /\ UNCHANGED <<inbox, lock, sid, alert, attempt, orders, stuck>>

\* update_alert_status, which raises when the write fails.
RecordRefusal(t) ==
  /\ pc[t] = "refused"
  /\ \/ /\ rows' = SetStatus(alert[t], "execution_failed")
        /\ Goto(t, "notify")
     \/ /\ "db_write" \in Faults
        /\ UNCHANGED rows
        /\ Goto(t, "raised")
  /\ UNCHANGED <<inbox, lock, sid, alert, attempt, orders, stuck>>

\* The notification block stands outside every try of process_trade.
Notify(t) ==
  /\ pc[t] = "notify"
  /\ \/ Goto(t, "done")
     \/ "notify" \in Faults /\ Goto(t, "raised")
  /\ UNCHANGED <<inbox, rows, lock, sid, alert, attempt, orders, stuck>>

\* The except of _execute_for_profile.
SaveFailure(t) ==
  /\ pc[t] = "raised"
  /\ SaveResult(t, "execution_failed")
  /\ Goto(t, "done")
  /\ UNCHANGED <<inbox, lock, sid, alert, attempt, orders, stuck>>
-----------------------------------------------------------------------------
(* The process and the watchdog.                                           *)

\* The worker that runs d dies with all its threads.
Crash(d) ==
  /\ "crash" \in Faults
  /\ Running(d)
  /\ pc' = [t \in Threads |->
              IF t[1] = d /\ pc[t] \in Steps THEN "crashed" ELSE pc[t]]
  /\ UNCHANGED <<inbox, rows, lock, sid, alert, attempt, orders, stuck>>

\* expire_stuck_pending reads the rows PENDING for 60 minutes without an order
\* id, then updates them one by one without reading them again.
OverdueAnyStatus(i) ==   \* mutant: the status filter is dropped
  Live(i) /\ \A t \in Threads : alert[t] = i => pc[t] \notin Steps

OverdueQueued(i) ==   \* mutant: the filter lists "queued" but not "PENDING"
  rows[i].status = "queued"

Overdue(i) ==
  /\ rows[i].status = "PENDING"
  /\ rows[i].oid = NoOrder
  /\ \/ "old_pending" \in Faults
     \/ \A t \in Threads : alert[t] = i => pc[t] \notin Steps

ReadStuck ==
  /\ stuck = {}
  /\ stuck' = {i \in RowIds : Overdue(i)}
  /\ stuck' # {}
  /\ UNCHANGED <<inbox, rows, lock, sid, pc, alert, attempt, orders>>

ExpireStuck(i) ==
  /\ i \in stuck
  /\ rows' = SetStatus(i, "execution_failed")
  /\ stuck' = stuck \ {i}
  /\ UNCHANGED <<inbox, lock, sid, pc, alert, attempt, orders>>
-----------------------------------------------------------------------------
ThreadStep(t) ==
  \/ Claim(t) \/ CheckRow(t) \/ GuardReject(t) \/ SaveRejection(t)
  \/ SaveAlert(t) \/ NoBroker(t) \/ Abandon(t) \/ Post(t) \/ LinkFill(t)
  \/ RecordRefusal(t) \/ Notify(t) \/ SaveFailure(t)

Take(d) == Start(d) \/ RejectSignal(d) \/ RejectForProfiles(d)

Watchdog == ReadStuck \/ \E i \in RowIds : ExpireStuck(i)

Next ==
  \/ \E r \in Receipts : Webhook(r)
  \/ \E d \in Deliveries : Take(d) \/ Crash(d)
  \/ \E t \in Threads : ThreadStep(t)
  \/ \E k \in Keys, a \in Accounts : Expire(k, a)
  \/ Watchdog

Spec == Init /\ [][Next]_vars

\* Threads run to the end unless their process dies; the worker loop runs the
\* watchdog every minute.
FairSpec == /\ Spec
            /\ \A t \in Threads : WF_vars(ThreadStep(t))
            /\ \A d \in Deliveries : WF_vars(Take(d))
            /\ WF_vars(Watchdog)
-----------------------------------------------------------------------------
(* Properties.                                                             *)

\* A trade is ordered at most once on an account, whatever runs next to what:
\* the claim, the row check and the unique index together (worker.py 581-621,
\* migration 069).
OneOrderPerAccount ==
  \A o, p \in orders :
     Key(o[1]) = Key(p[1]) /\ o[1][2] = p[1][2] => o = p

\* The broker never holds an order of which trading_signals knows nothing:
\* save_alert comes before submit_order and its failure stops the thread.
OrderHasRow == \A o \in orders : HasRow(Key(o[1]), o[1][2])

\* Once the thread is through, an exit finds the order: a row carries its id
\* and a status that exits act on ("so exit logic can close it later",
\* logic.py 883).
ExitFindsOrder ==
  \A o \in orders :
     pc[o[1]] = "done" =>
        \E i \in RowIds : rows[i].oid = o /\ rows[i].status \notin NonExecuted

\* A delivery is dropped as a duplicate only when another one really got hold
\* of the trade on that account.
Holds(u) == pc[u] \in (Steps \ {"claim"}) \cup {"done"}

SameTrade(t) == {u \in Threads \ {t} : Key(u) = Key(t) /\ u[2] = t[2]}

SkippedOnlyIfHandled ==
  \A t \in Threads : pc[t] \in {"skip_lock", "skip_row"} =>
                        \E u \in SameTrade(t) : Holds(u)

\* "A crashed worker does not permanently block retries" (worker.py 605): the
\* row check, which never expires, does not stand in for the claim that did.
CrashDoesNotBlockRetries ==
  \A t \in Threads : pc[t] = "skip_row" => \E u \in SameTrade(t) : Holds(u)

\* A row that carries a live order stays OPEN: nothing in the entry path or in
\* the watchdog takes it out of the exits' sight.
OpenStaysOpen ==
  [][\A i \in RowIds :
       rows[i].status = "OPEN" /\ rows[i].oid \in Orders
       => rows'[i].status = "OPEN"]_vars

\* A PENDING row does not stay PENDING, even when its worker died or its
\* update was lost.
RowsSettle ==
  \A i \in RowIds : rows[i].status = "PENDING" ~> rows[i].status # "PENDING"

\* The ledger this path implements.
Ledger == INSTANCE OrderLedger WITH
  recorded <- {<<rows[i].key, rows[i].acct>> :
                 i \in {j \in RowIds : Live(j) /\ rows[j].acct # NoAccount}},
  placed   <- {<<Key(o[1]), o[1][2], o>> : o \in orders}

\* The rows and the broker's orders behave as OrderLedger: no order before its
\* row, none twice.
ImplementsLedger == Ledger!Spec
=============================================================================
