---------------------- MODULE PositionLifecycleProofs ----------------------
(***************************************************************************)
(* Proofs about PositionLifecycle for every set of accounts and processes  *)
(* and any number of exit webhooks.                                        *)
(***************************************************************************)
EXTENDS PositionLifecycle, TLAPS

Row == [status : Statuses, oid : BOOLEAN, pnl : {"none", "alert", "broker"}]

Job == [at : {"idle", "exit", "unexecuted", "close", "save", "pnl",
              "watch", "resolve", "profile", "list", "settle"},
        todo : SUBSET Targets, tgt : Targets, alert : Targets]

Steps == {"idle", "exit", "unexecuted", "close", "save", "pnl",
          "watch", "resolve", "profile", "list", "settle"}

\* A job keeps its type when the loop goes on, begins something, or stops.
LEMMA GoOnType ==
  ASSUME job \in [Procs -> Job], NEW p, NEW s \in Steps,
         NEW rest \in SUBSET Targets, GoOn(p, s, rest)
  PROVE  job' \in [Procs -> Job]
BY DEF GoOn, Idle, Job, Steps, Targets

\* The same for a job that becomes something else
LEMMA BecomeType ==
  ASSUME job \in [Procs -> Job], NEW p, NEW s \in Steps,
         NEW todo \in SUBSET Targets, NEW tgt \in Targets,
         NEW alrt \in Targets, Become(p, s, todo, tgt, alrt)
  PROVE  job' \in [Procs -> Job]
BY DEF Become, Job, Steps

\* and for one that takes its next step,
LEMMA AtType ==
  ASSUME job \in [Procs -> Job], NEW p, NEW s \in Steps,
         job' = [job EXCEPT ![p].at = s]
  PROVE  job' \in [Procs -> Job]
<1>1. \A j \in Job : [j EXCEPT !.at = s] \in Job  BY DEF Job, Steps
<1>. QED  BY <1>1

\* and for one that ends.
LEMMA IdleType ==
  ASSUME job \in [Procs -> Job], NEW p, job' = [job EXCEPT ![p] = Idle]
  PROVE  job' \in [Procs -> Job]
BY DEF Job, Idle, Targets

Desk == [at : {"free", "deal", "close", "mark", "rows", "stale", "pnl"},
         todo : SUBSET Accounts]

\* A thread of the API process keeps its type when it goes on.
LEMMA SitType ==
  ASSUME desk \in [Clerks -> Desk], NEW c,
         NEW s \in {"deal", "close", "mark", "rows", "stale", "pnl"},
         NEW todo \in SUBSET Accounts, Sit(c, s, todo)
  PROVE  desk' \in [Clerks -> Desk]
BY DEF Sit, Free, Desk

\* An exit keeps the order of a row.
LEMMA ClosedType == \A r \in Row : Closed(r) \in Row /\ Closed(r).oid = r.oid
                                   /\ Closed(r).status = "CLOSED"
BY DEF Closed, Row, Statuses

\* So does update_alert_exit.
LEMMA ExitAllType ==
  ASSUME row \in [Accounts -> Row]
  PROVE  ExitAll \in [Accounts -> Row]
BY ClosedType DEF ExitAll

\* What a request does to the row of an account it holds.
Edits(c, s, a) ==
  \/ s \in {"mark", "stale"} /\ Put(c, s, a, [row[a] EXCEPT !.status = "CLOSED"])
  \/ s = "deal" /\ Put(c, s, a, [row[a] EXCEPT !.status = "CLOSED", !.pnl = "broker"])
  \/ s = "pnl" /\ Put(c, s, a, [row[a] EXCEPT !.pnl = "broker"])
  \/ s = "pnl" /\ Put(c, s, a, row[a])

\* It replaces one row, and keeps the row's order.
LEMMA EditRow ==
  ASSUME row \in [Accounts -> Row], NEW c, NEW s, NEW a \in Accounts, Edits(c, s, a)
  PROVE  \E new \in Row :
           /\ new.oid = row[a].oid
           /\ new.status = IF s = "pnl" THEN row[a].status ELSE "CLOSED"
           /\ row' = row \/ row' = [row EXCEPT ![a] = new]
<1>0. row[a] \in Row  OBVIOUS
<1>1. CASE s \in {"mark", "stale"} /\ Put(c, s, a, [row[a] EXCEPT !.status = "CLOSED"])
  <2>1. [row[a] EXCEPT !.status = "CLOSED"] \in Row  BY <1>0 DEF Row, Statuses
  <2>. WITNESS [row[a] EXCEPT !.status = "CLOSED"] \in Row
  <2>. QED  BY <1>0, <1>1 DEF Put, Write, Row, Statuses
<1>2. CASE s = "deal" /\ Put(c, s, a, [row[a] EXCEPT !.status = "CLOSED", !.pnl = "broker"])
  <2>1. [row[a] EXCEPT !.status = "CLOSED", !.pnl = "broker"] \in Row
    BY <1>0 DEF Row, Statuses
  <2>. WITNESS [row[a] EXCEPT !.status = "CLOSED", !.pnl = "broker"] \in Row
  <2>. QED  BY <1>0, <1>2 DEF Put, Write, Row, Statuses
<1>3. CASE s = "pnl" /\ Put(c, s, a, [row[a] EXCEPT !.pnl = "broker"])
  <2>1. [row[a] EXCEPT !.pnl = "broker"] \in Row  BY <1>0 DEF Row
  <2>. WITNESS [row[a] EXCEPT !.pnl = "broker"] \in Row
  <2>. QED  BY <1>0, <1>3 DEF Put, Write, Row
<1>4. CASE s = "pnl" /\ Put(c, s, a, row[a])
  <2>. WITNESS row[a] \in Row
  <2>. QED  BY <1>0, <1>4 DEF Put, Write
<1>. QED  BY <1>1, <1>2, <1>3, <1>4 DEF Edits

\* The updates of the API process are all of one form.
LEMMA ServeEdits ==
  ASSUME NEW c \in Clerks, RecordDeal(c) \/ MarkClosed(c) \/ SweepClose(c) \/ Backfill(c)
  PROVE  \E s \in {"deal", "mark", "stale", "pnl"} : \E a \in desk[c].todo : Edits(c, s, a)
BY DEF RecordDeal, MarkClosed, SweepClose, Backfill, Edits

\* A request begins by reading rows and positions only.
LEMMA RequestBegins ==
  ASSUME NEW c \in Clerks, Request(c)
  PROVE  \E s \in {"deal", "close", "rows", "pnl"}, todo \in SUBSET Accounts :
           Begin(c, s, todo)
BY ConstantsAssumption
DEF Request, HearDeal, ManualClose, SweepPositions, BackfillRows

\* Every step keeps the types: one step of the proof per action.
LEMMA TypeStep ==
  ASSUME TypeOK, [Next]_vars
  PROVE  TypeOK'
<1>0. /\ job \in [Procs -> Job] /\ row \in [Accounts -> Row]
      /\ desk \in [Clerks -> Desk]
  BY DEF TypeOK, Job, Row, Desk
<1>. USE <1>0
<1>1. ASSUME NEW a \in Accounts, BrokerCloses(a) PROVE TypeOK'
  BY <1>1 DEF BrokerCloses, TypeOK
<1>2. ASSUME NEW a \in Accounts, DealShows(a) PROVE TypeOK'
  BY <1>2 DEF DealShows, TypeOK
<1>3. ASSUME NEW a \in Accounts, EntryFills(a) PROVE TypeOK'
  BY <1>3 DEF EntryFills, TypeOK
<1>4. ASSUME NEW a \in Accounts, EntryLinks(a) PROVE TypeOK'
  <2>1. row' \in [Accounts -> Row]
    <3>1. \A r \in Row : [r EXCEPT !.status = "OPEN", !.oid = TRUE] \in Row
      BY DEF Row, Statuses
    <3>. QED  BY <1>4, <3>1 DEF EntryLinks
  <2>. QED  BY <1>4, <2>1 DEF EntryLinks, TypeOK, Row
<1>5. ASSUME NEW a \in Accounts, EntryFails(a) PROVE TypeOK'
  <2>1. row' \in [Accounts -> Row]
    <3>1. \A r \in Row : [r EXCEPT !.status = "execution_failed"] \in Row
      BY DEF Row, Statuses, NonExecuted, NotTargeted, Rejected
    <3>. QED  BY <1>5, <3>1 DEF EntryFails
  <2>. QED  BY <1>5, <2>1 DEF EntryFails, TypeOK, Row
<1>6. ASSUME NEW p \in Procs, IgnoreExit(p) PROVE TypeOK'
  BY <1>6, ConstantsAssumption DEF IgnoreExit, TypeOK
<1>7. ASSUME NEW p \in Procs, PaperExit(p) PROVE TypeOK'
  <2>1. row' \in [Accounts -> Row]
    <3>1. \A r \in Row : [r EXCEPT !.status = "CLOSED"] \in Row
      BY DEF Row, Statuses
    <3>2. row \in [Accounts -> Row]  BY DEF TypeOK, Row
    <3>3. row' = [a \in Accounts |-> [ExitAll[a] EXCEPT !.status = "CLOSED"]]
      BY <1>7 DEF PaperExit
    <3>. QED  BY <3>1, <3>2, <3>3, ExitAllType
  <2>. QED  BY <1>7, <2>1, ConstantsAssumption DEF PaperExit, TypeOK, Row
<1>8. ASSUME NEW p \in Procs, StartExit(p) PROVE TypeOK'
  <2>1. ExitTargets \in SUBSET Targets /\ {NoTarget} \in SUBSET Targets
    BY DEF ExitTargets, OwnersOfOrders, Targets
  <2>2. job' \in [Procs -> Job]
    BY <1>8, <2>1, GoOnType DEF StartExit, Steps
  <2>. QED  BY <1>8, <2>2, ConstantsAssumption DEF StartExit, TypeOK, Job
<1>9. ASSUME NEW p \in Procs, LoadAlert(p) PROVE TypeOK'
  <2>1. PICK t \in job[p].todo, b \in Accounts :
          \/ GoOn(p, "exit", job[p].todo \ {t})
          \/ Become(p, "close", job[p].todo \ {t}, t, b)
          \/ Become(p, "unexecuted", job[p].todo \ {t}, t, b)
    BY <1>9 DEF LoadAlert
  <2>2. t \in Targets /\ b \in Targets /\ job[p].todo \ {t} \in SUBSET Targets
    BY DEF Job, Targets
  <2>3. job' \in [Procs -> Job]
    <3>1. {"exit", "close", "unexecuted"} \subseteq Steps  BY DEF Steps
    <3>2. CASE GoOn(p, "exit", job[p].todo \ {t})
      BY <2>2, <3>1, <3>2, GoOnType
    <3>3. CASE Become(p, "close", job[p].todo \ {t}, t, b)
      BY <2>2, <3>1, <3>3, BecomeType
    <3>4. CASE Become(p, "unexecuted", job[p].todo \ {t}, t, b)
      BY <2>2, <3>1, <3>4, BecomeType
    <3>. QED  BY <2>1, <3>2, <3>3, <3>4
  <2>. QED  BY <1>9, <2>3 DEF LoadAlert, TypeOK, Job
<1>10. ASSUME NEW p \in Procs, MarkUnexecuted(p) PROVE TypeOK'
  <2>1. job[p].todo \in SUBSET Targets  BY DEF Job
  <2>2. job' \in [Procs -> Job]
    BY <1>10, <2>1, GoOnType DEF MarkUnexecuted, Steps
  <2>3. row' \in [Accounts -> Row]
    <3>1. CASE row' = row  BY <3>1
    <3>2. CASE row' = [a \in Accounts |-> [row[a] EXCEPT !.status = "unexecuted"]]
      <4>1. "unexecuted" \in Statuses  BY DEF Statuses, NonExecuted, NotTargeted
      <4>2. \A r \in Row : [r EXCEPT !.status = "unexecuted"] \in Row
        BY <4>1 DEF Row
      <4>. QED  BY <3>2, <4>2
    <3>. QED  BY <1>10, <3>1, <3>2 DEF MarkUnexecuted, Write
  <2>. QED  BY <1>10, <2>2, <2>3 DEF MarkUnexecuted, TypeOK, Job, Row
<1>11. ASSUME NEW p \in Procs, SendClose(p) PROVE TypeOK'
  <2>1. job[p].todo \in SUBSET Targets  BY DEF Job
  <2>2. job' \in [Procs -> Job]
    BY <1>11, <2>1, GoOnType, AtType DEF SendClose, Steps
  <2>3. pos' \in [Accounts -> {"none", "open", "closed"}]
    BY <1>11 DEF SendClose, TypeOK
  <2>. QED  BY <1>11, <2>2, <2>3 DEF SendClose, TypeOK, Job, Row
<1>12. ASSUME NEW p \in Procs, SaveExit(p) PROVE TypeOK'
  <2>1. job[p].todo \in SUBSET Targets  BY DEF Job
  <2>2. job' \in [Procs -> Job]
    BY <1>12, <2>1, GoOnType, AtType DEF SaveExit, Steps
  <2>3. row' \in [Accounts -> Row]
    BY <1>12, ClosedType, ExitAllType DEF SaveExit
  <2>. QED  BY <1>12, <2>2, <2>3 DEF SaveExit, TypeOK, Job, Row
<1>13. ASSUME NEW p \in Procs, FetchPnl(p) PROVE TypeOK'
  <2>1. job[p].todo \in SUBSET Targets  BY DEF Job
  <2>2. job' \in [Procs -> Job]
    BY <1>13, <2>1, GoOnType DEF FetchPnl, Steps
  <2>3. row' \in [Accounts -> Row]
    BY <1>13 DEF FetchPnl, Row
  <2>. QED  BY <1>13, <2>2, <2>3 DEF FetchPnl, TypeOK, Job, Row
<1>14. ASSUME NEW p \in Procs, WatchRows(p) PROVE TypeOK'
  <2>1. {a \in Accounts : row[a].status = "OPEN" /\ row[a].oid} \in SUBSET Targets
        /\ NoTarget \in Targets
    BY DEF Targets
  <2>2. job' \in [Procs -> Job]
    BY <1>14, <2>1, BecomeType DEF WatchRows, Steps
  <2>. QED  BY <1>14, <2>2 DEF WatchRows, TypeOK, Job, Row
<1>15. ASSUME NEW p \in Procs, WatchPositions(p) PROVE TypeOK'
  <2>1. job[p].todo \in SUBSET Targets /\ job[p].todo \ {Primary} \in SUBSET Targets
    BY DEF Job
  <2>2. job' \in [Procs -> Job]
    BY <1>15, <2>1, GoOnType, IdleType DEF WatchPositions, Steps
  <2>. QED  BY <1>15, <2>2 DEF WatchPositions, TypeOK, Job, Row
<1>16. ASSUME NEW p \in Procs, Resolve(p) PROVE TypeOK'
  <2>1. PICK a \in job[p].todo : GoOn(p, "resolve", job[p].todo \ {a})
    BY <1>16 DEF Resolve
  <2>2. job' \in [Procs -> Job]
    <3>1. job[p].todo \ {a} \in SUBSET Targets  BY DEF Job
    <3>. QED  BY <2>1, <3>1, GoOnType DEF Steps
  <2>3. row' \in [Accounts -> Row]
    BY <1>16 DEF Resolve, Write, Row, Statuses
  <2>. QED  BY <1>16, <2>2, <2>3 DEF Resolve, TypeOK, Job, Row
<1>17. ASSUME NEW p \in Procs, StartReconciliation(p) PROVE TypeOK'
  <2>1. Accounts \in SUBSET Targets  BY DEF Targets
  <2>2. job' \in [Procs -> Job]
    BY <1>17, <2>1, GoOnType DEF StartReconciliation, Steps
  <2>. QED  BY <1>17, <2>2 DEF StartReconciliation, TypeOK, Job, Row
<1>18. ASSUME NEW p \in Procs, ReconcileRow(p) PROVE TypeOK'
  <2>1. PICK a \in job[p].todo :
          \/ job' = [job EXCEPT ![p] = Idle]
          \/ Become(p, "list", job[p].todo \ {a}, a, a)
          \/ GoOn(p, "profile", job[p].todo \ {a})
    BY <1>18 DEF ReconcileRow
  <2>2. a \in Targets /\ job[p].todo \ {a} \in SUBSET Targets
    BY DEF Job
  <2>3. job' \in [Procs -> Job]
    BY <2>1, <2>2, GoOnType, BecomeType, IdleType DEF Steps
  <2>. QED  BY <1>18, <2>3 DEF ReconcileRow, TypeOK, Job, Row
<1>19. ASSUME NEW p \in Procs, ReconcilePositions(p) PROVE TypeOK'
  <2>1. job[p].todo \in SUBSET Targets  BY DEF Job
  <2>2. job' \in [Procs -> Job]
    BY <1>19, <2>1, GoOnType, AtType DEF ReconcilePositions, Steps
  <2>. QED  BY <1>19, <2>2 DEF ReconcilePositions, TypeOK, Job, Row
<1>20. ASSUME NEW p \in Procs, Settle(p) PROVE TypeOK'
  <2>1. job[p].todo \in SUBSET Targets  BY DEF Job
  <2>2. job' \in [Procs -> Job]
    BY <1>20, <2>1, GoOnType DEF Settle, Steps
  <2>3. row' \in [Accounts -> Row]
    BY <1>20 DEF Settle, Write, Row, Statuses
  <2>. QED  BY <1>20, <2>2, <2>3 DEF Settle, TypeOK, Job, Row
<1>21. ASSUME NEW a \in Accounts, BatchClose(a) PROVE TypeOK'
  <2>1. row' \in [Accounts -> Row]
    BY <1>21 DEF BatchClose, Write, Row, Statuses
  <2>. QED  BY <1>21, <2>1 DEF BatchClose, TypeOK, Row
<1>22. ASSUME NEW c \in Clerks, Request(c) PROVE TypeOK'
  <2>1. PICK s \in {"deal", "close", "rows", "pnl"}, todo \in SUBSET Accounts :
          Begin(c, s, todo)
    BY <1>22, RequestBegins
  <2>2. desk' \in [Clerks -> Desk]  BY <2>1, SitType DEF Begin
  <2>. QED  BY <2>1, <2>2 DEF Begin, TypeOK, Desk
<1>23. ASSUME NEW c \in Clerks, SendManualClose(c) PROVE TypeOK'
  <2>1. desk' \in [Clerks -> Desk]
    <3>1. PICK a \in desk[c].todo : Sit(c, "mark", {a})  BY <1>23 DEF SendManualClose
    <3>2. {a} \in SUBSET Accounts  BY DEF Desk
    <3>. QED  BY <3>1, <3>2, SitType
  <2>2. pos' \in [Accounts -> {"none", "open", "closed"}]
    BY <1>23 DEF SendManualClose, TypeOK
  <2>. QED  BY <1>23, <2>1, <2>2 DEF SendManualClose, TypeOK, Desk
<1>24. ASSUME NEW c \in Clerks, SweepRows(c) PROVE TypeOK'
  <2>1. {a \in desk[c].todo : row[a].status = "OPEN" /\ row[a].oid} \in SUBSET Accounts
    BY DEF Desk
  <2>2. desk' \in [Clerks -> Desk]  BY <1>24, <2>1, SitType DEF SweepRows
  <2>. QED  BY <1>24, <2>2 DEF SweepRows, TypeOK, Desk
<1>25. ASSUME NEW c \in Clerks,
              RecordDeal(c) \/ MarkClosed(c) \/ SweepClose(c) \/ Backfill(c)
       PROVE TypeOK'
  <2>1. PICK s \in {"deal", "mark", "stale", "pnl"}, a \in desk[c].todo : Edits(c, s, a)
    BY <1>25, ServeEdits
  <2>2. a \in Accounts /\ desk[c].todo \ {a} \in SUBSET Accounts
    BY <2>1 DEF Desk
  <2>3. desk' \in [Clerks -> Desk]
    <3>1. Sit(c, s, desk[c].todo \ {a})  BY <2>1 DEF Edits, Put
    <3>. QED  BY <2>2, <3>1, SitType
  <2>4. row' \in [Accounts -> Row]
    BY <2>1, <2>2, EditRow
  <2>5. UNCHANGED <<mode, pos, deal, entering, exits, job>>
    BY <2>1 DEF Edits, Put
  <2>. QED  BY <2>3, <2>4, <2>5 DEF TypeOK, Desk, Row
<1>26. CASE UNCHANGED vars  BY <1>26 DEF vars, TypeOK
<1>. QED
  BY <1>1, <1>2, <1>3, <1>4, <1>5, <1>6, <1>7, <1>8, <1>9, <1>10, <1>11,
     <1>12, <1>13, <1>14, <1>15, <1>16, <1>17, <1>18, <1>19, <1>20, <1>21,
     <1>22, <1>23, <1>24, <1>25, <1>26
  DEF Next, Entry, Work, Exit, Watch, Reconcile, Serve

\* The types hold at first.
LEMMA InitType == Init => TypeOK
<1> SUFFICES ASSUME Init PROVE TypeOK
  OBVIOUS
<1>1. job \in [Procs -> Job]
  BY DEF Init, Idle, Job, Targets
<1>2. row \in [Accounts -> Row]
  BY DEF Init, Row, Statuses, NonExecuted, NotTargeted, Rejected
<1>3. entering \subseteq Accounts
  BY ConstantsAssumption DEF Init
<1>4. desk \in [Clerks -> Desk]
  BY DEF Init, Free, Desk
<1>. QED  BY <1>1, <1>2, <1>3, <1>4, ConstantsAssumption DEF Init, TypeOK, Job, Row, Desk

\* Rows, positions and jobs keep their types, whatever fails.
THEOREM TypeCorrect == Spec => []TypeOK
BY InitType, TypeStep, PTL DEF Spec
-----------------------------------------------------------------------------
(* Rows of orders.  Their invariant needs one thing only: that no exit     *)
(* comes while an entry is under way.  Whatever else fails or lies, the    *)
(* one update that does not close a row (MarkUnexecuted) finds no order.   *)

NoEarlyExit == "early_exit" \notin Faults

\* A row has an order from the moment it is linked, and is then open or closed.
LinkedRows ==
  \A a \in Accounts :
    /\ row[a].oid => row[a].status \in {"OPEN", "CLOSED"}
    /\ row[a].status = "OPEN" => row[a].oid
    /\ a \in entering => ~row[a].oid

NoOrders == \A a \in Accounts : ~row[a].oid

\* The accounts an exit still has to do were chosen for their orders, after the
\* last entry; it calls the trade unexecuted when there is none.
ExitOK(p) ==
  /\ job[p].at \in {"exit", "unexecuted", "close", "save", "pnl"}
     => entering = {} /\ \A t \in job[p].todo : t \in Accounts => row[t].oid
  /\ job[p].at = "unexecuted" => NoOrders

OrdersInv == TypeOK /\ LinkedRows /\ \A p \in Procs : ExitOK(p)

\* What every step but an entry's does to rows: it closes them, or leaves the
\* status of those that have an order.
RowEffect ==
  /\ entering' = entering
  /\ \A a \in Accounts :
       /\ row'[a].oid = row[a].oid
       /\ \/ row'[a].status = row[a].status
          \/ /\ row'[a].status # "OPEN"
             /\ row[a].oid => row'[a].status = "CLOSED"

\* The step form of ClosedStaysClosed.
StaysClosed ==
  \A a \in Accounts : row[a].oid /\ row[a].status = "CLOSED"
                      => row'[a].status = "CLOSED"

\* An entry is the only one to give a row its order.
OrdersKept ==
  /\ entering' \subseteq entering
  /\ \A a \in Accounts : /\ row[a].oid => row'[a].oid
                         /\ row'[a].oid => row[a].oid \/ a \in entering

RowsSafe == LinkedRows' /\ StaysClosed /\ OrdersKept

\* update_alert_exit closes rows or leaves them.
LEMMA ExitAllCloses ==
  ASSUME row \in [Accounts -> Row], NEW a \in Accounts
  PROVE  /\ ExitAll[a].oid = row[a].oid
         /\ ExitAll[a].status = row[a].status \/ ExitAll[a].status = "CLOSED"
<1>1. row[a] \in Row /\ (ExitAll[a] = row[a] \/ ExitAll[a] = Closed(row[a]))
  BY DEF ExitAll
<1>. QED  BY <1>1, ClosedType

\* The exit webhook: one step of the proof per action.
LEMMA ExitRows ==
  ASSUME OrdersInv, NEW p \in Procs, Exit(p) \/ PaperExit(p)
  PROVE  RowEffect
<1>0. row \in [Accounts -> Row] /\ ExitOK(p)  BY DEF OrdersInv, TypeOK, Row
<1>1. CASE LoadAlert(p)  BY <1>1 DEF LoadAlert, RowEffect
<1>2. CASE MarkUnexecuted(p)
  <2>1. NoOrders  BY <1>0, <1>2 DEF ExitOK, MarkUnexecuted, At
  <2>. QED  BY <1>0, <1>2, <2>1 DEF MarkUnexecuted, Write, RowEffect, NoOrders, Row
<1>3. CASE SendClose(p)  BY <1>3 DEF SendClose, RowEffect
<1>4. CASE SaveExit(p)
  <2>1. CASE row' = row  BY <1>4, <2>1 DEF SaveExit, RowEffect
  <2>2. CASE row' = ExitAll
    <3>1. \A a \in Accounts :
            /\ row'[a].oid = row[a].oid
            /\ row'[a].status = row[a].status \/ row'[a].status = "CLOSED"
      BY <1>0, <2>2, ExitAllCloses
    <3>. QED  BY <1>4, <3>1 DEF SaveExit, RowEffect
  <2>3. CASE row' = [row EXCEPT ![job[p].tgt] = Closed(@)]
    <3>1. \A a \in Accounts : \/ row'[a] = row[a]
                              \/ a = job[p].tgt /\ row'[a] = Closed(row[a])
      BY <1>0, <2>3
    <3>2. \A a \in Accounts : row[a] \in Row  BY <1>0
    <3>. QED  BY <1>4, <3>1, <3>2, ClosedType DEF SaveExit, RowEffect
  <2>. QED  BY <1>4, <2>1, <2>2, <2>3 DEF SaveExit
<1>5. CASE FetchPnl(p)  BY <1>0, <1>5 DEF FetchPnl, RowEffect, Row
<1>6. CASE PaperExit(p)
  <2>1. ExitAll \in [Accounts -> Row]  BY <1>0, ExitAllType
  <2>2. \A a \in Accounts : row'[a].oid = row[a].oid /\ row'[a].status = "CLOSED"
    BY <1>0, <1>6, <2>1, ExitAllCloses DEF PaperExit, Row
  <2>. QED  BY <1>6, <2>2 DEF PaperExit, RowEffect
<1>. QED  BY <1>1, <1>2, <1>3, <1>4, <1>5, <1>6 DEF Exit

\* The watchdog and the reconciliation.
LEMMA SyncRows ==
  ASSUME OrdersInv, NEW p \in Procs, Watch(p) \/ Reconcile(p)
  PROVE  RowEffect
<1>0. row \in [Accounts -> Row]  BY DEF OrdersInv, TypeOK, Row
<1>1. CASE WatchPositions(p)  BY <1>1 DEF WatchPositions, RowEffect
<1>2. CASE Resolve(p)  BY <1>0, <1>2 DEF Resolve, Write, RowEffect, Row
<1>3. CASE ReconcileRow(p)  BY <1>3 DEF ReconcileRow, RowEffect
<1>4. CASE ReconcilePositions(p)  BY <1>4 DEF ReconcilePositions, RowEffect
<1>5. CASE Settle(p)
  <2>1. \/ UNCHANGED row
        \/ row' = [row EXCEPT ![job[p].tgt].status = "CLOSED", ![job[p].tgt].pnl = "broker"]
        \/ row' = [row EXCEPT ![job[p].tgt].status = "CLOSED"]
    BY <1>5 DEF Settle, Write
  <2>2. UNCHANGED entering  BY <1>5 DEF Settle
  <2>. QED  BY <1>0, <2>1, <2>2 DEF RowEffect, Row
<1>. QED  BY <1>1, <1>2, <1>3, <1>4, <1>5 DEF Watch, Reconcile

\* The API process.
LEMMA ClerkRows ==
  ASSUME OrdersInv, NEW c \in Clerks, Request(c) \/ Serve(c)
  PROVE  RowEffect
<1>0. row \in [Accounts -> Row] /\ desk[c] \in Desk
  BY DEF OrdersInv, TypeOK, Row, Desk
<1>1. CASE Request(c)  BY <1>1, RequestBegins DEF Begin, RowEffect
<1>2. CASE SendManualClose(c)  BY <1>2 DEF SendManualClose, RowEffect
<1>3. CASE SweepRows(c)  BY <1>3 DEF SweepRows, RowEffect
<1>4. CASE RecordDeal(c) \/ MarkClosed(c) \/ SweepClose(c) \/ Backfill(c)
  <2>1. PICK s \in {"deal", "mark", "stale", "pnl"}, a \in desk[c].todo : Edits(c, s, a)
    BY <1>4, ServeEdits
  <2>2. a \in Accounts  BY <1>0, <2>1 DEF Desk
  <2>3. \A b \in Accounts :
          \/ row'[b] = row[b]
          \/ /\ row'[b].oid = row[b].oid
             /\ row'[b].status = row[b].status \/ row'[b].status = "CLOSED"
    BY <1>0, <2>1, <2>2, EditRow
  <2>4. UNCHANGED entering  BY <2>1 DEF Edits, Put
  <2>. QED  BY <2>3, <2>4 DEF RowEffect
<1>. QED  BY <1>1, <1>2, <1>3, <1>4 DEF Serve

\* No step reopens the row of an order, or takes its order away.
LEMMA RowsStep ==
  ASSUME OrdersInv, [Next]_vars
  PROVE  RowsSafe
<1>0. row \in [Accounts -> Row] /\ LinkedRows  BY DEF OrdersInv, TypeOK, Row
<1>1. ASSUME RowEffect PROVE RowsSafe
  BY <1>0, <1>1 DEF RowEffect, RowsSafe, LinkedRows, StaysClosed, OrdersKept
<1>2. ASSUME UNCHANGED <<row, entering>> PROVE RowsSafe
  BY <1>1, <1>2 DEF RowEffect
<1>3. ASSUME NEW a \in Accounts, EntryLinks(a) \/ EntryFails(a) PROVE RowsSafe
  <2>1. CASE EntryLinks(a)
    BY <1>0, <2>1 DEF EntryLinks, Row, RowsSafe, LinkedRows, StaysClosed, OrdersKept
  <2>2. CASE EntryFails(a)
    BY <1>0, <2>2 DEF EntryFails, Row, RowsSafe, LinkedRows, StaysClosed, OrdersKept
  <2>. QED  BY <1>3, <2>1, <2>2
<1>4. ASSUME NEW a \in Accounts, BatchClose(a) PROVE RowEffect
  BY <1>0, <1>4 DEF BatchClose, Write, RowEffect, Row
<1>. QED
  BY <1>1, <1>2, <1>3, <1>4, ExitRows, SyncRows, ClerkRows
  DEF Next, vars, Entry, Work, BrokerCloses, DealShows, EntryFills, IgnoreExit,
      StartExit, WatchRows, StartReconciliation

\* What an exit knows survives the steps of the others,
LEMMA ExitFrame ==
  ASSUME OrdersKept, NEW q \in Procs, ExitOK(q), job'[q] = job[q]
  PROVE  ExitOK(q)'
BY DEF OrdersKept, ExitOK, NoOrders

\* and is established by the step that begins it, or goes on.
LEMMA ExitKnows ==
  ASSUME OrdersInv, OrdersKept, NoEarlyExit, NEW p \in Procs,
         StartExit(p) \/ Exit(p)
  PROVE  ExitOK(p)'
<1>0. /\ job \in [Procs -> Job] /\ job[p] \in Job
      /\ LinkedRows /\ ExitOK(p)
  BY DEF OrdersInv, TypeOK, Job
<1>1. ASSUME NEW rest, GoOn(p, "exit", rest), entering = {},
             \A t \in rest : t \in Accounts => row[t].oid
      PROVE  ExitOK(p)'
  <2>1. job'[p] = IF rest = {} THEN Idle ELSE [Idle EXCEPT !.at = "exit", !.todo = rest]
    BY <1>0, <1>1 DEF GoOn
  <2>. QED  BY <1>1, <2>1 DEF ExitOK, Idle, OrdersKept
<1>2. CASE StartExit(p)
  <2>1. entering = {}  BY <1>2 DEF StartExit, NoEarlyExit
  <2>2. \A t \in ExitTargets : t \in Accounts => row[t].oid
    BY ConstantsAssumption DEF ExitTargets, OwnersOfOrders
  <2>3. \A t \in {NoTarget} : t \in Accounts => row[t].oid
    BY ConstantsAssumption
  <2>. QED  BY <1>1, <1>2, <2>1, <2>2, <2>3 DEF StartExit
<1>3. ASSUME Exit(p) PROVE ExitOK(p)'
  <2>1. entering = {} /\ \A t \in job[p].todo : t \in Accounts => row[t].oid
    BY <1>0, <1>3
    DEF ExitOK, Exit, LoadAlert, MarkUnexecuted, SendClose, SaveExit, FetchPnl, At
  <2>2. ASSUME NEW s \in {"save", "pnl"}, job' = [job EXCEPT ![p].at = s]
        PROVE  ExitOK(p)'
    <3>1. job'[p].at = s /\ job'[p].todo = job[p].todo  BY <1>0, <2>2 DEF Job
    <3>. QED  BY <2>1, <3>1 DEF ExitOK, OrdersKept
  <2>3. CASE LoadAlert(p)
    <3>1. PICK t \in job[p].todo, b \in Accounts :
            /\ IsAlertOf(b, t)
            /\ \/ GoOn(p, "exit", job[p].todo \ {t})
               \/ Become(p, "close", job[p].todo \ {t}, t, b)
               \/ /\ row[b].status = "PENDING" /\ ~row[b].oid
                  /\ Become(p, "unexecuted", job[p].todo \ {t}, t, b)
      BY <2>3 DEF LoadAlert
    <3>2. CASE GoOn(p, "exit", job[p].todo \ {t})
      BY <1>1, <2>1, <3>2
    <3>3. CASE Become(p, "close", job[p].todo \ {t}, t, b)
      <4>1. job'[p].at = "close" /\ job'[p].todo = job[p].todo \ {t}
        BY <1>0, <3>3 DEF Become
      <4>. QED  BY <2>1, <4>1 DEF ExitOK, OrdersKept
    <3>4. CASE /\ row[b].status = "PENDING" /\ ~row[b].oid
               /\ Become(p, "unexecuted", job[p].todo \ {t}, t, b)
      <4>1. job'[p].at = "unexecuted" /\ job'[p].todo = job[p].todo \ {t}
        BY <1>0, <3>4 DEF Become
      \* A row that never was an order is read only if there is no other.
      <4>2. b \in Preferred  BY <2>1, <3>1, <3>4 DEF IsAlertOf
      <4>3. \A a \in Accounts : row[a].status \in NonExecuted
        BY <3>4, <4>2 DEF Preferred, NonExecuted
      <4>4. NoOrders
        BY <1>0, <4>3 DEF NoOrders, LinkedRows, NonExecuted, NotTargeted, Rejected
      <4>. QED  BY <2>1, <4>1, <4>4 DEF ExitOK, OrdersKept, NoOrders
    <3>. QED  BY <3>1, <3>2, <3>3, <3>4
  <2>4. CASE MarkUnexecuted(p)  BY <1>1, <2>1, <2>4 DEF MarkUnexecuted
  <2>5. CASE SendClose(p)  BY <1>1, <2>1, <2>2, <2>5 DEF SendClose
  <2>6. CASE SaveExit(p)  BY <1>1, <2>1, <2>2, <2>6 DEF SaveExit
  <2>7. CASE FetchPnl(p)  BY <1>1, <2>1, <2>7 DEF FetchPnl
  <2>. QED  BY <1>3, <2>3, <2>4, <2>5, <2>6, <2>7 DEF Exit
<1>. QED  BY <1>2, <1>3

\* The jobs that are no exit stay none.
LEMMA OtherKnows ==
  ASSUME job \in [Procs -> Job], NEW p \in Procs,
         WatchRows(p) \/ StartReconciliation(p) \/ Watch(p) \/ Reconcile(p)
  PROVE  ExitOK(p)'
<1>1. ASSUME job'[p].at \in {"idle", "watch", "resolve", "profile", "list", "settle"}
      PROVE  ExitOK(p)'
  BY <1>1 DEF ExitOK
<1>2. ASSUME NEW s \in {"resolve", "profile"}, NEW rest, GoOn(p, s, rest) PROVE ExitOK(p)'
  <2>1. job'[p] = IF rest = {} THEN Idle ELSE [Idle EXCEPT !.at = s, !.todo = rest]
    BY <1>2 DEF GoOn
  <2>. QED  BY <1>1, <2>1 DEF Idle
<1>3. ASSUME job' = [job EXCEPT ![p] = Idle] PROVE ExitOK(p)'
  BY <1>1, <1>3 DEF Idle
<1>4. CASE WatchRows(p)  BY <1>1, <1>4 DEF WatchRows, Become
<1>5. CASE StartReconciliation(p)  BY <1>2, <1>5 DEF StartReconciliation
<1>6. CASE Watch(p)  BY <1>2, <1>3, <1>6 DEF Watch, WatchPositions, Resolve
<1>7. CASE ReconcileRow(p)
  <2>1. \/ job' = [job EXCEPT ![p] = Idle]
        \/ \E rest : GoOn(p, "profile", rest)
        \/ job'[p].at = "list"
    BY <1>7 DEF ReconcileRow, Become
  <2>. QED  BY <1>1, <1>2, <1>3, <2>1
<1>8. CASE ReconcilePositions(p)
  <2>1. \/ GoOn(p, "profile", job[p].todo)
        \/ job' = [job EXCEPT ![p].at = "settle"]
    BY <1>8 DEF ReconcilePositions
  <2>2. ASSUME job' = [job EXCEPT ![p].at = "settle"] PROVE ExitOK(p)'
    BY <1>1, <2>2 DEF Job
  <2>. QED  BY <1>2, <2>1, <2>2
<1>9. CASE Settle(p)  BY <1>2, <1>9 DEF Settle
<1>. QED  BY <1>4, <1>5, <1>6, <1>7, <1>8, <1>9 DEF Reconcile

\* A step is that of one process, or of none.
LEMMA WhoseStep ==
  ASSUME job \in [Procs -> Job], [Next]_vars
  PROVE  \/ UNCHANGED job
         \/ \E p \in Procs :
              /\ StartExit(p) \/ WatchRows(p) \/ StartReconciliation(p) \/ Work(p)
              /\ \A q \in Procs \ {p} : job'[q] = job[q]
<1>1. ASSUME NEW c \in Clerks, Request(c) \/ Serve(c) PROVE UNCHANGED job
  BY <1>1, RequestBegins, ServeEdits DEF Begin, Serve, SendManualClose, SweepRows, Edits, Put
<1>2. ASSUME NEW p \in Procs,
             \/ StartExit(p) \/ WatchRows(p) \/ StartReconciliation(p) \/ Work(p)
      PROVE  \A q \in Procs \ {p} : job'[q] = job[q]
  BY <1>2
  DEF StartExit, WatchRows, StartReconciliation, Work, Exit, Watch, Reconcile,
      LoadAlert, MarkUnexecuted, SendClose, SaveExit, FetchPnl, WatchPositions,
      Resolve, ReconcileRow, ReconcilePositions, Settle, GoOn, Become
<1>. QED
  BY <1>1, <1>2
  DEF Next, vars, BrokerCloses, DealShows, Entry, EntryFills, EntryLinks,
      EntryFails, IgnoreExit, PaperExit, BatchClose

\* Hence the invariant of the rows is inductive, with every fault but one.
LEMMA OrdersInvariant == ASSUME NoEarlyExit PROVE Spec => []OrdersInv
<1>1. Init => OrdersInv
  <2> SUFFICES ASSUME Init PROVE OrdersInv
    OBVIOUS
  <2>1. LinkedRows  BY DEF Init, LinkedRows
  <2>2. \A p \in Procs : ExitOK(p)  BY DEF Init, Idle, ExitOK
  <2>. QED  BY <2>1, <2>2, InitType DEF OrdersInv
<1>2. ASSUME OrdersInv, [Next]_vars PROVE OrdersInv'
  <2>1. /\ job \in [Procs -> Job] /\ TypeOK' /\ LinkedRows' /\ OrdersKept
        /\ \A q \in Procs : ExitOK(q)
    BY <1>2, TypeStep, RowsStep DEF OrdersInv, RowsSafe, TypeOK, Job
  <2>2. ASSUME NEW q \in Procs PROVE ExitOK(q)'
    BY <1>2, <2>1, WhoseStep, ExitFrame, ExitKnows, OtherKnows DEF Work
  <2>. QED  BY <2>1, <2>2 DEF OrdersInv
<1>. QED  BY <1>1, <1>2, PTL DEF Spec

\* No writer reopens the row of an order that another writer has closed, even
\* when updates are lost, answers are wrong and requests close what is open:
\* it is enough that no exit comes before the entries of its trade are through.
THEOREM ClosedForGood == ASSUME NoEarlyExit PROVE Spec => ClosedStaysClosed
<1>1. OrdersInv /\ [Next]_vars
      => [\A a \in Accounts : row[a].oid /\ row[a].status = "CLOSED"
                              => row'[a].status = "CLOSED"]_vars
  BY RowsStep DEF RowsSafe, StaysClosed
<1>. QED  BY <1>1, OrdersInvariant, PTL DEF Spec, ClosedStaysClosed
-----------------------------------------------------------------------------
(* Positions.  The answers of the broker are true and an exit reads the    *)
(* rows it asks for: what is left is the race of the writers, and updates, *)
(* replies and histories that are lost.                                    *)

HonestFaults == Faults \subseteq {"deals", "lost_reply", "db_write"}

\* The history is true, and a PAPER trade has nothing at the broker.
BrokerSide ==
  /\ \A a \in deal : pos[a] = "closed"
  /\ mode = "PAPER" => entering = {} /\ \A a \in Accounts : pos[a] # "open"

\* An exit without a target was read when no row had an order.
TargetOK(t) == /\ t = NoTarget => NoOrders
               /\ t \in Accounts => row[t].oid

\* What a job knows from its earlier reads and is still true.
JobOK(p) ==
  /\ job[p].at \in {"exit", "unexecuted", "close", "save", "pnl"}
     => entering = {} /\ \A t \in job[p].todo : TargetOK(t)
  /\ job[p].at = "unexecuted" => NoOrders
  /\ job[p].at \in {"close", "save", "pnl"}
     => job[p].tgt \in Accounts /\ job[p].alert = job[p].tgt
  /\ job[p].at = "save" => pos[job[p].tgt] = "closed"
  /\ job[p].at \in {"profile", "list", "settle"} => job[p].todo \subseteq Accounts
  /\ job[p].at \in {"list", "settle"} => job[p].tgt \in Accounts /\ row[job[p].tgt].oid
  /\ job[p].at = "settle" => pos[job[p].tgt] # "open"

\* What a thread of the API process knows: it closes rows of orders whose
\* position is not open, and sweeps when no entry is under way.
DeskOK(c) ==
  /\ desk[c].at \in {"deal", "close", "mark", "stale"}
     => \A a \in desk[c].todo : row[a].oid
  /\ desk[c].at \in {"deal", "mark", "rows", "stale"}
     => \A a \in desk[c].todo : pos[a] # "open"
  /\ desk[c].at = "rows" => entering = {}

IInv == /\ TypeOK
        /\ LinkedRows
        /\ BrokerSide
        /\ OpenIsTracked
        /\ \A p \in Procs : JobOK(p)
        /\ \A c \in Clerks : DeskOK(c)

\* What every step respects: orders are linked only by an entry, and positions
\* opened only by one.
Monotone ==
  /\ entering' \subseteq entering
  /\ \A a \in Accounts : /\ row[a].oid => row'[a].oid
                         /\ row'[a].oid => row[a].oid \/ a \in entering
                         /\ pos[a] = "closed" => pos'[a] = "closed"
                         /\ pos'[a] = "open" => pos[a] = "open" \/ a \in entering

\* What the jobs do to rows and positions: a row changes its status only when
\* its position is not open, and a row with an order only to closed.
JobEffect ==
  /\ entering' = entering /\ mode' = mode /\ deal' = deal
  /\ \A a \in Accounts :
       /\ row'[a].oid = row[a].oid
       /\ \/ row'[a].status = row[a].status
          \/ /\ pos[a] # "open"
             /\ row'[a].status # "OPEN"
             /\ row[a].oid => row'[a].status = "CLOSED"
       /\ pos[a] = "closed" => pos'[a] = "closed"
       /\ pos'[a] = "open" => pos[a] = "open"

Safe == LinkedRows' /\ BrokerSide' /\ OpenIsTracked' /\ Monotone

\* What a job may do is safe in every state of the invariant.
LEMMA EffectSafe ==
  ASSUME IInv, JobEffect
  PROVE  Safe
<1>1. LinkedRows'  BY DEF IInv, JobEffect, LinkedRows
<1>2. BrokerSide'  BY DEF IInv, TypeOK, JobEffect, BrokerSide
<1>3. OpenIsTracked'  BY DEF IInv, JobEffect, OpenIsTracked
<1>4. Monotone  BY DEF JobEffect, Monotone
<1>. QED  BY <1>1, <1>2, <1>3, <1>4 DEF Safe

\* The exit without a target never gets to the rows of orders.
LEMMA ExitEffect ==
  ASSUME IInv, HonestFaults, NEW p \in Procs, Exit(p)
  PROVE  JobEffect
<1>. USE DEF HonestFaults
<1>0. JobOK(p) /\ row \in [Accounts -> Row] /\ job[p] \in Job
  BY DEF IInv, TypeOK, Row, Job
<1>1. CASE LoadAlert(p)  BY <1>1 DEF LoadAlert, JobEffect
<1>2. CASE MarkUnexecuted(p)
  <2>1. NoOrders /\ entering = {}  BY <1>0, <1>2 DEF JobOK, MarkUnexecuted, At
  <2>2. \A a \in Accounts : pos[a] # "open"
    BY <2>1 DEF IInv, OpenIsTracked, LinkedRows, NoOrders
  <2>. QED  BY <1>0, <1>2, <2>1, <2>2 DEF MarkUnexecuted, Write, JobEffect, NoOrders, Row
<1>3. CASE SendClose(p)
  <2>1. \A a \in Accounts : /\ pos[a] = "closed" => pos'[a] = "closed"
                            /\ pos'[a] = "open" => pos[a] = "open"
    BY <1>3 DEF SendClose, IInv, TypeOK
  <2>. QED  BY <1>3, <2>1 DEF SendClose, JobEffect
<1>4. CASE SaveExit(p)
  <2>1. /\ job[p].tgt \in Accounts /\ job[p].tgt # NoTarget
        /\ pos[job[p].tgt] = "closed"
    BY <1>0, <1>4, ConstantsAssumption DEF JobOK, SaveExit, At
  <2>2. row' = row \/ row' = [row EXCEPT ![job[p].tgt] = Closed(@)]
    BY <1>4, <2>1 DEF SaveExit
  <2>3. \A a \in Accounts : \/ row'[a] = row[a]
                            \/ a = job[p].tgt /\ row'[a] = Closed(row[a])
    BY <1>0, <2>1, <2>2
  <2>4. \A a \in Accounts : row[a] \in Row  BY <1>0
  <2>. QED  BY <1>4, <2>1, <2>3, <2>4, ClosedType
            DEF SaveExit, JobEffect
<1>5. CASE FetchPnl(p)  BY <1>0, <1>5 DEF FetchPnl, JobEffect, Row
<1>. QED  BY <1>1, <1>2, <1>3, <1>4, <1>5 DEF Exit

\* The watchdog closes rows on the word of the history only.
LEMMA WatchEffect ==
  ASSUME IInv, HonestFaults, NEW p \in Procs, Watch(p)
  PROVE  JobEffect
<1>0. row \in [Accounts -> Row]  BY DEF IInv, TypeOK, Row
<1>1. CASE WatchPositions(p)  BY <1>1 DEF WatchPositions, JobEffect
<1>2. CASE Resolve(p)
  <2>1. \/ UNCHANGED row
        \/ /\ Primary \in deal
           /\ row' = [row EXCEPT ![Primary].status = "CLOSED", ![Primary].pnl = "broker"]
    BY <1>2 DEF Resolve, Write
  <2>2. Primary \in deal => pos[Primary] # "open"  BY DEF IInv, BrokerSide
  <2>. QED  BY <1>0, <1>2, <2>1, <2>2 DEF Resolve, JobEffect, Row
<1>. QED  BY <1>1, <1>2 DEF Watch

\* The reconciliation closes rows whose position is not open, without looking again.
LEMMA ReconcileEffect ==
  ASSUME IInv, HonestFaults, NEW p \in Procs, Reconcile(p)
  PROVE  JobEffect
<1>0. JobOK(p) /\ row \in [Accounts -> Row]  BY DEF IInv, TypeOK, Row
<1>1. CASE ReconcileRow(p)  BY <1>1 DEF ReconcileRow, JobEffect
<1>2. CASE ReconcilePositions(p)  BY <1>2 DEF ReconcilePositions, JobEffect
<1>3. CASE Settle(p)
  <2>1. pos[job[p].tgt] # "open"  BY <1>0, <1>3 DEF JobOK, Settle, At
  <2>2. \/ UNCHANGED row
        \/ row' = [row EXCEPT ![job[p].tgt].status = "CLOSED", ![job[p].tgt].pnl = "broker"]
        \/ row' = [row EXCEPT ![job[p].tgt].status = "CLOSED"]
    BY <1>3 DEF Settle, Write
  <2>3. UNCHANGED <<mode, pos, deal, entering>>  BY <1>3 DEF Settle
  <2>. QED  BY <1>0, <2>1, <2>2, <2>3 DEF JobEffect, Row
<1>. QED  BY <1>1, <1>2, <1>3 DEF Reconcile


\* A PAPER exit closes rows that have no position; the rest touches no row.
LEMMA OtherEffect ==
  ASSUME IInv, NEW p \in Procs,
         \/ IgnoreExit(p) \/ PaperExit(p) \/ StartExit(p)
         \/ WatchRows(p) \/ StartReconciliation(p)
  PROVE  JobEffect
<1>1. CASE PaperExit(p)
  <2>1. \A a \in Accounts : pos[a] # "open"
    BY <1>1 DEF PaperExit, IInv, BrokerSide
  <2>2. \A a \in Accounts : row[a] \in Row  BY DEF IInv, TypeOK, Row
  <2>3. \A a \in Accounts : ExitAll[a] = row[a] \/ ExitAll[a] = Closed(row[a])
    BY DEF ExitAll
  <2>4. \A a \in Accounts : ExitAll[a] \in Row /\ ExitAll[a].oid = row[a].oid
    BY <2>2, <2>3, ClosedType
  <2>5. \A a \in Accounts : row'[a].oid = row[a].oid /\ row'[a].status = "CLOSED"
    BY <1>1, <2>4 DEF PaperExit, Row
  <2>. QED  BY <1>1, <2>1, <2>5 DEF PaperExit, JobEffect
<1>2. CASE IgnoreExit(p)  BY <1>2 DEF IgnoreExit, JobEffect
<1>3. CASE StartExit(p)  BY <1>3 DEF StartExit, JobEffect
<1>4. CASE WatchRows(p)  BY <1>4 DEF WatchRows, JobEffect
<1>5. CASE StartReconciliation(p)  BY <1>5 DEF StartReconciliation, JobEffect
<1>. QED  BY <1>1, <1>2, <1>3, <1>4, <1>5

\* A request closes the rows of positions that are not open.
LEMMA ClerkEffect ==
  ASSUME IInv, NEW c \in Clerks, Request(c) \/ Serve(c)
  PROVE  JobEffect
<1>0. /\ row \in [Accounts -> Row] /\ desk[c] \in Desk /\ DeskOK(c)
      /\ pos \in [Accounts -> {"none", "open", "closed"}]
  BY DEF IInv, TypeOK, Row, Desk
<1>1. CASE Request(c)
  BY <1>1, RequestBegins DEF Begin, JobEffect
<1>2. CASE SendManualClose(c)
  BY <1>0, <1>2 DEF SendManualClose, JobEffect
<1>3. CASE SweepRows(c)
  BY <1>3 DEF SweepRows, JobEffect
<1>4. CASE RecordDeal(c) \/ MarkClosed(c) \/ SweepClose(c) \/ Backfill(c)
  <2>1. PICK s \in {"deal", "mark", "stale", "pnl"}, a \in desk[c].todo : Edits(c, s, a)
    BY <1>4, ServeEdits
  <2>2. a \in Accounts /\ desk[c].at = s
    BY <1>0, <2>1 DEF Edits, Put, Desk
  <2>3. s # "pnl" => pos[a] # "open"
    BY <1>0, <2>1, <2>2 DEF DeskOK
  <2>4. \A b \in Accounts :
          \/ row'[b] = row[b]
          \/ b = a /\ row'[b].oid = row[b].oid
             /\ row'[b].status = (IF s = "pnl" THEN row[b].status ELSE "CLOSED")
    BY <1>0, <2>1, <2>2, EditRow
  <2>5. UNCHANGED <<mode, pos, deal, entering>>
    BY <2>1 DEF Edits, Put
  <2>. QED  BY <2>2, <2>3, <2>4, <2>5 DEF JobEffect
<1>. QED  BY <1>1, <1>2, <1>3, <1>4 DEF Serve

\* The batch action does so too, when it is asked for such a row.
LEMMA BatchEffect ==
  ASSUME IInv, HonestFaults, NEW b \in Accounts, BatchClose(b)
  PROVE  JobEffect
<1>1. pos[b] # "open" /\ UNCHANGED <<mode, pos, deal, entering>>
  BY DEF BatchClose, HonestFaults
<1>2. row \in [Accounts -> Row]  BY DEF IInv, TypeOK, Row
<1>. QED  BY <1>1, <1>2 DEF BatchClose, Write, JobEffect, Row

\* The broker and the entry thread are safe as well.
LEMMA AccountSafe ==
  ASSUME IInv, NEW b \in Accounts, BrokerCloses(b) \/ DealShows(b) \/ Entry(b)
  PROVE  Safe
<1>0. /\ row \in [Accounts -> Row] /\ pos \in [Accounts -> {"none", "open", "closed"}]
      /\ LinkedRows /\ BrokerSide /\ OpenIsTracked
  BY DEF IInv, TypeOK, Row
<1>1. CASE BrokerCloses(b)
  BY <1>0, <1>1 DEF BrokerCloses, Safe, LinkedRows, BrokerSide, OpenIsTracked,
                    Monotone
<1>2. CASE DealShows(b)
  BY <1>0, <1>2 DEF DealShows, Safe, LinkedRows, BrokerSide, OpenIsTracked,
                    Monotone
<1>3. CASE EntryFills(b)
  BY <1>0, <1>3 DEF EntryFills, Safe, LinkedRows, BrokerSide, OpenIsTracked,
                    Monotone
<1>4. CASE EntryLinks(b)
  BY <1>0, <1>4 DEF EntryLinks, Safe, LinkedRows, BrokerSide, OpenIsTracked,
                    Monotone, Row
<1>5. CASE EntryFails(b)
  BY <1>0, <1>5 DEF EntryFails, Safe, LinkedRows, BrokerSide, OpenIsTracked,
                    Monotone, Row
<1>. QED  BY <1>1, <1>2, <1>3, <1>4, <1>5 DEF Entry

\* No step loses an open position or reopens a closed row.
LEMMA StepSafe ==
  ASSUME IInv, HonestFaults, [Next]_vars
  PROVE  Safe
<1>1. CASE UNCHANGED vars
  <2>1. JobEffect  BY <1>1 DEF vars, JobEffect
  <2>. QED  BY <2>1, EffectSafe
<1>2. CASE \E a \in Accounts : BrokerCloses(a) \/ DealShows(a) \/ Entry(a)
  BY <1>2, AccountSafe
<1>3. ASSUME NEW p \in Procs,
             \/ IgnoreExit(p) \/ PaperExit(p) \/ StartExit(p)
             \/ WatchRows(p) \/ StartReconciliation(p) \/ Work(p)
      PROVE  Safe
  <2>1. JobEffect
    BY <1>3, ExitEffect, WatchEffect, ReconcileEffect, OtherEffect DEF Work
  <2>. QED  BY <2>1, EffectSafe
<1>4. CASE \E a \in Accounts : BatchClose(a)
  BY <1>4, BatchEffect, EffectSafe
<1>5. CASE \E c \in Clerks : Request(c) \/ Serve(c)
  BY <1>5, ClerkEffect, EffectSafe
<1>. QED  BY <1>1, <1>2, <1>3, <1>4, <1>5 DEF Next
-----------------------------------------------------------------------------
(* What the jobs know stays true, although the others go on meanwhile.     *)

\* A target stays right once the entries are through.
LEMMA TargetKept ==
  ASSUME Monotone, entering = {}, NEW t, TargetOK(t)
  PROVE  TargetOK(t)'
BY DEF Monotone, TargetOK, NoOrders

\* What a job knows survives the steps of the others.
LEMMA JobFrame ==
  ASSUME LinkedRows, Monotone, NEW q \in Procs, JobOK(q), job'[q] = job[q]
  PROVE  JobOK(q)'
<1>1. entering = {} => entering' = {}  BY DEF Monotone
<1>2. entering = {} => \A t : TargetOK(t) => TargetOK(t)'  BY TargetKept
<1>3. entering = {} /\ NoOrders => NoOrders'  BY DEF Monotone, NoOrders
<1>4. \A a \in Accounts : /\ row[a].oid => row'[a].oid
                          /\ pos[a] = "closed" => pos'[a] = "closed"
                          /\ row[a].oid /\ pos[a] # "open" => pos'[a] # "open"
  BY DEF LinkedRows, Monotone
<1>. QED  BY <1>1, <1>2, <1>3, <1>4 DEF JobOK

\* Going on with the list of an exit, or ending it.
LEMMA GoOnExit ==
  ASSUME job \in [Procs -> Job], NEW p \in Procs, NEW rest,
         GoOn(p, "exit", rest), Monotone, entering = {},
         \A t \in rest : TargetOK(t)
  PROVE  JobOK(p)'
<1>1. entering' = {} /\ \A t \in rest : TargetOK(t)'
  BY TargetKept DEF Monotone
<1>2. job'[p] = IF rest = {} THEN Idle ELSE [Idle EXCEPT !.at = "exit", !.todo = rest]
  BY DEF GoOn
<1>. QED  BY <1>1, <1>2 DEF JobOK, Idle

\* The same for the lists of the watchdog and the reconciliation.
LEMMA GoOnOther ==
  ASSUME job \in [Procs -> Job], NEW p \in Procs, NEW rest, NEW s \in {"resolve", "profile"},
         GoOn(p, s, rest), s = "profile" => rest \subseteq Accounts
  PROVE  JobOK(p)'
<1>1. job'[p] = IF rest = {} THEN Idle ELSE [Idle EXCEPT !.at = s, !.todo = rest]
  BY DEF GoOn
<1>. QED  BY <1>1 DEF JobOK, Idle

\* An idle process knows nothing.
LEMMA IdleOK ==
  ASSUME NEW p \in Procs, job'[p] = Idle
  PROVE  JobOK(p)'
BY DEF JobOK, Idle

\* Each step of an exit establishes what the next one needs;
LEMMA ExitJob ==
  ASSUME IInv, HonestFaults, Monotone, NEW p \in Procs, Exit(p)
  PROVE  JobOK(p)'
<1>0. /\ JobOK(p) /\ job \in [Procs -> Job] /\ job[p] \in Job
      /\ pos \in [Accounts -> {"none", "open", "closed"}]
  BY DEF IInv, TypeOK, Job
<1>a. entering = {} /\ \A t \in job[p].todo : TargetOK(t)
  BY <1>0 DEF JobOK, Exit, LoadAlert, MarkUnexecuted, SendClose, SaveExit, FetchPnl, At
<1>b. entering' = {} /\ \A t : TargetOK(t) => TargetOK(t)'
  BY <1>a, TargetKept DEF Monotone
<1>c. ASSUME GoOn(p, "exit", job[p].todo) PROVE JobOK(p)'
  BY <1>0, <1>a, <1>c, GoOnExit
<1>1. CASE LoadAlert(p)
  <2>1. PICK t \in job[p].todo, b \in Accounts :
          /\ IsAlertOf(b, t)
          /\ \/ GoOn(p, "exit", job[p].todo \ {t})
             \/ row[b].oid /\ Become(p, "close", job[p].todo \ {t}, t, b)
             \/ ~row[b].oid /\ Become(p, "unexecuted", job[p].todo \ {t}, t, b)
    BY <1>1 DEF LoadAlert
  <2>2. TargetOK(t) /\ t \in Accounts \cup {NoTarget}
    BY <1>0, <1>a, <2>1 DEF Job, Targets
  <2>3. b = t \/ t = NoTarget
    BY <2>1 DEF IsAlertOf, HonestFaults
  <2>4. \A u \in job[p].todo \ {t} : TargetOK(u) /\ TargetOK(u)'
    BY <1>a, <1>b
  <2>5. CASE GoOn(p, "exit", job[p].todo \ {t})
    BY <1>0, <1>a, <2>4, <2>5, GoOnExit
  <2>6. CASE row[b].oid /\ Become(p, "close", job[p].todo \ {t}, t, b)
    <3>1. b = t  BY <2>1, <2>2, <2>3, <2>6 DEF TargetOK, NoOrders
    <3>2. job'[p] = [at |-> "close", todo |-> job[p].todo \ {t}, tgt |-> t, alert |-> t]
      BY <1>0, <2>6, <3>1 DEF Become
    <3>. QED  BY <1>b, <2>1, <2>4, <3>1, <3>2 DEF JobOK
  <2>7. CASE ~row[b].oid /\ Become(p, "unexecuted", job[p].todo \ {t}, t, b)
    <3>1. t = NoTarget  BY <2>1, <2>2, <2>3, <2>7 DEF TargetOK
    <3>2. NoOrders'  BY <1>b, <2>2, <3>1 DEF TargetOK
    <3>3. job'[p] = [at |-> "unexecuted", todo |-> job[p].todo \ {t}, tgt |-> t, alert |-> b]
      BY <1>0, <2>7 DEF Become
    <3>. QED  BY <1>b, <2>4, <3>2, <3>3 DEF JobOK
  <2>. QED  BY <2>1, <2>5, <2>6, <2>7
<1>2. CASE MarkUnexecuted(p)  BY <1>2, <1>c DEF MarkUnexecuted
<1>3. CASE SendClose(p)
  <2>1. CASE GoOn(p, "exit", job[p].todo)  BY <2>1, <1>c
  <2>2. CASE /\ pos' = [pos EXCEPT ![job[p].alert] = "closed"]
             /\ job' = [job EXCEPT ![p].at = "save"]
    <3>1. /\ job'[p].at = "save" /\ job'[p].todo = job[p].todo
          /\ job'[p].tgt = job[p].tgt /\ job'[p].alert = job[p].alert
      BY <1>0, <2>2 DEF Job
    <3>2. job[p].tgt \in Accounts /\ job[p].alert = job[p].tgt
      BY <1>0, <1>3 DEF JobOK, SendClose, At
    <3>3. pos'[job[p].tgt] = "closed"  BY <1>0, <2>2, <3>2
    <3>. QED  BY <1>a, <1>b, <3>1, <3>2, <3>3 DEF JobOK
  <2>. QED  BY <1>3, <2>1, <2>2 DEF SendClose, HonestFaults
<1>4. CASE SaveExit(p)
  <2>1. CASE GoOn(p, "exit", job[p].todo)  BY <2>1, <1>c
  <2>2. CASE job' = [job EXCEPT ![p].at = "pnl"]
    <3>1. /\ job'[p].at = "pnl" /\ job'[p].todo = job[p].todo
          /\ job'[p].tgt = job[p].tgt /\ job'[p].alert = job[p].alert
      BY <1>0, <2>2 DEF Job
    <3>2. job[p].tgt \in Accounts /\ job[p].alert = job[p].tgt
      BY <1>0, <1>4 DEF JobOK, SaveExit, At
    <3>. QED  BY <1>a, <1>b, <3>1, <3>2 DEF JobOK
  <2>. QED  BY <1>4, <2>1, <2>2 DEF SaveExit
<1>5. CASE FetchPnl(p)  BY <1>5, <1>c DEF FetchPnl
<1>. QED  BY <1>1, <1>2, <1>3, <1>4, <1>5 DEF Exit

\* so does each step of the watchdog
LEMMA WatchJob ==
  ASSUME IInv, NEW p \in Procs, Watch(p)
  PROVE  JobOK(p)'
<1>0. job \in [Procs -> Job]  BY DEF IInv, TypeOK, Job
<1>1. CASE WatchPositions(p)
  <2>1. \/ \E rest : GoOn(p, "resolve", rest)
        \/ job'[p] = Idle
    BY <1>0, <1>1 DEF WatchPositions
  <2>. QED  BY <1>0, <2>1, GoOnOther, IdleOK
<1>2. CASE Resolve(p)
  <2>1. \E rest : GoOn(p, "resolve", rest)  BY <1>2 DEF Resolve
  <2>. QED  BY <1>0, <2>1, GoOnOther
<1>. QED  BY <1>1, <1>2 DEF Watch

\* and of the reconciliation
LEMMA ReconcileJob ==
  ASSUME IInv, Monotone, HonestFaults, NEW p \in Procs, Reconcile(p)
  PROVE  JobOK(p)'
<1>0. /\ JobOK(p) /\ job \in [Procs -> Job] /\ job[p] \in Job
  BY DEF IInv, TypeOK, Job
<1>a. job[p].todo \subseteq Accounts
  BY <1>0 DEF JobOK, Reconcile, ReconcileRow, ReconcilePositions, Settle, At
<1>1. CASE ReconcileRow(p)
  <2>1. PICK a \in job[p].todo :
          \/ job' = [job EXCEPT ![p] = Idle]
          \/ row[a].oid /\ Become(p, "list", job[p].todo \ {a}, a, a)
          \/ GoOn(p, "profile", job[p].todo \ {a})
    BY <1>1 DEF ReconcileRow
  <2>2. a \in Accounts /\ job[p].todo \ {a} \subseteq Accounts
    BY <1>a, <2>1
  <2>3. CASE job' = [job EXCEPT ![p] = Idle]
    BY <1>0, <2>3, IdleOK
  <2>4. CASE row[a].oid /\ Become(p, "list", job[p].todo \ {a}, a, a)
    <3>1. job'[p] = [at |-> "list", todo |-> job[p].todo \ {a}, tgt |-> a, alert |-> a]
      BY <1>0, <2>4 DEF Become
    <3>2. row'[a].oid  BY <2>2, <2>4 DEF Monotone
    <3>. QED  BY <2>2, <3>1, <3>2 DEF JobOK
  <2>5. CASE GoOn(p, "profile", job[p].todo \ {a})
    BY <1>0, <2>2, <2>5, GoOnOther
  <2>. QED  BY <2>1, <2>3, <2>4, <2>5
<1>2. CASE ReconcilePositions(p)
  <2>1. job[p].tgt \in Accounts /\ row[job[p].tgt].oid
    BY <1>0, <1>2 DEF JobOK, ReconcilePositions, At
  <2>2. CASE GoOn(p, "profile", job[p].todo)
    BY <1>0, <1>a, <2>2, GoOnOther
  <2>3. CASE pos[job[p].tgt] # "open" /\ job' = [job EXCEPT ![p].at = "settle"]
    <3>1. /\ job'[p].at = "settle" /\ job'[p].todo = job[p].todo
          /\ job'[p].tgt = job[p].tgt
      BY <1>0, <2>3 DEF Job
    <3>2. row' = row /\ pos' = pos  BY <1>2 DEF ReconcilePositions
    <3>. QED  BY <1>a, <2>1, <2>3, <3>1, <3>2 DEF JobOK
  <2>. QED  BY <1>2, <2>2, <2>3 DEF ReconcilePositions, HonestFaults
<1>3. CASE Settle(p)
  BY <1>0, <1>3, <1>a, GoOnOther DEF Settle
<1>. QED  BY <1>1, <1>2, <1>3 DEF Reconcile

\* and the step that begins a job.
LEMMA NewJob ==
  ASSUME IInv, HonestFaults, Monotone, NEW p \in Procs,
         StartExit(p) \/ WatchRows(p) \/ StartReconciliation(p)
  PROVE  JobOK(p)'
<1>0. job \in [Procs -> Job]  BY DEF IInv, TypeOK, Job
<1>1. CASE StartExit(p)
  <2>1. entering = {} /\ GoOn(p, "exit", ExitTargets)
    BY <1>1 DEF StartExit, HonestFaults
  <2>2. \A a \in Accounts : row[a].oid => row[a].status \notin NotTargeted
    BY DEF IInv, LinkedRows, NotTargeted, Rejected
  <2>3. \A t \in ExitTargets : TargetOK(t)
    BY <2>2, ConstantsAssumption DEF ExitTargets, OwnersOfOrders, TargetOK, NoOrders
  <2>. QED  BY <1>0, <2>1, <2>3, GoOnExit
<1>2. CASE WatchRows(p)
  <2>1. job'[p].at = "watch"  BY <1>0, <1>2 DEF WatchRows, Become
  <2>. QED  BY <2>1 DEF JobOK
<1>3. CASE StartReconciliation(p)
  BY <1>0, <1>3, GoOnOther DEF StartReconciliation
<1>. QED  BY <1>1, <1>2, <1>3

\* Hence every step keeps what every job knows.
LEMMA JobStep ==
  ASSUME IInv, HonestFaults, [Next]_vars, NEW q \in Procs
  PROVE  JobOK(q)'
<1>0. Monotone /\ LinkedRows /\ JobOK(q) /\ job \in [Procs -> Job]
  BY StepSafe DEF Safe, IInv, TypeOK, Job
<1>1. CASE job'[q] = job[q]  BY <1>0, <1>1, JobFrame
<1>2. CASE \/ StartExit(q) \/ WatchRows(q) \/ StartReconciliation(q) \/ Work(q)
  BY <1>0, <1>2, NewJob, ExitJob, WatchJob, ReconcileJob DEF Work
<1>. QED  BY <1>0, <1>1, <1>2, WhoseStep
-----------------------------------------------------------------------------
(* The same for the threads of the API process.                            *)

\* What a thread knows survives the steps of the others.
LEMMA DeskFrame ==
  ASSUME LinkedRows, Monotone, NEW q \in Clerks, desk[q] \in Desk, DeskOK(q),
         desk'[q] = desk[q]
  PROVE  DeskOK(q)'
<1>1. entering = {} => entering' = {}  BY DEF Monotone
<1>2. \A a \in Accounts :
        /\ row[a].oid => row'[a].oid
        /\ (row[a].oid \/ entering = {}) /\ pos[a] # "open" => pos'[a] # "open"
  BY DEF LinkedRows, Monotone
<1>3. desk[q].todo \subseteq Accounts  BY DEF Desk
<1>. QED  BY <1>1, <1>2, <1>3 DEF DeskOK

\* Going on with the rest of a list, or ending it.
LEMMA SitDesk ==
  ASSUME NEW c \in Clerks, desk \in [Clerks -> Desk], NEW s, NEW todo, Sit(c, s, todo),
         s \in {"deal", "close", "mark", "stale"} => \A a \in todo : row'[a].oid,
         s \in {"deal", "mark", "rows", "stale"} => \A a \in todo : pos'[a] # "open",
         s = "rows" => entering' = {}
  PROVE  DeskOK(c)'
<1>1. desk'[c] = IF todo = {} THEN Free ELSE [at |-> s, todo |-> todo]
  BY DEF Sit
<1>. QED  BY <1>1 DEF DeskOK, Free

\* A request knows at its start what its writes rest on
LEMMA RequestDesk ==
  ASSUME IInv, HonestFaults, NEW c \in Clerks, Request(c)
  PROVE  DeskOK(c)'
<1>0. desk \in [Clerks -> Desk] /\ LinkedRows /\ OpenIsTracked
  BY DEF IInv, TypeOK, Desk
<1>1. UNCHANGED <<row, pos, entering>>
  BY RequestBegins DEF Begin
<1>2. CASE HearDeal(c)
  <2>1. /\ Sit(c, "deal", {Primary}) /\ row[Primary].oid /\ pos[Primary] # "open"
    BY <1>2 DEF HearDeal, Begin, HonestFaults
  <2>. QED  BY <1>0, <1>1, <2>1, SitDesk
<1>3. CASE ManualClose(c)
  <2>1. PICK a \in Accounts : row[a].status = "OPEN" /\ Sit(c, "close", {a})
    BY <1>3 DEF ManualClose, Begin
  <2>2. row[a].oid  BY <1>0, <2>1 DEF LinkedRows
  <2>. QED  BY <1>0, <1>1, <2>1, <2>2, SitDesk
<1>4. CASE SweepPositions(c)
  <2>1. DEFINE found == {a \in Accounts : a = Primary => pos[a] # "open"}
  <2>2. /\ entering = {} /\ \A a \in Accounts \ {Primary} : row[a].status # "OPEN"
        /\ Sit(c, "rows", found)
    BY <1>4 DEF SweepPositions, Begin, HonestFaults
  <2>3. \A a \in found : pos[a] # "open"
    BY <1>0, <2>2 DEF OpenIsTracked
  <2>. QED  BY <1>0, <1>1, <2>2, <2>3, SitDesk
<1>5. CASE BackfillRows(c)
  <2>1. PICK todo : Sit(c, "pnl", todo)
    BY <1>5 DEF BackfillRows, Begin
  <2>. QED  BY <1>0, <2>1, SitDesk
<1>. QED  BY <1>2, <1>3, <1>4, <1>5 DEF Request

\* and still knows it at each of them.
LEMMA ServeDesk ==
  ASSUME IInv, HonestFaults, Monotone, NEW c \in Clerks, Serve(c)
  PROVE  DeskOK(c)'
<1>0. /\ desk \in [Clerks -> Desk] /\ desk[c] \in Desk /\ DeskOK(c) /\ LinkedRows
      /\ pos \in [Accounts -> {"none", "open", "closed"}]
  BY DEF IInv, TypeOK, Desk
<1>1. CASE SendManualClose(c)
  <2>1. PICK a \in desk[c].todo :
          /\ \/ pos' = [pos EXCEPT ![Primary] = "closed"] /\ a = Primary
             \/ pos[a] # "open" /\ UNCHANGED pos
          /\ Sit(c, "mark", {a})
    BY <1>1 DEF SendManualClose, HonestFaults
  <2>2. desk[c].at = "close" /\ row' = row  BY <1>1 DEF SendManualClose
  <2>3. row'[a].oid /\ pos'[a] # "open"
    BY <1>0, <2>1, <2>2, ConstantsAssumption DEF DeskOK
  <2>. QED  BY <1>0, <2>1, <2>3, SitDesk
<1>2. CASE SweepRows(c)
  <2>1. DEFINE open == {a \in desk[c].todo : row[a].status = "OPEN" /\ row[a].oid}
  <2>2. Sit(c, "stale", open) /\ UNCHANGED <<row, pos>> /\ \A a \in open : pos[a] # "open"
    BY <1>0, <1>2 DEF SweepRows, DeskOK
  <2>. QED  BY <1>0, <2>2, SitDesk
<1>3. CASE RecordDeal(c) \/ MarkClosed(c) \/ SweepClose(c) \/ Backfill(c)
  <2>1. PICK s \in {"deal", "mark", "stale", "pnl"}, a \in desk[c].todo : Edits(c, s, a)
    BY <1>3, ServeEdits
  <2>2. /\ desk[c].at = s /\ Sit(c, s, desk[c].todo \ {a}) /\ UNCHANGED pos
    BY <2>1 DEF Edits, Put
  <2>3. \A b \in desk[c].todo : b \in Accounts /\ (row[b].oid => row'[b].oid)
    BY <1>0 DEF Monotone, Desk
  <2>4. CASE s = "pnl"  BY <1>0, <2>2, <2>4, SitDesk
  <2>5. CASE s # "pnl"
    <3>1. \A b \in desk[c].todo : row[b].oid /\ pos[b] # "open"
      BY <1>0, <2>2, <2>5 DEF DeskOK
    <3>. QED  BY <1>0, <2>2, <2>3, <2>5, <3>1, SitDesk
  <2>. QED  BY <2>4, <2>5
<1>. QED  BY <1>1, <1>2, <1>3 DEF Serve

\* A step is that of one thread, or of none.
LEMMA WhoseRequest ==
  ASSUME desk \in [Clerks -> Desk], [Next]_vars
  PROVE  \/ UNCHANGED desk
         \/ \E c \in Clerks : /\ Request(c) \/ Serve(c)
                             /\ \A q \in Clerks \ {c} : desk'[q] = desk[q]
<1>1. ASSUME NEW a \in Accounts, BrokerCloses(a) \/ DealShows(a) \/ Entry(a) \/ BatchClose(a)
      PROVE  UNCHANGED desk
  BY <1>1 DEF BrokerCloses, DealShows, Entry, EntryFills, EntryLinks, EntryFails, BatchClose
<1>2. ASSUME NEW p \in Procs,
             \/ IgnoreExit(p) \/ PaperExit(p) \/ StartExit(p)
             \/ WatchRows(p) \/ StartReconciliation(p)
      PROVE  UNCHANGED desk
  BY <1>2 DEF IgnoreExit, PaperExit, StartExit, WatchRows, StartReconciliation
<1>3. ASSUME NEW p \in Procs, Exit(p) PROVE UNCHANGED desk
  BY <1>3 DEF Exit, LoadAlert, MarkUnexecuted, SendClose, SaveExit, FetchPnl
<1>4. ASSUME NEW p \in Procs, Watch(p) \/ Reconcile(p) PROVE UNCHANGED desk
  BY <1>4 DEF Watch, Reconcile, WatchPositions, Resolve, ReconcileRow,
              ReconcilePositions, Settle
<1>5. ASSUME NEW c \in Clerks, Request(c) \/ Serve(c)
      PROVE  \A q \in Clerks \ {c} : desk'[q] = desk[q]
  <2>1. \E s, todo : Sit(c, s, todo)
    BY <1>5, RequestBegins, ServeEdits
    DEF Begin, Serve, SendManualClose, SweepRows, Edits, Put
  <2>. QED  BY <2>1 DEF Sit
<1>6. CASE UNCHANGED vars  BY <1>6 DEF vars
<1>. QED  BY <1>1, <1>2, <1>3, <1>4, <1>5, <1>6 DEF Next, Work

\* Hence every step keeps what every thread knows.
LEMMA DeskStep ==
  ASSUME IInv, HonestFaults, [Next]_vars, NEW q \in Clerks
  PROVE  DeskOK(q)'
<1>0. /\ Monotone /\ LinkedRows /\ DeskOK(q) /\ desk \in [Clerks -> Desk]
      /\ desk[q] \in Desk
  BY StepSafe DEF Safe, IInv, TypeOK, Desk
<1>1. CASE desk'[q] = desk[q]  BY <1>0, <1>1, DeskFrame
<1>2. CASE Request(q) \/ Serve(q)  BY <1>0, <1>2, RequestDesk, ServeDesk
<1>. QED  BY <1>0, <1>1, <1>2, WhoseRequest

\* The invariant holds at first.
LEMMA InitIInv ==
  ASSUME HonestFaults, Init
  PROVE  IInv
<1>1. TypeOK  BY InitType
<1>2. LinkedRows  BY DEF Init, LinkedRows
<1>3. BrokerSide /\ OpenIsTracked
  BY DEF Init, BrokerSide, OpenIsTracked, HonestFaults
<1>4. \A p \in Procs : JobOK(p)  BY DEF Init, Idle, JobOK
<1>5. \A c \in Clerks : DeskOK(c)  BY DEF Init, Free, DeskOK
<1>. QED  BY <1>1, <1>2, <1>3, <1>4, <1>5 DEF IInv

\* Whatever the order of exit webhooks, watchdog runs, reconciliation passes and
\* closes at the broker, what a job decided on earlier still holds.
THEOREM InductiveInvariant == ASSUME HonestFaults PROVE Spec => []IInv
<1>1. IInv /\ [Next]_vars => IInv'
  BY TypeStep, StepSafe, JobStep, DeskStep DEF IInv, Safe
<1>. QED  BY <1>1, InitIInv, PTL DEF Spec

\* An open position has an OPEN row, for any number of accounts, processes and
\* exits, in every interleaving of exit, watchdog, reconciliation and broker.
THEOREM PositionsTracked == ASSUME HonestFaults PROVE Spec => []OpenIsTracked
<1>1. IInv => OpenIsTracked  BY DEF IInv
<1>. QED  BY <1>1, InductiveInvariant, PTL
=============================================================================
