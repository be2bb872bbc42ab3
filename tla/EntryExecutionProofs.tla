---------------------- MODULE EntryExecutionProofs ----------------------
(***************************************************************************)
(* Proofs about EntryExecution for every set of keys, receipts,            *)
(* deliveries, accounts and faults.                                        *)
(***************************************************************************)
EXTENDS EntryExecution, TLAPS

Row == [key : Keys \cup {NoKey}, acct : Accounts \cup {NoAccount},
        status : Statuses, oid : Orders \cup {NoOrder, PaperOrder}]

LEMMA KeyType == \A t \in Threads : Key(t) \in Keys /\ t[1] \in Deliveries
                                    /\ t[2] \in Accounts
                                    /\ RcptOf[t[1]] \in Receipts
BY ConstantsAssumption DEF Key, Threads

\* Writing a well-formed row keeps the table well-formed.
LEMMA PutType ==
  ASSUME rows \in [RowIds -> Row],
         NEW i \in RowIds, NEW k \in Keys,
         NEW a \in Accounts \cup {NoAccount}, NEW s \in Statuses
  PROVE  Put(i, k, a, s) \in [RowIds -> Row]
BY DEF Put, Row

LEMMA SetStatusType ==
  ASSUME rows \in [RowIds -> Row], NEW i, NEW s \in Statuses
  PROVE  SetStatus(i, s) \in [RowIds -> Row]
BY DEF SetStatus, Row

LEMMA SaveResultType ==
  ASSUME TypeOK, NEW t \in Threads, NEW s \in Statuses, SaveResult(t, s)
  PROVE  rows' \in [RowIds -> Row]
<1>1. rows \in [RowIds -> Row]  BY DEF TypeOK, Row
<1>2. t \in RowIds /\ RcptOf[t[1]] \in RowIds  BY KeyType DEF RowIds
<1>. QED  BY <1>1, <1>2, KeyType, PutType DEF SaveResult

LEMMA LinkedType ==
  ASSUME TypeOK, NEW t \in Threads
  PROVE  Linked(t) \in [RowIds -> Row]
<1>1. rows \in [RowIds -> Row]  BY DEF TypeOK, Row
<1>2. <<t, attempt[t]>> \in Orders  BY DEF TypeOK, Orders
<1>. SUFFICES ASSUME NEW i \in RowIds
              PROVE  [rows[i] EXCEPT !.status = "OPEN",
                                     !.oid = <<t, attempt[t]>>] \in Row
  BY <1>1 DEF Linked
<1>. QED  BY <1>1, <1>2 DEF Row, Statuses

\* trading_signals, the claims, the threads and the orders keep their types.
THEOREM TypeCorrect == Spec => []TypeOK
<1>1. Init => TypeOK
  BY ConstantsAssumption
  DEF Init, TypeOK, Absent, Statuses, Steps, Finished
<1>2. TypeOK /\ [Next]_vars => TypeOK'
  <2> SUFFICES ASSUME TypeOK, [Next]_vars PROVE TypeOK'
    OBVIOUS
  <2>0. rows \in [RowIds -> Row]  BY DEF TypeOK, Row
  <2>1. ASSUME NEW r \in Receipts, Webhook(r) PROVE TypeOK'
    <3>a. Put(r, KeyOf[r], NoAccount, "received") \in [RowIds -> Row]
      <4>1. r \in RowIds /\ KeyOf[r] \in Keys /\ "received" \in Statuses
        BY ConstantsAssumption DEF RowIds, Statuses, NonExecuted
      <4>. QED  BY <2>0, <4>1, PutType
    <3>1. rows' \in [RowIds -> Row]
      BY <2>0, <2>1, <3>a DEF Webhook
    <3>. QED  BY <2>1, <3>1 DEF Webhook, TypeOK, Row
  <2>2. ASSUME NEW d \in Deliveries, Start(d) PROVE TypeOK'
    BY <2>2, ConstantsAssumption DEF Start, AllAt, TypeOK, Steps
  <2>3. ASSUME NEW d \in Deliveries, RejectSignal(d) PROVE TypeOK'
    <3>a. /\ d \in RowIds /\ RcptOf[d] \in RowIds /\ KeyOf[RcptOf[d]] \in Keys
          /\ "rejected" \in Statuses
      BY ConstantsAssumption DEF RowIds, Statuses, NonExecuted
    <3>b. Put(d, KeyOf[RcptOf[d]], NoAccount, "rejected") \in [RowIds -> Row]
      BY <2>0, <3>a, PutType
    <3>c. SetStatus(RcptOf[d], "rejected") \in [RowIds -> Row]
      BY <2>0, <3>a, SetStatusType
    <3>1. rows' \in [RowIds -> Row]
      BY <2>0, <2>3, <3>b, <3>c DEF RejectSignal
    <3>. QED  BY <2>3, <3>1 DEF RejectSignal, AllAt, TypeOK, Row, Finished
  <2>4. ASSUME NEW d \in Deliveries, RejectForProfiles(d) PROVE TypeOK'
    BY <2>4 DEF RejectForProfiles, AllAt, TypeOK, Steps
  <2>5. ASSUME NEW d \in Deliveries, Crash(d) PROVE TypeOK'
    BY <2>5 DEF Crash, TypeOK, Finished
  <2>6. ASSUME NEW t \in Threads, Claim(t) PROVE TypeOK'
    BY <2>6, KeyType DEF Claim, Goto, TypeOK, Steps, Finished
  <2>7. ASSUME NEW t \in Threads, CheckRow(t) PROVE TypeOK'
    BY <2>7 DEF CheckRow, Goto, TypeOK, Steps, Finished
  <2>8. ASSUME NEW t \in Threads, GuardReject(t) PROVE TypeOK'
    BY <2>8 DEF GuardReject, Goto, TypeOK, Steps
  <2>9. ASSUME NEW t \in Threads, SaveRejection(t) PROVE TypeOK'
    <3>1. rows' \in [RowIds -> Row]
      BY <2>9, SaveResultType DEF SaveRejection, Statuses, NonExecuted
    <3>. QED  BY <2>9, <3>1 DEF SaveRejection, Goto, TypeOK, Row, Finished
  <2>10. ASSUME NEW t \in Threads, SaveAlert(t) PROVE TypeOK'
    <3>a. ASSUME NEW i \in RowIds, SaveAlertInto(t, i)
          PROVE  /\ rows' \in [RowIds -> Row]
                 /\ alert' \in [Threads -> RowIds \cup {NoAlert}]
      <4>1. Put(i, Key(t), t[2], "PENDING") \in [RowIds -> Row]
        BY <2>0, KeyType, PutType DEF Statuses
      <4>. QED  BY <3>a, <4>1 DEF SaveAlertInto, TypeOK
    <3>b. t \in RowIds /\ (CanUpdate(t) => sid[t[1]] \in RowIds)
      BY KeyType DEF CanUpdate, TypeOK, RowIds
    <3>1. /\ rows' \in [RowIds -> Row]
          /\ alert' \in [Threads -> RowIds \cup {NoAlert}]
      BY <2>0, <2>10, <3>a, <3>b DEF SaveAlert, TypeOK
    <3>. QED  BY <2>10, <3>1 DEF SaveAlert, SaveAlertInto, Goto, TypeOK, Row, Steps
  <2>11. ASSUME NEW t \in Threads, NoBroker(t) PROVE TypeOK'
    <3>1. rows' \in [RowIds -> Row]
      <4>1. \A r \in Row : /\ [r EXCEPT !.status = "OPEN"] \in Row
                           /\ [r EXCEPT !.oid = PaperOrder] \in Row
        BY DEF Row, Statuses
      <4>a. \A table \in [RowIds -> Row] : \A i :
              /\ [table EXCEPT ![i] = [table[i] EXCEPT !.status = "OPEN"]] \in [RowIds -> Row]
              /\ [table EXCEPT ![i] = [table[i] EXCEPT !.oid = PaperOrder]] \in [RowIds -> Row]
        BY <4>1
      <4>2. ASSUME rows' = [rows EXCEPT ![alert[t]].status = "OPEN", ![alert[t]].oid = PaperOrder]
            PROVE  rows' \in [RowIds -> Row]
        <5> DEFINE opened == [rows EXCEPT ![alert[t]] = [rows[alert[t]] EXCEPT !.status = "OPEN"]]
        <5>1. rows \in [RowIds -> Row]  BY DEF TypeOK, Row
        <5>2. opened \in [RowIds -> Row]  BY <4>a, <5>1
        <5>3. rows' = [opened EXCEPT ![alert[t]] = [opened[alert[t]] EXCEPT !.oid = PaperOrder]]
          BY <4>2
        <5> HIDE DEF opened
        <5>. QED  BY <4>a, <5>2, <5>3
      <4>3. SetStatus(alert[t], "filtered") \in [RowIds -> Row]
        BY <2>0, SetStatusType DEF Statuses, NonExecuted
      <4>. QED  BY <2>0, <2>11, <4>2, <4>3 DEF NoBroker
    <3>. QED  BY <2>11, <3>1 DEF NoBroker, Goto, TypeOK, Row, Steps, Finished
  <2>12. ASSUME NEW t \in Threads, Abandon(t) PROVE TypeOK'
    <3>1. rows' \in [RowIds -> Row]
      BY <2>0, <2>12, SetStatusType DEF Abandon, Statuses, NonExecuted
    <3>. QED  BY <2>12, <3>1 DEF Abandon, Goto, TypeOK, Row, Steps, Finished
  <2>13. ASSUME NEW t \in Threads, Post(t) PROVE TypeOK'
    <3>1. <<t, attempt[t]>> \in Orders  BY DEF TypeOK, Orders
    <3>2. orders' \subseteq Orders  BY <2>13, <3>1 DEF Post, TypeOK
    <3>3. attempt' \in [Threads -> 1..MaxAttempts]
      BY <2>13, ConstantsAssumption DEF Post, TypeOK
    <3>. QED  BY <2>13, <3>2, <3>3 DEF Post, Goto, TypeOK, Steps
  <2>14. ASSUME NEW t \in Threads, LinkFill(t) PROVE TypeOK'
    <3>1. rows' \in [RowIds -> Row]
      BY <2>0, <2>14, LinkedType DEF LinkFill
    <3>. QED  BY <2>14, <3>1 DEF LinkFill, Goto, TypeOK, Row, Steps
  <2>15. ASSUME NEW t \in Threads, RecordRefusal(t) PROVE TypeOK'
    <3>1. rows' \in [RowIds -> Row]
      BY <2>0, <2>15, SetStatusType DEF RecordRefusal, Statuses, NonExecuted
    <3>. QED  BY <2>15, <3>1 DEF RecordRefusal, Goto, TypeOK, Row, Steps
  <2>16. ASSUME NEW t \in Threads, Notify(t) PROVE TypeOK'
    BY <2>16 DEF Notify, Goto, TypeOK, Steps, Finished
  <2>17. ASSUME NEW t \in Threads, SaveFailure(t) PROVE TypeOK'
    <3>1. rows' \in [RowIds -> Row]
      BY <2>17, SaveResultType DEF SaveFailure, Statuses, NonExecuted
    <3>. QED  BY <2>17, <3>1 DEF SaveFailure, Goto, TypeOK, Row, Finished
  <2>18. ASSUME NEW k \in Keys, NEW a \in Accounts, Expire(k, a) PROVE TypeOK'
    BY <2>18 DEF Expire, TypeOK
  <2>19. CASE Watchdog
    <3>1. CASE ReadStuck  BY <3>1 DEF ReadStuck, TypeOK
    <3>2. ASSUME NEW i \in RowIds, ExpireStuck(i) PROVE TypeOK'
      <4>1. rows' \in [RowIds -> Row]
        BY <2>0, <3>2, SetStatusType DEF ExpireStuck, Statuses, NonExecuted
      <4>. QED  BY <3>2, <4>1 DEF ExpireStuck, TypeOK, Row
    <3>. QED  BY <2>19, <3>1, <3>2 DEF Watchdog
  <2>20. CASE UNCHANGED vars
    BY <2>20 DEF vars, TypeOK
  <2>. QED
    BY <2>1, <2>2, <2>3, <2>4, <2>5, <2>6, <2>7, <2>8, <2>9, <2>10, <2>11,
       <2>12, <2>13, <2>14, <2>15, <2>16, <2>17, <2>18, <2>19, <2>20
    DEF Next, Take, ThreadStep
<1>. QED  BY <1>1, <1>2, PTL DEF Spec
-----------------------------------------------------------------------------
(* The invariant behind OneOrderPerAccount.  A thread that may order owns  *)
(* a row; the row is the receipt's or the thread's own; it names the trade *)
(* and the account; and the unique index keeps two such rows apart.        *)

UniqueRows ==
  \A i, j \in RowIds :
     Live(i) /\ Live(j) /\ rows[i].key = rows[j].key /\ rows[i].acct = rows[j].acct
     => i = j

Names(table, i, t) == /\ table[i].status # "absent"
                      /\ table[i].key = Key(t)
                      /\ table[i].acct = t[2]

Owns(t) ==
  /\ alert[t] = t \/ (alert[t] = RcptOf[t[1]] /\ t[2] = First)
  /\ Names(rows, alert[t], t)

Ownership ==
  \A t \in Threads :
     /\ pc[t] \in {"submit", "filled", "refused"} => alert[t] # NoAlert
     /\ alert[t] # NoAlert => Owns(t)

Stamps == \A d \in Deliveries : sid[d] \in {RcptOf[d], NoAlert}

OrdersOwned == \A o \in orders : alert[o[1]] # NoAlert

StuckLive == \A i \in stuck : Live(i)

IInv == /\ TypeOK /\ UniqueRows /\ Ownership /\ Stamps /\ OrdersOwned
        /\ StuckLive

\* What a step may do to the table: change statuses and order ids of rows that
\* are there ...
SameShape ==
  \A i \in RowIds : /\ rows'[i].key = rows[i].key
                    /\ rows'[i].acct = rows[i].acct
                    /\ Live(i)' = Live(i)

\* ... or write one row that breaks no index, which is new or a receipt's; a
\* row of an account is written by a thread of that trade and that account.
Writer(k, a) == \E t \in Threads : /\ Key(t) = k /\ t[2] = a
                                   /\ pc'[t] \in {"submit", "done"}

WritesOne ==
  \E i \in RowIds, k \in Keys, a \in Accounts \cup {NoAccount},
     s \in Statuses \ {"absent"} :
       /\ ~Conflict(i, k, a)
       /\ Live(i) => i \in Receipts /\ a = First
       /\ i \in Receipts => k = KeyOf[i] /\ a \in {NoAccount, First}
       /\ a # NoAccount => Writer(k, a)
       /\ rows' = Put(i, k, a, s)

LEMMA SetStatusShape ==
  ASSUME TypeOK, NEW i \in RowIds, NEW s \in Statuses \ {"absent"}, Live(i),
         rows' = SetStatus(i, s)
  PROVE  SameShape
BY DEF TypeOK, SetStatus, SameShape, Live

LEMMA SaveResultShape ==
  ASSUME TypeOK, NEW t \in Threads, NEW s \in Statuses \ {"absent"},
         SaveResult(t, s), Goto(t, "done")
  PROVE  SameShape \/ WritesOne
<1>0. Writer(Key(t), t[2])  BY DEF Goto, TypeOK, Writer
<1>1. /\ t \in RowIds /\ RcptOf[t[1]] \in RowIds /\ Key(t) \in Keys
      /\ t[2] \in Accounts /\ RcptOf[t[1]] \in Receipts /\ t \notin Receipts
      /\ Key(t) = KeyOf[RcptOf[t[1]]]
  BY KeyType, ConstantsAssumption DEF RowIds, Key
<1>2. CASE UNCHANGED rows  BY <1>2 DEF SameShape, Live
<1>3. CASE /\ UsesReceipt(t)
           /\ ~Conflict(RcptOf[t[1]], Key(t), t[2])
           /\ rows' = Put(RcptOf[t[1]], Key(t), t[2], s)
  BY <1>0, <1>1, <1>3 DEF WritesOne, UsesReceipt
<1>4. CASE /\ CanInsert(t, Key(t), t[2])
           /\ rows' = Put(t, Key(t), t[2], s)
  BY <1>0, <1>1, <1>4 DEF WritesOne, CanInsert
<1>. QED  BY <1>2, <1>3, <1>4 DEF SaveResult

\* Either effect keeps the rows apart and every owned row in the hands of its
\* owner.
LEMMA ShapeKeepsRows ==
  ASSUME IInv, SameShape \/ WritesOne
  PROVE  /\ UniqueRows'
         /\ \A t \in Threads : alert[t] # NoAlert => Names(rows', alert[t], t)
<1>. USE DEF IInv
<1>0. \A t \in Threads : alert[t] # NoAlert => alert[t] \in RowIds
  BY DEF TypeOK
<1>1. CASE SameShape
  <2>1. UniqueRows'  BY <1>1 DEF SameShape, UniqueRows
  <2>2. \A t \in Threads : alert[t] # NoAlert => Names(rows', alert[t], t)
    BY <1>0, <1>1 DEF SameShape, Ownership, Owns, Names, Live
  <2>. QED  BY <2>1, <2>2
<1>2. CASE WritesOne
  <2>1. PICK i \in RowIds, k \in Keys, a \in Accounts \cup {NoAccount},
             s \in Statuses \ {"absent"} :
               /\ ~Conflict(i, k, a)
               /\ Live(i) => i \in Receipts /\ a = First
               /\ i \in Receipts => k = KeyOf[i] /\ a \in {NoAccount, First}
               /\ rows' = Put(i, k, a, s)
    BY <1>2 DEF WritesOne
  <2>2. /\ Live(i)' /\ rows'[i].key = k /\ rows'[i].acct = a
        /\ \A j \in RowIds \ {i} : rows'[j] = rows[j]
    BY <2>1 DEF TypeOK, Put, Live
  <2>3. \A j \in RowIds \ {i} : Live(j)' =>
           ~(rows'[j].key = k /\ rows'[j].acct = a)
    BY <2>1, <2>2 DEF Conflict, Live
  <2>4. UniqueRows'
    BY <2>2, <2>3 DEF UniqueRows, Live
  <2>5. ASSUME NEW t \in Threads, alert[t] # NoAlert
        PROVE  Names(rows', alert[t], t)
    <3>1. Owns(t) /\ alert[t] \in RowIds
      BY <2>5, <1>0 DEF Ownership
    <3>2. CASE alert[t] # i
      BY <2>2, <3>1, <3>2 DEF Owns, Names, Live, Key
    <3>3. CASE alert[t] = i
      <4>1. i \in Receipts /\ k = KeyOf[i] /\ a = First
        BY <2>1, <3>1, <3>3 DEF Owns, Names, Live
      <4>a. t \notin Receipts  BY ConstantsAssumption
      <4>2. i = RcptOf[t[1]] /\ t[2] = First
        BY <3>1, <3>3, <4>1, <4>a DEF Owns
      <4>. QED  BY <2>2, <3>3, <4>1, <4>2 DEF Names, Key, Live
    <3>. QED  BY <3>2, <3>3
  <2>. QED  BY <2>4, <2>5
<1>. QED  BY <1>1, <1>2

\* Every step acts on the table in one of the two ways.
LEMMA StepShape ==
  ASSUME IInv, [Next]_vars
  PROVE  SameShape \/ WritesOne
<1>. USE DEF IInv
<1>0. UNCHANGED rows => SameShape  BY DEF SameShape, Live
<1>1. ASSUME NEW r \in Receipts, Webhook(r) PROVE SameShape \/ WritesOne
  <2>1. r \in RowIds /\ KeyOf[r] \in Keys
    BY ConstantsAssumption DEF RowIds
  <2>2. "received" \in Statuses \ {"absent"}  BY DEF Statuses, NonExecuted
  <2>3. CASE /\ CanInsert(r, KeyOf[r], NoAccount)
             /\ rows' = Put(r, KeyOf[r], NoAccount, "received")
    BY <2>1, <2>2, <2>3 DEF WritesOne, CanInsert
  <2>. QED  BY <1>0, <1>1, <2>3 DEF Webhook
<1>2. ASSUME NEW d \in Deliveries, RejectSignal(d) PROVE SameShape \/ WritesOne
  <2>1. /\ d \in RowIds /\ RcptOf[d] \in RowIds /\ KeyOf[RcptOf[d]] \in Keys
        /\ "rejected" \in Statuses \ {"absent"} /\ d \notin Receipts
    BY ConstantsAssumption DEF RowIds, Statuses, NonExecuted
  <2>2. CASE Live(RcptOf[d]) /\ rows' = SetStatus(RcptOf[d], "rejected")
    BY <2>1, <2>2, SetStatusShape
  <2>3. CASE /\ CanInsert(d, KeyOf[RcptOf[d]], NoAccount)
             /\ rows' = Put(d, KeyOf[RcptOf[d]], NoAccount, "rejected")
    BY <2>1, <2>3 DEF WritesOne, CanInsert
  <2>. QED  BY <1>0, <1>2, <2>2, <2>3 DEF RejectSignal
<1>3. ASSUME NEW t \in Threads, SaveRejection(t) \/ SaveFailure(t)
      PROVE  SameShape \/ WritesOne
  BY <1>3, SaveResultShape DEF SaveRejection, SaveFailure, Statuses, NonExecuted
<1>4. ASSUME NEW t \in Threads, SaveAlert(t) PROVE SameShape \/ WritesOne
  <2>1. /\ t \in RowIds /\ RcptOf[t[1]] \in RowIds /\ Key(t) \in Keys
        /\ t[2] \in Accounts /\ RcptOf[t[1]] \in Receipts /\ t \notin Receipts
        /\ Key(t) = KeyOf[RcptOf[t[1]]] /\ t[1] \in Deliveries
    BY KeyType, ConstantsAssumption DEF RowIds, Key
  <2>2. /\ "PENDING" \in Statuses \ {"absent"}
        /\ pc' = [pc EXCEPT ![t] = "submit"] => Writer(Key(t), t[2])
    BY DEF Statuses, TypeOK, Writer
  <2>3. CASE CanUpdate(t) /\ SaveAlertInto(t, sid[t[1]])
    <3>1. sid[t[1]] = RcptOf[t[1]]  BY <2>1, <2>3 DEF CanUpdate, Stamps
    <3>. QED  BY <2>1, <2>2, <2>3, <3>1 DEF CanUpdate, SaveAlertInto, Goto, WritesOne
  <2>4. CASE CanInsert(t, Key(t), t[2]) /\ SaveAlertInto(t, t)
    BY <2>1, <2>2, <2>4 DEF SaveAlertInto, Goto, WritesOne, CanInsert
  <2>. QED  BY <1>0, <1>4, <2>3, <2>4 DEF SaveAlert
<1>5. ASSUME NEW t \in Threads, NoBroker(t) \/ Abandon(t) \/ RecordRefusal(t)
      PROVE  SameShape \/ WritesOne
  <2>1. alert[t] \in RowIds /\ Live(alert[t])
    BY <1>5 DEF NoBroker, Abandon, RecordRefusal, Ownership, Owns, Names, Live, TypeOK
  <2>2. {"filtered", "execution_cancelled", "execution_failed"}
           \subseteq Statuses \ {"absent"}
    BY DEF Statuses, NonExecuted
  <2>3. CASE rows' = [rows EXCEPT ![alert[t]].status = "OPEN",
                                  ![alert[t]].oid = PaperOrder]
    BY <2>1, <2>3 DEF SameShape, Live, TypeOK
  <2>4. CASE \E s \in {"filtered", "execution_cancelled", "execution_failed"} :
                rows' = SetStatus(alert[t], s)
    BY <2>1, <2>2, <2>4, SetStatusShape
  <2>. QED  BY <1>0, <1>5, <2>3, <2>4 DEF NoBroker, Abandon, RecordRefusal
<1>6. ASSUME NEW t \in Threads, LinkFill(t) PROVE SameShape \/ WritesOne
  <2>1. CASE rows' = Linked(t)
    <3>1. ASSUME NEW i \in RowIds
          PROVE  /\ rows'[i].key = rows[i].key /\ rows'[i].acct = rows[i].acct
                 /\ rows'[i].status = "absent" <=> rows[i].status = "absent"
      <4>1. DOMAIN rows[i] = {"key", "acct", "status", "oid"}  BY DEF TypeOK
      <4>2. CASE rows'[i] = rows[i]  BY <4>2
      <4>3. CASE /\ Live(i)
                 /\ rows'[i] = [rows[i] EXCEPT !.status = "OPEN", !.oid = <<t, attempt[t]>>]
        BY <4>1, <4>3 DEF Live
      <4>. QED  BY <2>1, <4>2, <4>3 DEF Linked
    <3>. QED  BY <3>1 DEF SameShape, Live
  <2>. QED  BY <1>0, <1>6, <2>1 DEF LinkFill
<1>7. ASSUME NEW i \in RowIds, ExpireStuck(i) PROVE SameShape \/ WritesOne
  <2>1. Live(i) /\ "execution_failed" \in Statuses \ {"absent"}
    BY <1>7 DEF ExpireStuck, StuckLive, Statuses, NonExecuted
  <2>. QED  BY <1>7, <2>1, SetStatusShape DEF ExpireStuck
<1>8. ASSUME NEW d \in Deliveries, Start(d) \/ RejectForProfiles(d) \/ Crash(d)
      PROVE  UNCHANGED rows
  BY <1>8 DEF Start, RejectForProfiles, Crash
<1>9. ASSUME NEW t \in Threads, Claim(t) \/ CheckRow(t) \/ GuardReject(t)
                                \/ Post(t) \/ Notify(t)
      PROVE  UNCHANGED rows
  BY <1>9 DEF Claim, CheckRow, GuardReject, Post, Notify
<1>10. ASSUME NEW k \in Keys, NEW a \in Accounts, Expire(k, a)
       PROVE  UNCHANGED rows
  BY <1>10 DEF Expire
<1>11. ReadStuck \/ UNCHANGED vars => UNCHANGED rows
  BY DEF ReadStuck, vars
<1>. QED
  BY <1>0, <1>1, <1>2, <1>3, <1>4, <1>5, <1>6, <1>7, <1>8, <1>9, <1>10, <1>11
  DEF Next, Take, ThreadStep, Watchdog

\* alert_id is set by save_alert alone, to a row it has just made the thread's.
LEMMA AlertStep ==
  ASSUME IInv, [Next]_vars
  PROVE  \/ UNCHANGED alert
         \/ \E t \in Threads, i \in RowIds :
              /\ alert' = [alert EXCEPT ![t] = i]
              /\ i = t \/ (i = RcptOf[t[1]] /\ t[2] = First)
              /\ rows' = Put(i, Key(t), t[2], "PENDING")
<1>1. ASSUME NEW t \in Threads, SaveAlert(t)
      PROVE  \/ UNCHANGED alert
             \/ \E i \in RowIds :
                  /\ alert' = [alert EXCEPT ![t] = i]
                  /\ i = t \/ (i = RcptOf[t[1]] /\ t[2] = First)
                  /\ rows' = Put(i, Key(t), t[2], "PENDING")
  <2>1. t \in RowIds /\ RcptOf[t[1]] \in RowIds /\ t[1] \in Deliveries
    BY KeyType DEF RowIds
  <2>2. CanUpdate(t) => sid[t[1]] = RcptOf[t[1]] /\ t[2] = First
    BY <2>1 DEF IInv, Stamps, CanUpdate
  <2>. QED  BY <1>1, <2>1, <2>2 DEF SaveAlert, SaveAlertInto
<1>2. ASSUME NEW t \in Threads, ThreadStep(t), ~SaveAlert(t)
      PROVE  UNCHANGED alert
  BY <1>2 DEF ThreadStep, Claim, CheckRow, GuardReject, SaveRejection, NoBroker,
     Abandon, Post, LinkFill, RecordRefusal, Notify, SaveFailure
<1>3. ASSUME NEW d \in Deliveries, Take(d) \/ Crash(d) PROVE UNCHANGED alert
  BY <1>3 DEF Take, Start, RejectSignal, RejectForProfiles, Crash
<1>4. ASSUME NEW r \in Receipts, Webhook(r) PROVE UNCHANGED alert
  BY <1>4 DEF Webhook
<1>5. ASSUME NEW k \in Keys, NEW a \in Accounts, Expire(k, a)
      PROVE  UNCHANGED alert
  BY <1>5 DEF Expire
<1>6. Watchdog \/ UNCHANGED vars => UNCHANGED alert
  BY DEF Watchdog, ReadStuck, ExpireStuck, vars
<1>. QED  BY <1>1, <1>2, <1>3, <1>4, <1>5, <1>6 DEF Next

\* Where a thread stands when it may order or has ordered.
Past == {"submit", "filled", "refused"}

LEMMA ReachesPast ==
  ASSUME IInv, [Next]_vars, NEW t \in Threads, pc'[t] \in Past
  PROVE  pc[t] \in Past \/ alert'[t] \in RowIds
<1>. USE DEF IInv, TypeOK
<1>1. ASSUME NEW u \in Threads, ThreadStep(u)
      PROVE  pc[t] \in Past \/ alert'[t] \in RowIds
  <2>1. CASE SaveAlert(u)
    <3>1. u \in RowIds /\ (CanUpdate(u) => sid[u[1]] \in RowIds)
      BY KeyType DEF CanUpdate, RowIds
    <3>. QED  BY <2>1, <3>1 DEF SaveAlert, SaveAlertInto, Goto, Past
  <2>2. CASE Claim(u) \/ CheckRow(u) \/ GuardReject(u) \/ SaveRejection(u)
             \/ Notify(u) \/ SaveFailure(u)
    BY <2>2 DEF Claim, CheckRow, GuardReject, SaveRejection, Notify,
       SaveFailure, Goto, Past
  <2>3. CASE NoBroker(u) \/ Abandon(u) \/ Post(u) \/ LinkFill(u)
             \/ RecordRefusal(u)
    BY <2>3 DEF NoBroker, Abandon, Post, LinkFill, RecordRefusal, Goto, Past
  <2>. QED  BY <1>1, <2>1, <2>2, <2>3 DEF ThreadStep
<1>2. ASSUME NEW d \in Deliveries, Take(d) \/ Crash(d) PROVE pc[t] \in Past
  BY <1>2 DEF Take, Start, RejectSignal, RejectForProfiles, Crash, AllAt, Past
<1>3. ASSUME UNCHANGED pc PROVE pc[t] \in Past
  BY <1>3
<1>4. ASSUME NEW r \in Receipts, Webhook(r) PROVE UNCHANGED pc
  BY <1>4 DEF Webhook
<1>5. ASSUME NEW k \in Keys, NEW a \in Accounts, Expire(k, a)
      PROVE  UNCHANGED pc
  BY <1>5 DEF Expire
<1>6. Watchdog \/ UNCHANGED vars => UNCHANGED pc
  BY DEF Watchdog, ReadStuck, ExpireStuck, vars
<1>. QED  BY <1>1, <1>2, <1>3, <1>4, <1>5, <1>6 DEF Next

\* The broker takes an order only from a thread at its POST.
LEMMA OrdersStep ==
  ASSUME [Next]_vars
  PROVE  \/ UNCHANGED orders
         \/ \E t \in Threads : /\ Post(t)
                               /\ orders' = orders \cup {<<t, attempt[t]>>}
<1>1. ASSUME NEW t \in Threads, ThreadStep(t), ~Post(t) PROVE UNCHANGED orders
  BY <1>1 DEF ThreadStep, Claim, CheckRow, GuardReject, SaveRejection, SaveAlert,
     NoBroker, Abandon, LinkFill, RecordRefusal, Notify, SaveFailure
<1>2. ASSUME NEW t \in Threads, Post(t)
      PROVE  UNCHANGED orders \/ orders' = orders \cup {<<t, attempt[t]>>}
  BY <1>2 DEF Post
<1>3. ASSUME NEW d \in Deliveries, Take(d) \/ Crash(d) PROVE UNCHANGED orders
  BY <1>3 DEF Take, Start, RejectSignal, RejectForProfiles, Crash
<1>4. ASSUME NEW r \in Receipts, Webhook(r) PROVE UNCHANGED orders
  BY <1>4 DEF Webhook
<1>5. ASSUME NEW k \in Keys, NEW a \in Accounts, Expire(k, a)
      PROVE  UNCHANGED orders
  BY <1>5 DEF Expire
<1>6. Watchdog \/ UNCHANGED vars => UNCHANGED orders
  BY DEF Watchdog, ReadStuck, ExpireStuck, vars
<1>. QED  BY <1>1, <1>2, <1>3, <1>4, <1>5, <1>6 DEF Next

LEMMA OwnershipStep ==
  ASSUME IInv, [Next]_vars, TypeOK'
  PROVE  Ownership'
<1>1. \A t \in Threads : alert[t] # NoAlert => Names(rows', alert[t], t)
  BY StepShape, ShapeKeepsRows
<1>2. ASSUME NEW t \in Threads, alert'[t] # NoAlert PROVE Owns(t)'
  <2>1. CASE alert'[t] = alert[t]
    BY <1>1, <1>2, <2>1 DEF IInv, Ownership, Owns, Names, Key
  <2>2. CASE alert'[t] # alert[t]
    <3>1. PICK u \in Threads, i \in RowIds :
            /\ alert' = [alert EXCEPT ![u] = i]
            /\ i = u \/ (i = RcptOf[u[1]] /\ u[2] = First)
            /\ rows' = Put(i, Key(u), u[2], "PENDING")
      BY <2>2, AlertStep
    <3>2. u = t /\ alert'[t] = i
      BY <2>2, <3>1 DEF IInv, TypeOK
    <3>3. /\ rows'[i].key = Key(t) /\ rows'[i].acct = t[2]
          /\ rows'[i].status = "PENDING"
      BY <3>1, <3>2 DEF Put, IInv, TypeOK
    <3>. QED  BY <3>1, <3>2, <3>3 DEF Owns, Names, Key
  <2>. QED  BY <2>1, <2>2
<1>3. ASSUME NEW t \in Threads, pc'[t] \in Past PROVE alert'[t] # NoAlert
  <2>1. CASE alert'[t] \in RowIds
    BY <2>1, ConstantsAssumption
  <2>2. CASE pc[t] \in Past
    <3>1. alert[t] # NoAlert  BY <2>2 DEF IInv, Ownership, Past
    <3>2. UNCHANGED alert \/ \E u \in Threads, i \in RowIds :
                               alert' = [alert EXCEPT ![u] = i]
      BY AlertStep
    <3>. QED  BY <3>1, <3>2, ConstantsAssumption DEF IInv, TypeOK
  <2>. QED  BY <1>3, <2>1, <2>2, ReachesPast
<1>. QED  BY <1>2, <1>3 DEF Ownership, Past

\* Nothing that was set becomes unset: an alert_id, and so the owner of an order.
LEMMA OrdersOwnedStep ==
  ASSUME IInv, [Next]_vars
  PROVE  OrdersOwned'
<1>1. \A t \in Threads : alert[t] # NoAlert => alert'[t] # NoAlert
  BY AlertStep, ConstantsAssumption DEF IInv, TypeOK
<1>2. orders \subseteq Orders  BY DEF IInv, TypeOK
<1>3. CASE UNCHANGED orders
  BY <1>1, <1>2, <1>3 DEF OrdersOwned, IInv, Orders
<1>4. ASSUME NEW t \in Threads, Post(t),
             orders' = orders \cup {<<t, attempt[t]>>}
      PROVE  OrdersOwned'
  <2>1. alert[t] # NoAlert  BY <1>4 DEF Post, IInv, Ownership
  <2>. QED  BY <1>1, <1>2, <1>4, <2>1 DEF OrdersOwned, IInv, Orders
<1>. QED  BY <1>3, <1>4, OrdersStep

LEMMA StampsStep ==
  ASSUME IInv, [Next]_vars
  PROVE  Stamps'
<1>1. ASSUME NEW d \in Deliveries, Start(d) PROVE Stamps'
  BY <1>1 DEF Start, IInv, Stamps, TypeOK
<1>2. ASSUME UNCHANGED sid PROVE Stamps'
  BY <1>2 DEF IInv, Stamps
<1>3. ASSUME NEW d \in Deliveries,
             RejectSignal(d) \/ RejectForProfiles(d) \/ Crash(d)
      PROVE  UNCHANGED sid
  BY <1>3 DEF RejectSignal, RejectForProfiles, Crash
<1>4. ASSUME NEW t \in Threads, ThreadStep(t) PROVE UNCHANGED sid
  BY <1>4 DEF ThreadStep, Claim, CheckRow, GuardReject, SaveRejection, SaveAlert,
     NoBroker, Abandon, Post, LinkFill, RecordRefusal, Notify, SaveFailure
<1>5. ASSUME NEW r \in Receipts, Webhook(r) PROVE UNCHANGED sid
  BY <1>5 DEF Webhook
<1>6. ASSUME NEW k \in Keys, NEW a \in Accounts, Expire(k, a)
      PROVE  UNCHANGED sid
  BY <1>6 DEF Expire
<1>7. Watchdog \/ UNCHANGED vars => UNCHANGED sid
  BY DEF Watchdog, ReadStuck, ExpireStuck, vars
<1>. QED  BY <1>1, <1>2, <1>3, <1>4, <1>5, <1>6, <1>7 DEF Next, Take

\* Rows are never deleted, so what the watchdog has read is still there.
LEMMA StuckLiveStep ==
  ASSUME IInv, [Next]_vars
  PROVE  StuckLive'
<1>1. \A i \in RowIds : Live(i) => Live(i)'
  <2>1. CASE SameShape  BY <2>1 DEF SameShape
  <2>2. CASE WritesOne  BY <2>2 DEF WritesOne, Put, Live, IInv, TypeOK
  <2>. QED  BY <2>1, <2>2, StepShape
<1>2. stuck' \subseteq stuck \/ stuck' = {i \in RowIds : Overdue(i)}
  <2>1. ASSUME NEW t \in Threads, ThreadStep(t) PROVE UNCHANGED stuck
    BY <2>1 DEF ThreadStep, Claim, CheckRow, GuardReject, SaveRejection,
       SaveAlert, NoBroker, Abandon, Post, LinkFill, RecordRefusal, Notify,
       SaveFailure
  <2>2. ASSUME NEW d \in Deliveries, Take(d) \/ Crash(d) PROVE UNCHANGED stuck
    BY <2>2 DEF Take, Start, RejectSignal, RejectForProfiles, Crash
  <2>3. ASSUME NEW r \in Receipts, Webhook(r) PROVE UNCHANGED stuck
    BY <2>3 DEF Webhook
  <2>4. ASSUME NEW k \in Keys, NEW a \in Accounts, Expire(k, a)
        PROVE  UNCHANGED stuck
    BY <2>4 DEF Expire
  <2>5. Watchdog \/ UNCHANGED vars =>
          stuck' \subseteq stuck \/ stuck' = {i \in RowIds : Overdue(i)}
    BY DEF Watchdog, ReadStuck, ExpireStuck, vars
  <2>. QED  BY <2>1, <2>2, <2>3, <2>4, <2>5 DEF Next
<1>3. \A i \in RowIds : Overdue(i) => Live(i)  BY DEF Overdue, Live
<1>. QED  BY <1>1, <1>2, <1>3 DEF StuckLive, IInv, TypeOK

LEMMA InductiveInvariant == Spec => []IInv
<1>1. Init => IInv
  <2>1. ASSUME Init PROVE UniqueRows /\ Ownership /\ Stamps /\ OrdersOwned /\ StuckLive
    BY <2>1 DEF Init, Absent, UniqueRows, Live, Ownership, Stamps, OrdersOwned,
       StuckLive
  <2>2. Init => TypeOK
    BY ConstantsAssumption
    DEF Init, TypeOK, Absent, Statuses, Steps, Finished
  <2>. QED  BY <2>1, <2>2 DEF IInv
<1>2. IInv /\ TypeOK' /\ [Next]_vars => IInv'
  <2> SUFFICES ASSUME IInv, TypeOK', [Next]_vars PROVE IInv'
    OBVIOUS
  <2>1. UniqueRows'  BY StepShape, ShapeKeepsRows
  <2>. QED  BY <2>1, OwnershipStep, StampsStep, OrdersOwnedStep, StuckLiveStep
            DEF IInv
<1>. QED  BY <1>1, <1>2, TypeCorrect, PTL DEF Spec

\* Every order at the broker has its row in trading_signals, under every fault
\* and however often a message is delivered.
THEOREM OrdersHaveRows == Spec => []OrderHasRow
<1>1. IInv => OrderHasRow
  <2> SUFFICES ASSUME IInv, NEW o \in orders
               PROVE  HasRow(Key(o[1]), o[1][2])
    BY DEF OrderHasRow
  <2>1. o[1] \in Threads /\ alert[o[1]] # NoAlert
    BY DEF IInv, TypeOK, Orders, OrdersOwned
  <2>2. alert[o[1]] \in RowIds /\ Names(rows, alert[o[1]], o[1])
    BY <2>1 DEF IInv, TypeOK, Ownership, Owns
  <2>. QED  BY <2>2 DEF HasRow, Names, Live
<1>. QED  BY <1>1, InductiveInvariant, PTL
-----------------------------------------------------------------------------
(* One order.  While no reply of the broker is lost a thread orders once;  *)
(* while no receipt is delivered twice two threads of one trade and one    *)
(* account would own the same row.                                         *)

After == {"filled", "notify", "raised", "done", "crashed"}

OrderedOnce ==
  \A o \in orders : o[2] = attempt[o[1]] /\ pc[o[1]] \in After

LEMMA AfterStep ==
  ASSUME IInv, [Next]_vars, NEW t \in Threads, pc[t] \in After
  PROVE  pc'[t] \in After /\ attempt'[t] = attempt[t]
<1>. USE DEF IInv, TypeOK
<1>1. ASSUME NEW u \in Threads, ThreadStep(u)
      PROVE  pc'[t] \in After /\ attempt'[t] = attempt[t]
  <2>1. CASE Claim(u) \/ CheckRow(u) \/ GuardReject(u) \/ SaveRejection(u)
    BY <2>1 DEF Claim, CheckRow, GuardReject, SaveRejection, Goto, After
  <2>2. CASE SaveAlert(u) \/ NoBroker(u) \/ Abandon(u)
    BY <2>2 DEF SaveAlert, SaveAlertInto, NoBroker, Abandon, Goto, After
  <2>3. CASE Post(u)
    BY <2>3 DEF Post, Goto, After
  <2>4. CASE LinkFill(u) \/ RecordRefusal(u) \/ Notify(u) \/ SaveFailure(u)
    BY <2>4 DEF LinkFill, RecordRefusal, Notify, SaveFailure, Goto, After
  <2>. QED  BY <1>1, <2>1, <2>2, <2>3, <2>4 DEF ThreadStep
<1>2. ASSUME NEW d \in Deliveries, Take(d)
      PROVE  pc'[t] \in After /\ attempt'[t] = attempt[t]
  <2>1. t = <<t[1], t[2]>> /\ t[2] \in Accounts  BY DEF Threads
  <2>2. t[1] # d  BY <1>2, <2>1 DEF Take, Start, RejectSignal,
                     RejectForProfiles, Waiting, After
  <2>. QED  BY <1>2, <2>2 DEF Take, Start, RejectSignal, RejectForProfiles, AllAt
<1>3. ASSUME NEW d \in Deliveries, Crash(d)
      PROVE  pc'[t] \in After /\ attempt'[t] = attempt[t]
  BY <1>3 DEF Crash, After
<1>4. ASSUME UNCHANGED <<pc, attempt>>
      PROVE  pc'[t] \in After /\ attempt'[t] = attempt[t]
  BY <1>4
<1>5. ASSUME NEW r \in Receipts, Webhook(r) PROVE UNCHANGED <<pc, attempt>>
  BY <1>5 DEF Webhook
<1>6. ASSUME NEW k \in Keys, NEW a \in Accounts, Expire(k, a)
      PROVE  UNCHANGED <<pc, attempt>>
  BY <1>6 DEF Expire
<1>7. Watchdog \/ UNCHANGED vars => UNCHANGED <<pc, attempt>>
  BY DEF Watchdog, ReadStuck, ExpireStuck, vars
<1>. QED  BY <1>1, <1>2, <1>3, <1>4, <1>5, <1>6, <1>7 DEF Next

LEMMA OrderedOnceStep ==
  ASSUME IInv, OrderedOnce, [Next]_vars, "lost_reply" \notin Faults
  PROVE  OrderedOnce'
<1>1. orders \subseteq Orders  BY DEF IInv, TypeOK
<1>2. ASSUME NEW o \in orders
      PROVE  o[2] = attempt'[o[1]] /\ pc'[o[1]] \in After
  <2>1. o[1] \in Threads  BY <1>1 DEF Orders
  <2>. QED  BY <2>1, AfterStep DEF OrderedOnce
<1>3. CASE UNCHANGED orders  BY <1>2, <1>3 DEF OrderedOnce
<1>4. ASSUME NEW t \in Threads, Post(t),
             orders' = orders \cup {<<t, attempt[t]>>}
      PROVE  OrderedOnce'
  <2>1. <<t, attempt[t]>> \notin orders
    BY <1>4 DEF OrderedOnce, Post, After
  <2>2. pc'[t] = "filled" /\ attempt' = attempt
    BY <1>4, <2>1 DEF Post, Goto, IInv, TypeOK
  <2>. QED  BY <1>2, <1>4, <2>2 DEF OrderedOnce, After
<1>. QED  BY <1>3, <1>4, OrdersStep

\* With distinct receipts an owned row has one owner.
LEMMA OneOwner ==
  ASSUME IInv, DistinctReceipts, NEW t \in Threads, NEW u \in Threads,
         alert[t] # NoAlert, alert[u] # NoAlert, Key(t) = Key(u), t[2] = u[2]
  PROVE  t = u
<1>1. /\ Owns(t) /\ Owns(u) /\ alert[t] \in RowIds /\ alert[u] \in RowIds
  BY DEF IInv, Ownership, TypeOK
<1>2. alert[t] = alert[u]
  BY <1>1 DEF IInv, UniqueRows, Owns, Names, Live
<1>3. /\ t \notin Receipts /\ u \notin Receipts
      /\ RcptOf[t[1]] \in Receipts /\ RcptOf[u[1]] \in Receipts
      /\ t[1] \in Deliveries /\ u[1] \in Deliveries
  BY KeyType, ConstantsAssumption
<1>4. CASE RcptOf[t[1]] = RcptOf[u[1]]
  <2>1. t[1] = u[1]  BY <1>3, <1>4 DEF DistinctReceipts
  <2>. QED  BY <2>1 DEF Threads
<1>. QED  BY <1>1, <1>2, <1>3, <1>4 DEF Owns

\* A trade is ordered at most once on an account: for any number of workers,
\* with Redis or the row check failing, claims that expire too early and
\* workers that die at any step, the unique index decides.
THEOREM OneOrder ==
  ASSUME DistinctReceipts, "lost_reply" \notin Faults
  PROVE  Spec => []OneOrderPerAccount
<1>1. Init => OrderedOnce  BY DEF Init, OrderedOnce
<1>2. IInv /\ OrderedOnce /\ [Next]_vars => OrderedOnce'
  BY OrderedOnceStep
<1>3. IInv /\ OrderedOnce => OneOrderPerAccount
  <2> SUFFICES ASSUME IInv, OrderedOnce, NEW o \in orders, NEW p \in orders,
                      Key(o[1]) = Key(p[1]), o[1][2] = p[1][2]
               PROVE  o = p
    BY DEF OneOrderPerAccount
  <2>1. /\ o \in Orders /\ p \in Orders
        /\ o[1] \in Threads /\ p[1] \in Threads
    BY DEF IInv, TypeOK, Orders
  <2>2. o[1] = p[1]  BY <2>1, OneOwner DEF IInv, OrdersOwned
  <2>3. o[2] = p[2]  BY <2>2 DEF OrderedOnce
  <2>. QED  BY <2>1, <2>2, <2>3 DEF Orders
<1>. QED  BY <1>1, <1>2, <1>3, InductiveInvariant, PTL DEF Spec
-----------------------------------------------------------------------------
(* The entry path implements OrderLedger.  Rows only join the ledger: an   *)
(* update moves a receipt's row to the first account, never from one       *)
(* account to another.                                                     *)

ReceiptRows ==
  \A r \in Receipts : Live(r) => /\ rows[r].key = KeyOf[r]
                                 /\ rows[r].acct \in {NoAccount, First}

LiveKeys == \A i \in RowIds : Live(i) => rows[i].key \in Keys

Recorded == {<<rows[i].key, rows[i].acct>> :
               i \in {j \in RowIds : Live(j) /\ rows[j].acct # NoAccount}}

\* Every write keeps the receipts' rows theirs and takes nothing off the ledger.
LEMMA ReceiptRowsStep ==
  ASSUME IInv, ReceiptRows, LiveKeys, [Next]_vars
  PROVE  ReceiptRows' /\ LiveKeys' /\ Recorded \subseteq Recorded'
<1>0. Receipts \subseteq RowIds /\ rows \in [RowIds -> Row]
  BY DEF RowIds, IInv, TypeOK, Row
<1>1. CASE SameShape
  <2>1. ReceiptRows' /\ LiveKeys'
    BY <1>0, <1>1 DEF SameShape, ReceiptRows, LiveKeys
  <2>2. \A i \in RowIds : Live(i) => Live(i)' /\ rows'[i].key = rows[i].key
                                              /\ rows'[i].acct = rows[i].acct
    BY <1>1 DEF SameShape
  <2>. QED  BY <2>1, <2>2 DEF Recorded
<1>2. CASE WritesOne
  <2>1. PICK i \in RowIds, k \in Keys, a \in Accounts \cup {NoAccount},
             s \in Statuses \ {"absent"} :
               /\ ~Conflict(i, k, a)
               /\ Live(i) => i \in Receipts /\ a = First
               /\ i \in Receipts => k = KeyOf[i] /\ a \in {NoAccount, First}
               /\ rows' = Put(i, k, a, s)
    BY <1>2 DEF WritesOne
  <2>2. /\ Live(i)' /\ rows'[i].key = k /\ rows'[i].acct = a
        /\ \A j \in RowIds \ {i} : rows'[j] = rows[j]
    BY <1>0, <2>1 DEF Put, Live
  <2>3. ReceiptRows' /\ LiveKeys'
    BY <1>0, <2>1, <2>2 DEF ReceiptRows, LiveKeys, Live
  <2>4. Live(i) /\ rows[i].acct # NoAccount
        => rows'[i].key = rows[i].key /\ rows'[i].acct = rows[i].acct
    BY <2>1, <2>2 DEF ReceiptRows
  <2>5. \A j \in RowIds : Live(j) /\ rows[j].acct # NoAccount
                          => /\ Live(j)' /\ rows'[j].key = rows[j].key
                             /\ rows'[j].acct = rows[j].acct
    BY <2>2, <2>4 DEF Live
  <2>. QED  BY <2>3, <2>5 DEF Recorded
<1>. QED  BY <1>1, <1>2, StepShape

\* A step that orders nothing is Record (perhaps of nothing new).
LEMMA RecordStep ==
  ASSUME Recorded \subseteq Recorded', Recorded' \subseteq Keys \X Accounts,
         UNCHANGED orders
  PROVE  Ledger!Record
<1>1. Recorded' = Recorded \cup Recorded' /\ Recorded' \in SUBSET (Keys \X Accounts)
  OBVIOUS
<1>. QED  BY <1>1 DEF Ledger!Record, Recorded, Key

\* A POST that reaches the broker is Place.
LEMMA PlaceStep ==
  ASSUME IInv, OrderedOnce, OneOrderPerAccount', NEW t \in Threads, Post(t),
         orders' = orders \cup {<<t, attempt[t]>>}
  PROVE  Ledger!Place
<1>1. /\ t[2] \in Accounts /\ Key(t) \in Keys /\ <<t, attempt[t]>> \in Orders
      /\ rows' = rows /\ pc[t] = "submit"
  BY KeyType DEF IInv, TypeOK, Orders, Post
<1>2. <<Key(t), t[2]>> \in Recorded
  <2>1. alert[t] \in RowIds /\ Names(rows, alert[t], t)
    BY <1>1 DEF IInv, TypeOK, Ownership, Owns
  <2>2. t[2] # NoAccount  BY <1>1, ConstantsAssumption
  <2>. QED  BY <2>1, <2>2 DEF Recorded, Names, Live
<1>3. <<t, attempt[t]>> \notin orders
  BY <1>1 DEF OrderedOnce, After
<1>4. \A q \in orders : <<Key(q[1]), q[1][2]>> # <<Key(t), t[2]>>
  BY <1>3 DEF OneOrderPerAccount, Key
<1>5. Recorded' = Recorded  BY <1>1 DEF Recorded, Live
<1>6. {<<Key(o[1]), o[1][2], o>> : o \in orders'}
      = {<<Key(o[1]), o[1][2], o>> : o \in orders}
        \cup {<<Key(t), t[2], <<t, attempt[t]>> >>}
  OBVIOUS
<1>7. \A p \in {<<Key(o[1]), o[1][2], o>> : o \in orders} :
        <<p[1], p[2]>> # <<Key(t), t[2]>>
  BY <1>4
<1>. QED  BY <1>1, <1>2, <1>5, <1>6, <1>7 DEF Ledger!Place, Recorded, Key

\* Whatever fails or runs concurrently, the rows and the broker's orders behave
\* as the ledger: an order only for a recorded trade, and none twice.
THEOREM LedgerImplemented ==
  ASSUME DistinctReceipts, "lost_reply" \notin Faults
  PROVE  Spec => ImplementsLedger
<1>1. Init => Ledger!Init /\ ReceiptRows /\ LiveKeys /\ OrderedOnce
  <2> SUFFICES ASSUME Init
               PROVE  Ledger!Init /\ ReceiptRows /\ LiveKeys /\ OrderedOnce
    OBVIOUS
  <2>1. \A i \in RowIds : ~Live(i)  BY DEF Init, Absent, Live
  <2>2. ReceiptRows /\ LiveKeys  BY <2>1 DEF ReceiptRows, LiveKeys, RowIds
  <2>. QED  BY <2>1, <2>2 DEF Init, Ledger!Init, OrderedOnce
<1>2. IInv /\ ReceiptRows /\ LiveKeys /\ [Next]_vars => ReceiptRows' /\ LiveKeys'
  BY ReceiptRowsStep
<1>3. IInv /\ OrderedOnce /\ [Next]_vars => OrderedOnce'
  BY OrderedOnceStep
<1>4. IInv /\ IInv' /\ ReceiptRows /\ LiveKeys /\ OrderedOnce /\ OneOrderPerAccount'
      /\ [Next]_vars => [Ledger!Next]_(Ledger!lvars)
  <2> SUFFICES ASSUME IInv, IInv', ReceiptRows, LiveKeys, OrderedOnce,
                      OneOrderPerAccount', [Next]_vars
               PROVE  Ledger!Next
    OBVIOUS
  <2>1. CASE UNCHANGED orders
    <3>1. Recorded \subseteq Recorded' /\ LiveKeys'  BY ReceiptRowsStep
    <3>2. Recorded' \subseteq Keys \X Accounts
      BY <3>1 DEF IInv, TypeOK, LiveKeys, Recorded
    <3>. QED  BY <2>1, <3>1, <3>2, RecordStep DEF Ledger!Next
  <2>2. ASSUME NEW t \in Threads, Post(t),
               orders' = orders \cup {<<t, attempt[t]>>}
        PROVE  Ledger!Next
    BY <2>2, PlaceStep DEF Ledger!Next
  <2>. QED  BY <2>1, <2>2, OrdersStep
<1>. QED
  BY <1>1, <1>2, <1>3, <1>4, InductiveInvariant, OneOrder, PTL
  DEF Spec, ImplementsLedger, Ledger!Spec
-----------------------------------------------------------------------------
(* Duplicates.  Whoever is in the way of a delivery got hold of the trade: *)
(* the claim is held, and the row was written, by a thread that goes on.   *)

\* Where a thread stands once it may have written a row of its account.
Late == {"submit", "filled", "refused", "raised", "notify", "done"}

Same(t, u) == Key(t) = Key(u) /\ t[2] = u[2]

RowsWritten ==
  \A i \in RowIds : Live(i) /\ rows[i].acct # NoAccount =>
     \E w \in Threads : /\ Key(w) = rows[i].key /\ w[2] = rows[i].acct
                        /\ pc[w] \in Late

ClaimsHeld ==
  \A p \in lock : \E w \in Threads : <<Key(w), w[2]>> = p /\ Holds(w)

LEMMA LateHolds == \A w : pc[w] \in Late => Holds(w)
BY DEF Late, Holds, Steps

\* What a step does to where the threads are: one thread moves on, or all of a
\* delivery that waited.
LEMMA PcStep ==
  ASSUME TypeOK, [Next]_vars, "crash" \notin Faults
  PROVE  \/ UNCHANGED pc
         \/ \E t \in Threads : /\ ThreadStep(t)
                               /\ \A u \in Threads \ {t} : pc'[u] = pc[u]
         \/ \A u \in Threads : pc'[u] = pc[u] \/ pc[u] = "queued"
<1>1. ASSUME NEW t \in Threads, ThreadStep(t)
      PROVE  \A u \in Threads \ {t} : pc'[u] = pc[u]
  BY <1>1 DEF TypeOK, ThreadStep, Claim, CheckRow, GuardReject, SaveRejection, SaveAlert,
     SaveAlertInto, NoBroker, Abandon, Post, LinkFill, RecordRefusal, Notify, SaveFailure,
     Goto
<1>2. ASSUME NEW d \in Deliveries, Take(d)
      PROVE  \A u \in Threads : pc'[u] = pc[u] \/ pc[u] = "queued"
  <2>1. \A u \in Threads : u = <<u[1], u[2]>> /\ u[2] \in Accounts  BY DEF Threads
  <2>2. \A u \in Threads : u[1] = d => pc[u] = "queued"
    BY <1>2, <2>1 DEF Take, Start, RejectSignal, RejectForProfiles, Waiting
  <2>. QED  BY <1>2, <2>2 DEF Take, Start, RejectSignal, RejectForProfiles, AllAt
<1>3. ASSUME NEW d \in Deliveries, Crash(d) PROVE FALSE
  BY <1>3 DEF Crash
<1>4. ASSUME NEW r \in Receipts, Webhook(r) PROVE UNCHANGED pc
  BY <1>4 DEF Webhook
<1>5. ASSUME NEW k \in Keys, NEW a \in Accounts, Expire(k, a)
      PROVE  UNCHANGED pc
  BY <1>5 DEF Expire
<1>6. Watchdog \/ UNCHANGED vars => UNCHANGED pc
  BY DEF Watchdog, ReadStuck, ExpireStuck, vars
<1>. QED  BY <1>1, <1>2, <1>3, <1>4, <1>5, <1>6 DEF Next

LEMMA LateStays ==
  ASSUME TypeOK, [Next]_vars, "crash" \notin Faults, NEW w \in Threads, pc[w] \in Late
  PROVE  pc'[w] \in Late
<1>1. ASSUME ThreadStep(w) PROVE pc'[w] \in Late
  BY <1>1 DEF TypeOK, ThreadStep, Claim, CheckRow, GuardReject, SaveRejection, SaveAlert,
     SaveAlertInto, NoBroker, Abandon, Post, LinkFill, RecordRefusal, Notify, SaveFailure,
     Goto, Late
<1>2. pc[w] # "queued"  BY DEF Late
<1>. QED  BY <1>1, <1>2, PcStep

\* A thread that holds the trade goes on holding it, unless it finds a row at
\* its check: then the one who wrote the row holds it.
LEMMA HolderStays ==
  ASSUME TypeOK, RowsWritten, [Next]_vars, "crash" \notin Faults,
         NEW w \in Threads, Holds(w)
  PROVE  \E v \in Threads : Same(v, w) /\ Holds(v)'
<1>1. CASE pc[w] \in Late
  <2>1. pc'[w] \in Late  BY <1>1, LateStays
  <2>. QED  BY <2>1 DEF Late, Holds, Steps, Same
<1>2. CASE pc[w] \in {"check", "guard", "reject"}
  <2>1. CASE CheckRow(w) /\ HasRow(Key(w), w[2])
    <3>1. PICK i \in RowIds : Live(i) /\ rows[i].key = Key(w) /\ rows[i].acct = w[2]
      BY <2>1 DEF HasRow
    <3>2. w[2] # NoAccount  BY KeyType, ConstantsAssumption
    <3>3. PICK v \in Threads : Key(v) = Key(w) /\ v[2] = w[2] /\ pc[v] \in Late
      BY <3>1, <3>2 DEF RowsWritten
    <3>4. pc'[v] \in Late  BY <3>3, LateStays
    <3>. QED  BY <3>3, <3>4 DEF Late, Holds, Steps, Same
  <2>2. CASE ThreadStep(w) /\ ~(CheckRow(w) /\ HasRow(Key(w), w[2]))
    <3>1. pc'[w] \in Late \cup {"guard", "reject"}
      BY <1>2, <2>2 DEF TypeOK, ThreadStep, Claim, CheckRow, GuardReject, SaveRejection,
         SaveAlert, SaveAlertInto, NoBroker, Abandon, Post, LinkFill, RecordRefusal, Notify,
         SaveFailure, Goto, Late
    <3>. QED  BY <3>1 DEF Late, Holds, Steps, Same
  <2>3. CASE pc'[w] = pc[w]
    BY <2>3 DEF Holds, Same
  <2>. QED  BY <1>2, <2>1, <2>2, <2>3, PcStep DEF ThreadStep
<1>. QED  BY <1>1, <1>2 DEF Holds, Steps, Late

\* A thread leaves the queue for the claim, the rejection or the end.
LEMMA QueuedStep ==
  ASSUME TypeOK, [Next]_vars, NEW t \in Threads, pc[t] = "queued"
  PROVE  pc'[t] \in {"queued", "claim", "reject", "done"}
<1>1. ASSUME NEW u \in Threads, ThreadStep(u) PROVE pc'[t] = "queued"
  BY <1>1 DEF TypeOK, ThreadStep, Claim, CheckRow, GuardReject, SaveRejection, SaveAlert,
     SaveAlertInto, NoBroker, Abandon, Post, LinkFill, RecordRefusal, Notify, SaveFailure,
     Goto
<1>2. ASSUME NEW d \in Deliveries, Take(d) \/ Crash(d)
      PROVE  pc'[t] \in {"queued", "claim", "reject", "done"}
  BY <1>2 DEF Take, Start, RejectSignal, RejectForProfiles, Crash, AllAt, Steps
<1>3. ASSUME NEW r \in Receipts, Webhook(r) PROVE UNCHANGED pc
  BY <1>3 DEF Webhook
<1>4. ASSUME NEW k \in Keys, NEW a \in Accounts, Expire(k, a)
      PROVE  UNCHANGED pc
  BY <1>4 DEF Expire
<1>5. Watchdog \/ UNCHANGED vars => UNCHANGED pc
  BY DEF Watchdog, ReadStuck, ExpireStuck, vars
<1>. QED  BY <1>1, <1>2, <1>3, <1>4, <1>5 DEF Next

LEMMA RowsWrittenStep ==
  ASSUME IInv, RowsWritten, [Next]_vars, "crash" \notin Faults
  PROVE  RowsWritten'
<1>1. ASSUME NEW i \in RowIds, Live(i), rows[i].acct # NoAccount
      PROVE  \E w \in Threads : /\ Key(w) = rows[i].key /\ w[2] = rows[i].acct
                                /\ pc'[w] \in Late
  BY <1>1, LateStays DEF RowsWritten, IInv
<1>2. CASE SameShape
  <2>1. \A i \in RowIds : Live(i)' => Live(i)  BY <1>2 DEF SameShape
  <2>. QED  BY <1>1, <1>2, <2>1 DEF SameShape, RowsWritten, Key
<1>3. CASE WritesOne
  <2>1. PICK i \in RowIds, k \in Keys, a \in Accounts \cup {NoAccount},
             s \in Statuses \ {"absent"} :
               /\ a # NoAccount => Writer(k, a)
               /\ rows' = Put(i, k, a, s)
    BY <1>3 DEF WritesOne
  <2>2. /\ rows'[i].key = k /\ rows'[i].acct = a
        /\ \A j \in RowIds \ {i} : rows'[j] = rows[j]
    BY <2>1 DEF IInv, TypeOK, Put
  <2>3. a # NoAccount =>
           \E w \in Threads : Key(w) = k /\ w[2] = a /\ pc'[w] \in Late
    BY <2>1 DEF Writer, Late
  <2>. QED  BY <1>1, <2>2, <2>3 DEF RowsWritten, Live, Key
<1>. QED  BY <1>2, <1>3, StepShape

\* A key is in Redis because a thread put it there, and that thread went on.
LEMMA ClaimsHeldStep ==
  ASSUME IInv, RowsWritten, ClaimsHeld, [Next]_vars, "crash" \notin Faults
  PROVE  ClaimsHeld'
<1>1. ASSUME NEW p \in lock
      PROVE  \E w \in Threads : <<Key(w), w[2]>> = p /\ Holds(w)'
  <2>1. PICK w \in Threads : <<Key(w), w[2]>> = p /\ Holds(w)
    BY <1>1 DEF ClaimsHeld
  <2>. QED  BY <2>1, HolderStays DEF IInv, Same
<1>2. CASE lock' \subseteq lock
  BY <1>1, <1>2 DEF ClaimsHeld, Key
<1>3. ASSUME NEW t \in Threads, Goto(t, "check"),
             lock' = lock \cup {<<Key(t), t[2]>>}
      PROVE  ClaimsHeld'
  <2>1. Holds(t)'  BY <1>3 DEF Goto, Holds, Steps, IInv, TypeOK
  <2>. QED  BY <1>1, <1>3, <2>1 DEF ClaimsHeld, Key
<1>4. ASSUME NEW t \in Threads, ThreadStep(t)
      PROVE  \/ lock' \subseteq lock
             \/ Goto(t, "check") /\ lock' = lock \cup {<<Key(t), t[2]>>}
  BY <1>4 DEF ThreadStep, Claim, CheckRow, GuardReject, SaveRejection, SaveAlert,
     NoBroker, Abandon, Post, LinkFill, RecordRefusal, Notify, SaveFailure
<1>5. ASSUME NEW d \in Deliveries, Take(d) \/ Crash(d) PROVE lock' \subseteq lock
  BY <1>5 DEF Take, Start, RejectSignal, RejectForProfiles, Crash
<1>6. ASSUME NEW r \in Receipts, Webhook(r) PROVE lock' \subseteq lock
  BY <1>6 DEF Webhook
<1>7. ASSUME NEW k \in Keys, NEW a \in Accounts, Expire(k, a)
      PROVE  lock' \subseteq lock
  BY <1>7 DEF Expire
<1>8. Watchdog \/ UNCHANGED vars => lock' \subseteq lock
  BY DEF Watchdog, ReadStuck, ExpireStuck, vars
<1>. QED  BY <1>2, <1>3, <1>4, <1>5, <1>6, <1>7, <1>8 DEF Next

Skips == {"skip_lock", "skip_row"}

\* A thread that is about to be skipped finds another one in its way: it does
\* not hold the trade itself, and has written nothing.
LEMMA SkippedStep ==
  ASSUME IInv, RowsWritten, ClaimsHeld, SkippedOnlyIfHandled, [Next]_vars,
         "crash" \notin Faults
  PROVE  SkippedOnlyIfHandled'
<1> SUFFICES ASSUME NEW t \in Threads, pc'[t] \in Skips
             PROVE  \E u \in Threads : Same(u, t) /\ Holds(u)'
  <2>1. \A t \in Threads : pc'[t] \in Skips => ~Holds(t)'
    BY DEF Skips, Holds, Steps
  <2>. QED  BY <2>1 DEF SkippedOnlyIfHandled, SameTrade, Same, Skips, Key
<1> SUFFICES ASSUME \A u \in Threads : Same(u, t) => ~Holds(u)
             PROVE  \E u \in Threads : Same(u, t) /\ Holds(u)'
  BY HolderStays DEF IInv, Same
<1>1. pc[t] \notin Skips
  BY DEF SkippedOnlyIfHandled, SameTrade, Same, Skips
<1>2. ThreadStep(t)
  <2>1. pc'[t] # pc[t] /\ (pc[t] = "queued" => pc'[t] \notin Skips)
    BY <1>1, QueuedStep DEF IInv, Skips
  <2>. QED  BY <2>1, PcStep DEF IInv
<1>3. CASE Claim(t) /\ <<Key(t), t[2]>> \in lock
  BY <1>3 DEF ClaimsHeld, Same
<1>4. CASE CheckRow(t) /\ HasRow(Key(t), t[2])
  <2>1. PICK i \in RowIds : Live(i) /\ rows[i].key = Key(t) /\ rows[i].acct = t[2]
    BY <1>4 DEF HasRow
  <2>2. t[2] # NoAccount  BY KeyType, ConstantsAssumption
  <2>. QED  BY <2>1, <2>2, LateHolds DEF RowsWritten, Same
<1>. QED
  BY <1>1, <1>2, <1>3, <1>4 DEF ThreadStep, Claim, CheckRow, GuardReject, SaveRejection,
     SaveAlert, SaveAlertInto, NoBroker, Abandon, Post, LinkFill, RecordRefusal, Notify,
     SaveFailure, Goto, IInv, TypeOK, Skips

\* No signal is dropped as a duplicate of nothing: whenever a delivery is
\* skipped, by the Redis key or by the row, another one of the same trade and
\* account is at work on it or has finished with it, however Redis, the
\* database and the broker behave, as long as no worker process dies.
THEOREM SkipsAreHandled ==
  ASSUME "crash" \notin Faults
  PROVE  Spec => []SkippedOnlyIfHandled
<1>1. Init => RowsWritten /\ ClaimsHeld /\ SkippedOnlyIfHandled
  BY DEF Init, RowsWritten, ClaimsHeld, SkippedOnlyIfHandled, Live, Absent
<1>2. IInv /\ RowsWritten /\ ClaimsHeld /\ SkippedOnlyIfHandled /\ [Next]_vars
      => RowsWritten' /\ ClaimsHeld' /\ SkippedOnlyIfHandled'
  BY RowsWrittenStep, ClaimsHeldStep, SkippedStep
<1>. QED  BY <1>1, <1>2, InductiveInvariant, PTL DEF Spec
-----------------------------------------------------------------------------
(* Open rows.  A row with a live order is in the hands of the thread that  *)
(* ordered, which is past every write; nobody else owns it; and what the   *)
(* watchdog has read belongs to threads that have ended.                   *)

Early == {"queued", "claim", "check", "guard", "reject", "skip_lock", "skip_row"}

Ended == {"notify", "done", "crashed"}

EarlyInv == \A t \in Threads : pc[t] \in Early => alert[t] = NoAlert

PendingOwned ==
  \A i \in RowIds : rows[i].status = "PENDING" => \E t \in Threads : alert[t] = i

StuckInv ==
  \A i \in stuck : /\ rows[i].oid \notin Orders
                   /\ \E t \in Threads : alert[t] = i /\ pc[t] \in Finished

LiveInv ==
  \A i \in RowIds : rows[i].oid \in Orders =>
     /\ alert[rows[i].oid[1]] = i
     /\ rows[i].status = "OPEN"
     /\ pc[rows[i].oid[1]] \in Ended

OpenInv == EarlyInv /\ PendingOwned /\ StuckInv /\ LiveInv

\* A thread's row is set once, by its save_alert.
LEMMA AlertChange ==
  ASSUME TypeOK, [Next]_vars, NEW t \in Threads, alert'[t] # alert[t]
  PROVE  SaveAlert(t)
<1>1. ASSUME NEW u \in Threads, SaveAlert(u) PROVE SaveAlert(t)
  BY <1>1 DEF SaveAlert, SaveAlertInto, TypeOK
<1>2. ASSUME NEW u \in Threads, ThreadStep(u), ~SaveAlert(u) PROVE UNCHANGED alert
  BY <1>2 DEF ThreadStep, Claim, CheckRow, GuardReject, SaveRejection, NoBroker,
     Abandon, Post, LinkFill, RecordRefusal, Notify, SaveFailure
<1>3. ASSUME NEW d \in Deliveries, Take(d) \/ Crash(d) PROVE UNCHANGED alert
  BY <1>3 DEF Take, Start, RejectSignal, RejectForProfiles, Crash
<1>4. ASSUME NEW r \in Receipts, Webhook(r) PROVE UNCHANGED alert
  BY <1>4 DEF Webhook
<1>5. ASSUME NEW k \in Keys, NEW a \in Accounts, Expire(k, a)
      PROVE  UNCHANGED alert
  BY <1>5 DEF Expire
<1>6. Watchdog \/ UNCHANGED vars => UNCHANGED alert
  BY DEF Watchdog, ReadStuck, ExpireStuck, vars
<1>. QED  BY <1>1, <1>2, <1>3, <1>4, <1>5, <1>6 DEF Next

LEMMA AlertKept ==
  ASSUME TypeOK, EarlyInv, [Next]_vars, NEW t \in Threads, alert[t] # NoAlert
  PROVE  alert'[t] = alert[t]
BY AlertChange DEF EarlyInv, Early, SaveAlert

\* A thread that has ended stays where it is.
LEMMA FinishedStays ==
  ASSUME TypeOK, [Next]_vars, NEW t \in Threads, pc[t] \in Finished
  PROVE  pc'[t] = pc[t]
<1>1. ASSUME NEW u \in Threads, ThreadStep(u) PROVE pc'[t] = pc[t]
  BY <1>1 DEF TypeOK, ThreadStep, Claim, CheckRow, GuardReject, SaveRejection, SaveAlert,
     SaveAlertInto, NoBroker, Abandon, Post, LinkFill, RecordRefusal, Notify, SaveFailure,
     Goto, Finished
<1>2. ASSUME NEW d \in Deliveries, Take(d) PROVE pc'[t] = pc[t]
  <2>1. t = <<t[1], t[2]>> /\ t[2] \in Accounts  BY DEF Threads
  <2>2. t[1] # d
    BY <1>2, <2>1 DEF Take, Start, RejectSignal, RejectForProfiles, Waiting, Finished
  <2>. QED  BY <1>2, <2>2 DEF Take, Start, RejectSignal, RejectForProfiles, AllAt, TypeOK
<1>3. ASSUME NEW d \in Deliveries, Crash(d) PROVE pc'[t] = pc[t]
  BY <1>3 DEF Crash, Finished, Steps
<1>4. ASSUME NEW r \in Receipts, Webhook(r) PROVE pc'[t] = pc[t]
  BY <1>4 DEF Webhook
<1>5. ASSUME NEW k \in Keys, NEW a \in Accounts, Expire(k, a) PROVE pc'[t] = pc[t]
  BY <1>5 DEF Expire
<1>6. Watchdog \/ UNCHANGED vars => pc'[t] = pc[t]
  BY DEF Watchdog, ReadStuck, ExpireStuck, vars
<1>. QED  BY <1>1, <1>2, <1>3, <1>4, <1>5, <1>6 DEF Next

\* What is left to a thread whose order the broker has.
LEMMA OrderedThread ==
  ASSUME TypeOK, [Next]_vars, "notify" \notin Faults, NEW t \in Threads,
         pc[t] \in Ended \cup {"filled"}
  PROVE  \/ pc'[t] = pc[t]
         \/ LinkFill(t)
         \/ pc'[t] \in Ended \ {"notify"} /\ pc[t] # "done"
            /\ (pc'[t] = "done" => pc[t] = "notify")
<1>1. ASSUME NEW u \in Threads, ThreadStep(u), ~LinkFill(t)
      PROVE  pc'[t] = pc[t] \/ (pc[t] = "notify" /\ pc'[t] = "done")
  BY <1>1 DEF TypeOK, ThreadStep, Claim, CheckRow, GuardReject, SaveRejection, SaveAlert,
     SaveAlertInto, NoBroker, Abandon, Post, LinkFill, RecordRefusal, Notify, SaveFailure,
     Goto, Ended
<1>2. ASSUME NEW d \in Deliveries, Take(d) PROVE pc'[t] = pc[t]
  <2>1. t = <<t[1], t[2]>> /\ t[2] \in Accounts  BY DEF Threads
  <2>2. t[1] # d
    BY <1>2, <2>1 DEF Take, Start, RejectSignal, RejectForProfiles, Waiting, Ended
  <2>. QED  BY <1>2, <2>2 DEF Take, Start, RejectSignal, RejectForProfiles, AllAt, TypeOK
<1>3. ASSUME NEW d \in Deliveries, Crash(d)
      PROVE  pc'[t] = pc[t] \/ (pc'[t] = "crashed" /\ pc[t] # "done")
  BY <1>3 DEF Crash, Steps
<1>4. ASSUME NEW r \in Receipts, Webhook(r) PROVE pc'[t] = pc[t]
  BY <1>4 DEF Webhook
<1>5. ASSUME NEW k \in Keys, NEW a \in Accounts, Expire(k, a) PROVE pc'[t] = pc[t]
  BY <1>5 DEF Expire
<1>6. Watchdog \/ UNCHANGED vars => pc'[t] = pc[t]
  BY DEF Watchdog, ReadStuck, ExpireStuck, vars
<1>. QED  BY <1>1, <1>2, <1>3, <1>4, <1>5, <1>6 DEF Next, Ended

LEMMA EarlyStep ==
  ASSUME TypeOK, EarlyInv, [Next]_vars
  PROVE  EarlyInv'
<1> SUFFICES ASSUME NEW t \in Threads, pc'[t] \in Early PROVE alert'[t] = NoAlert
  BY DEF EarlyInv
<1>1. pc[t] \in Early
  <2>1. ASSUME NEW u \in Threads, ThreadStep(u) PROVE pc[t] \in Early
    BY <2>1 DEF TypeOK, ThreadStep, Claim, CheckRow, GuardReject, SaveRejection, SaveAlert,
       SaveAlertInto, NoBroker, Abandon, Post, LinkFill, RecordRefusal, Notify, SaveFailure,
       Goto, Early
  <2>2. ASSUME NEW d \in Deliveries, Take(d) PROVE pc[t] \in Early
    <3>1. t = <<t[1], t[2]>> /\ t[2] \in Accounts  BY DEF Threads
    <3>2. t[1] = d => pc[t] = "queued"
      BY <2>2, <3>1 DEF Take, Start, RejectSignal, RejectForProfiles, Waiting
    <3>. QED  BY <2>2, <3>2 DEF Take, Start, RejectSignal, RejectForProfiles, AllAt, Early
  <2>3. ASSUME NEW d \in Deliveries, Crash(d) PROVE pc[t] \in Early
    BY <2>3 DEF Crash, Early
  <2>4. ASSUME NEW r \in Receipts, Webhook(r) PROVE pc[t] \in Early
    BY <2>4 DEF Webhook
  <2>5. ASSUME NEW k \in Keys, NEW a \in Accounts, Expire(k, a) PROVE pc[t] \in Early
    BY <2>5 DEF Expire
  <2>6. Watchdog \/ UNCHANGED vars => pc[t] \in Early
    BY DEF Watchdog, ReadStuck, ExpireStuck, vars
  <2>. QED  BY <2>1, <2>2, <2>3, <2>4, <2>5, <2>6 DEF Next
<1>2. ~(SaveAlert(t) /\ alert'[t] # alert[t])
  BY DEF SaveAlert, SaveAlertInto, Goto, TypeOK, Early
<1>. QED  BY <1>1, <1>2, AlertChange DEF EarlyInv

\* Who changes row i, and how: its thread's save_alert, the link of the fill,
\* the end of its thread without an order, or a write for the receipt as such.
SavedBy(u, i) ==
  /\ SaveAlert(u) /\ alert'[u] = i
  /\ rows'[i].oid = rows[i].oid
  /\ Live(i) => i = RcptOf[u[1]] /\ u[2] = First

LinkedBy(u, i) ==
  /\ LinkFill(u) /\ alert[u] = i
  /\ rows'[i].status = "OPEN" /\ rows'[i].oid = <<u, attempt[u]>>

SettledBy(u, i) ==
  /\ alert[u] = i /\ pc[u] \in {"submit", "refused"}
  /\ rows'[i].status # "PENDING" /\ rows'[i].oid \in {rows[i].oid, PaperOrder}

ReceiptWriter(i) ==
  \/ \E u \in Threads : i = RcptOf[u[1]] /\ u[2] = First /\ pc[u] \in {"reject", "raised"}
  \/ \E d \in Deliveries : i = RcptOf[d] /\ \A a \in Accounts : pc[<<d, a>>] = "queued"

ClosedRow(i) ==
  /\ rows'[i].status # "PENDING" /\ rows'[i].oid = rows[i].oid
  /\ ~Live(i) \/ i \in stuck \/ ReceiptWriter(i)

RowChange(i) ==
  \/ \E u \in Threads : SavedBy(u, i) \/ LinkedBy(u, i) \/ SettledBy(u, i)
  \/ ClosedRow(i)

LEMMA SavedResultRow ==
  ASSUME TypeOK, NEW t \in Threads, NEW s \in Statuses \ {"PENDING"},
         SaveResult(t, s), pc[t] \in {"reject", "raised"},
         NEW i \in RowIds, rows'[i] # rows[i]
  PROVE  RowChange(i)
<1>1. t \in RowIds /\ RcptOf[t[1]] \in RowIds  BY KeyType DEF RowIds
<1>2. CASE UsesReceipt(t) /\ rows' = Put(RcptOf[t[1]], Key(t), t[2], s)
  <2>1. i = RcptOf[t[1]] /\ rows'[i].status = s /\ rows'[i].oid = rows[i].oid
    BY <1>1, <1>2 DEF Put, TypeOK
  <2>. QED  BY <1>2, <2>1 DEF UsesReceipt, RowChange, ClosedRow, ReceiptWriter
<1>3. CASE CanInsert(t, Key(t), t[2]) /\ rows' = Put(t, Key(t), t[2], s)
  <2>1. i = t /\ rows'[i].status = s /\ rows'[i].oid = rows[i].oid
    BY <1>1, <1>3 DEF Put, TypeOK
  <2>. QED  BY <1>3, <2>1 DEF CanInsert, RowChange, ClosedRow
<1>. QED  BY <1>2, <1>3 DEF SaveResult

LEMMA RowChanges ==
  ASSUME IInv, [Next]_vars, NEW i \in RowIds, rows'[i] # rows[i]
  PROVE  RowChange(i)
<1>. USE DEF IInv, TypeOK
<1>1. ASSUME NEW r \in Receipts, Webhook(r) PROVE RowChange(i)
  BY <1>1 DEF Webhook, CanInsert, Put, RowChange, ClosedRow
<1>2. ASSUME NEW d \in Deliveries, RejectSignal(d) PROVE RowChange(i)
  <2>1. CASE Live(RcptOf[d]) /\ rows' = SetStatus(RcptOf[d], "rejected")
    <3>1. i = RcptOf[d] /\ rows'[i].status = "rejected" /\ rows'[i].oid = rows[i].oid
      BY <2>1 DEF SetStatus
    <3>2. \A a \in Accounts : pc[<<d, a>>] = "queued"
      BY <1>2 DEF RejectSignal, Waiting
    <3>. QED  BY <3>1, <3>2 DEF RowChange, ClosedRow, ReceiptWriter
  <2>2. CASE /\ CanInsert(d, KeyOf[RcptOf[d]], NoAccount)
             /\ rows' = Put(d, KeyOf[RcptOf[d]], NoAccount, "rejected")
    BY <2>2 DEF CanInsert, Put, RowChange, ClosedRow
  <2>. QED  BY <1>2, <2>1, <2>2 DEF RejectSignal
<1>3. ASSUME NEW t \in Threads, SaveRejection(t) \/ SaveFailure(t) PROVE RowChange(i)
  BY <1>3, SavedResultRow DEF SaveRejection, SaveFailure, Statuses, NonExecuted
<1>4. ASSUME NEW t \in Threads, SaveAlert(t) PROVE RowChange(i)
  <2>1. t \in RowIds /\ RcptOf[t[1]] \in RowIds /\ t[1] \in Deliveries
    BY KeyType DEF RowIds
  <2>2. ASSUME NEW j \in RowIds, SaveAlertInto(t, j),
               Live(j) => j = RcptOf[t[1]] /\ t[2] = First
        PROVE  SavedBy(t, i)
    <3>1. i = j /\ rows'[i].oid = rows[i].oid /\ alert'[t] = i
      BY <2>2 DEF SaveAlertInto, Put
    <3>. QED  BY <1>4, <2>2, <3>1 DEF SavedBy
  <2>3. CanUpdate(t) => sid[t[1]] = RcptOf[t[1]] /\ t[2] = First
    BY <2>1 DEF Stamps, CanUpdate
  <2>. QED  BY <1>4, <2>1, <2>2, <2>3 DEF SaveAlert, CanInsert, RowChange
<1>5. ASSUME NEW t \in Threads, NoBroker(t) \/ Abandon(t) \/ RecordRefusal(t)
      PROVE  RowChange(i)
  <2>1. pc[t] \in {"submit", "refused"} /\ alert[t] \in RowIds
    BY <1>5 DEF NoBroker, Abandon, RecordRefusal, Ownership
  <2>2. CASE rows' = [rows EXCEPT ![alert[t]].status = "OPEN",
                                  ![alert[t]].oid = PaperOrder]
    BY <2>1, <2>2 DEF SettledBy, RowChange
  <2>3. CASE \E s \in {"filtered", "execution_cancelled", "execution_failed"} :
                rows' = SetStatus(alert[t], s)
    BY <2>1, <2>3 DEF SetStatus, SettledBy, RowChange
  <2>. QED  BY <1>5, <2>2, <2>3 DEF NoBroker, Abandon, RecordRefusal
<1>6. ASSUME NEW t \in Threads, LinkFill(t) PROVE RowChange(i)
  <2>1. /\ Live(i) /\ rows[i].key = Key(t) /\ rows[i].acct = t[2]
        /\ rows'[i] = [rows[i] EXCEPT !.status = "OPEN", !.oid = <<t, attempt[t]>>]
    BY <1>6 DEF LinkFill, Linked
  <2>2. alert[t] \in RowIds /\ Names(rows, alert[t], t)
    BY <1>6 DEF LinkFill, Ownership, Owns
  <2>3. alert[t] = i  BY <2>1, <2>2 DEF UniqueRows, Names, Live
  <2>. QED  BY <1>6, <2>1, <2>3 DEF LinkedBy, RowChange
<1>7. ASSUME NEW j \in RowIds, ExpireStuck(j) PROVE RowChange(i)
  BY <1>7 DEF ExpireStuck, SetStatus, ClosedRow, RowChange
<1>8. ASSUME NEW d \in Deliveries, Start(d) \/ RejectForProfiles(d) \/ Crash(d)
      PROVE  UNCHANGED rows
  BY <1>8 DEF Start, RejectForProfiles, Crash
<1>9. ASSUME NEW t \in Threads, Claim(t) \/ CheckRow(t) \/ GuardReject(t)
                                \/ Post(t) \/ Notify(t)
      PROVE  UNCHANGED rows
  BY <1>9 DEF Claim, CheckRow, GuardReject, Post, Notify
<1>10. ASSUME NEW k \in Keys, NEW a \in Accounts, Expire(k, a)
       PROVE  UNCHANGED rows
  BY <1>10 DEF Expire
<1>11. ReadStuck \/ UNCHANGED vars => UNCHANGED rows
  BY DEF ReadStuck, vars
<1>. QED
  BY <1>1, <1>2, <1>3, <1>4, <1>5, <1>6, <1>7, <1>8, <1>9, <1>10, <1>11
  DEF Next, Take, ThreadStep, Watchdog

\* Two threads that own one row are one; a thread that owns a receipt's row is
\* the first account's thread of the only delivery of that receipt.
LEMMA RowOwner ==
  ASSUME IInv, DistinctReceipts, NEW t \in Threads, NEW u \in Threads,
         NEW i \in RowIds, alert[t] = i,
         alert[u] = i \/ (i = RcptOf[u[1]] /\ u[2] = First)
  PROVE  t = u
<1>1. alert[t] # NoAlert /\ Owns(t)
  BY ConstantsAssumption DEF IInv, Ownership
<1>2. CASE alert[u] = i
  <2>1. alert[u] # NoAlert /\ Owns(u)
    BY <1>2, ConstantsAssumption DEF IInv, Ownership
  <2>. QED  BY <1>1, <1>2, <2>1, OneOwner DEF Owns, Names
<1>3. CASE i = RcptOf[u[1]] /\ u[2] = First
  <2>1. /\ t \notin Receipts /\ RcptOf[u[1]] \in Receipts
        /\ t[1] \in Deliveries /\ u[1] \in Deliveries
    BY KeyType, ConstantsAssumption
  <2>2. RcptOf[t[1]] = RcptOf[u[1]] /\ t[2] = First
    BY <1>1, <1>3, <2>1 DEF Owns
  <2>3. t[1] = u[1]  BY <2>1, <2>2 DEF DistinctReceipts
  <2>. QED  BY <1>3, <2>2, <2>3 DEF Threads
<1>. QED  BY <1>2, <1>3

\* A row with a live order does not change any more.
LEMMA LiveRowStays ==
  ASSUME IInv, OpenInv, DistinctReceipts, [Next]_vars,
         NEW i \in RowIds, rows[i].oid \in Orders
  PROVE  rows'[i] = rows[i]
<1> SUFFICES ASSUME RowChange(i) PROVE FALSE
  BY RowChanges
<1> DEFINE t == rows[i].oid[1]
<1>1. t \in Threads /\ alert[t] = i /\ pc[t] \in Ended /\ Live(i) /\ i \notin stuck
  BY DEF OpenInv, LiveInv, StuckInv, Orders, Live
<1> HIDE DEF t
<1>2. ASSUME NEW u \in Threads, SavedBy(u, i) PROVE FALSE
  <2>1. u = t  BY <1>1, <1>2, RowOwner DEF SavedBy
  <2>. QED  BY <1>1, <1>2, <2>1 DEF SavedBy, SaveAlert, Ended
<1>3. ASSUME NEW u \in Threads, LinkedBy(u, i) \/ SettledBy(u, i) PROVE FALSE
  <2>1. u = t  BY <1>1, <1>3, RowOwner DEF LinkedBy, SettledBy
  <2>. QED  BY <1>1, <1>3, <2>1 DEF LinkedBy, LinkFill, SettledBy, Ended
<1>4. ASSUME ReceiptWriter(i) PROVE FALSE
  <2>1. ASSUME NEW u \in Threads, i = RcptOf[u[1]], u[2] = First,
               pc[u] \in {"reject", "raised"}
        PROVE  FALSE
    <3>1. u = t  BY <1>1, <2>1, RowOwner
    <3>. QED  BY <1>1, <2>1, <3>1 DEF Ended
  <2>2. ASSUME NEW d \in Deliveries, i = RcptOf[d],
               \A a \in Accounts : pc[<<d, a>>] = "queued"
        PROVE  FALSE
    <3>1. <<d, First>> \in Threads  BY ConstantsAssumption DEF Threads
    <3>2. <<d, First>> = t  BY <1>1, <2>2, <3>1, RowOwner
    <3>. QED  BY <1>1, <2>2, <3>2, ConstantsAssumption DEF Ended
  <2>. QED  BY <1>4, <2>1, <2>2 DEF ReceiptWriter
<1>. QED  BY <1>1, <1>2, <1>3, <1>4 DEF RowChange, ClosedRow

LEMMA LiveInvStep ==
  ASSUME IInv, OpenInv, DistinctReceipts, [Next]_vars, "notify" \notin Faults
  PROVE  LiveInv'
<1> SUFFICES ASSUME NEW i \in RowIds, rows'[i].oid \in Orders
             PROVE  /\ alert'[rows'[i].oid[1]] = i
                    /\ rows'[i].status = "OPEN"
                    /\ pc'[rows'[i].oid[1]] \in Ended
  BY DEF LiveInv
<1>1. CASE rows[i].oid \in Orders
  <2>1. PICK t \in Threads : t = rows[i].oid[1]  BY <1>1 DEF Orders
  <2>2. rows'[i] = rows[i]  BY <1>1, LiveRowStays
  <2>3. alert[t] = i /\ rows[i].status = "OPEN" /\ pc[t] \in Ended
    BY <1>1, <2>1 DEF OpenInv, LiveInv
  <2>4. alert'[t] = alert[t]
    BY <2>3, AlertKept, ConstantsAssumption DEF OpenInv, IInv
  <2>5. pc'[t] \in Ended
    BY <2>3, OrderedThread DEF IInv, LinkFill, Ended
  <2>. QED  BY <2>1, <2>2, <2>3, <2>4, <2>5
<1>2. CASE rows[i].oid \notin Orders
  <2>1. PICK u \in Threads : LinkedBy(u, i)
    BY <1>2, RowChanges, ConstantsAssumption
    DEF RowChange, SavedBy, SettledBy, ClosedRow
  <2>2. /\ rows'[i].oid[1] = u /\ rows'[i].status = "OPEN"
        /\ alert' = alert /\ alert[u] = i /\ pc'[u] = "notify"
    BY <2>1 DEF LinkedBy, LinkFill, Goto, IInv, TypeOK
  <2>. QED  BY <2>2 DEF Ended
<1>. QED  BY <1>1, <1>2

\* A row becomes PENDING by the save_alert that makes it its thread's.
LEMMA PendingStep ==
  ASSUME IInv, OpenInv, [Next]_vars
  PROVE  PendingOwned'
<1> SUFFICES ASSUME NEW i \in RowIds, rows'[i].status = "PENDING"
             PROVE  \E t \in Threads : alert'[t] = i
  BY DEF PendingOwned
<1>1. CASE rows[i].status = "PENDING"
  <2>1. PICK t \in Threads : alert[t] = i  BY <1>1 DEF OpenInv, PendingOwned
  <2>. QED  BY <2>1, AlertKept, ConstantsAssumption DEF OpenInv, IInv
<1>2. CASE rows[i].status # "PENDING"
  BY <1>2, RowChanges DEF RowChange, SavedBy, LinkedBy, SettledBy, ClosedRow
<1>. QED  BY <1>1, <1>2

LEMMA StuckRead ==
  ASSUME [Next]_vars
  PROVE  stuck' \subseteq stuck \/ ReadStuck
<1>1. ASSUME NEW t \in Threads, ThreadStep(t) PROVE UNCHANGED stuck
  BY <1>1 DEF ThreadStep, Claim, CheckRow, GuardReject, SaveRejection, SaveAlert,
     NoBroker, Abandon, Post, LinkFill, RecordRefusal, Notify, SaveFailure
<1>2. ASSUME NEW d \in Deliveries, Take(d) \/ Crash(d) PROVE UNCHANGED stuck
  BY <1>2 DEF Take, Start, RejectSignal, RejectForProfiles, Crash
<1>3. ASSUME NEW r \in Receipts, Webhook(r) PROVE UNCHANGED stuck
  BY <1>3 DEF Webhook
<1>4. ASSUME NEW k \in Keys, NEW a \in Accounts, Expire(k, a)
      PROVE  UNCHANGED stuck
  BY <1>4 DEF Expire
<1>5. ASSUME NEW i \in RowIds, ExpireStuck(i) PROVE stuck' \subseteq stuck
  BY <1>5 DEF ExpireStuck
<1>6. UNCHANGED vars => UNCHANGED stuck  BY DEF vars
<1>. QED  BY <1>1, <1>2, <1>3, <1>4, <1>5, <1>6 DEF Next, Watchdog

\* What the watchdog has read stays without a live order: its thread has ended.
LEMMA StuckStep ==
  ASSUME IInv, OpenInv, DistinctReceipts, [Next]_vars, "old_pending" \notin Faults
  PROVE  StuckInv'
<1>1. ASSUME NEW i \in stuck
      PROVE  /\ rows'[i].oid \notin Orders
             /\ \E t \in Threads : alert'[t] = i /\ pc'[t] \in Finished
  <2>0. i \in RowIds  BY DEF IInv, TypeOK
  <2>1. PICK t \in Threads : alert[t] = i /\ pc[t] \in Finished
    BY DEF OpenInv, StuckInv
  <2>2. alert'[t] = i /\ pc'[t] \in Finished
    BY <2>0, <2>1, AlertKept, FinishedStays, ConstantsAssumption DEF OpenInv, IInv
  <2>3. ASSUME NEW u \in Threads, LinkedBy(u, i) PROVE FALSE
    <3>1. u = t  BY <2>0, <2>1, <2>3, RowOwner DEF LinkedBy
    <3>. QED  BY <2>1, <2>3, <3>1 DEF LinkedBy, LinkFill, Finished
  <2>4. rows'[i].oid \in {rows[i].oid, PaperOrder}
    BY <2>0, <2>3, RowChanges DEF RowChange, SavedBy, SettledBy, ClosedRow
  <2>5. rows'[i].oid \notin Orders
    BY <2>4, ConstantsAssumption DEF OpenInv, StuckInv
  <2>. QED  BY <2>2, <2>5
<1>2. CASE stuck' \subseteq stuck
  BY <1>1, <1>2 DEF StuckInv
<1>3. CASE ReadStuck
  <2>1. ASSUME NEW i \in stuck'
        PROVE  /\ rows'[i].oid \notin Orders
               /\ \E t \in Threads : alert'[t] = i /\ pc'[t] \in Finished
    <3>1. i \in RowIds /\ Overdue(i) /\ UNCHANGED <<rows, alert, pc>>
      BY <1>3, <2>1 DEF ReadStuck
    <3>2. PICK t \in Threads : alert[t] = i
      BY <3>1 DEF Overdue, OpenInv, PendingOwned
    <3>3. pc[t] \notin Steps /\ rows[i].oid = NoOrder
      BY <3>1, <3>2 DEF Overdue
    <3>4. pc[t] # "queued"
      BY <3>1, <3>2, ConstantsAssumption DEF OpenInv, EarlyInv, Early
    <3>5. pc[t] \in Finished  BY <3>3, <3>4 DEF IInv, TypeOK
    <3>. QED  BY <3>1, <3>2, <3>3, <3>5, ConstantsAssumption
  <2>. QED  BY <2>1 DEF StuckInv
<1>. QED  BY <1>2, <1>3, StuckRead

LEMMA OpenStep ==
  ASSUME IInv, OpenInv, DistinctReceipts, [Next]_vars,
         {"notify", "old_pending"} \cap Faults = {}
  PROVE  OpenInv'
BY EarlyStep, PendingStep, StuckStep, LiveInvStep DEF OpenInv, IInv

LEMMA OpenInit == Init => OpenInv
BY ConstantsAssumption
DEF Init, OpenInv, EarlyInv, PendingOwned, StuckInv, LiveInv, Absent

\* A row with a live order stays OPEN: with Redis, the reads, the writes and
\* the broker's replies failing and workers dying, no other thread, no global
\* rejection and no watchdog writes over it, as long as a message is delivered
\* once, the notification does not raise and no row is 60 minutes old under a
\* thread that still runs.
THEOREM OpenRowsStayOpen ==
  ASSUME DistinctReceipts, {"notify", "old_pending"} \cap Faults = {}
  PROVE  Spec => OpenStaysOpen
<1>1. IInv /\ OpenInv /\ [Next]_vars => OpenInv'
  BY OpenStep
<1>2. IInv /\ OpenInv /\ [Next]_vars
      => [\A i \in RowIds : rows[i].status = "OPEN" /\ rows[i].oid \in Orders
                            => rows'[i].status = "OPEN"]_vars
  BY LiveRowStays
<1>. QED
  BY <1>1, <1>2, OpenInit, InductiveInvariant, PTL DEF Spec, OpenStaysOpen

\* A filled order is linked before its thread goes on.
LinkInv ==
  \A o \in orders :
     /\ pc[o[1]] \in Ended \cup {"filled"}
     /\ pc[o[1]] \in {"notify", "done"} =>
           alert[o[1]] \in RowIds /\ rows[alert[o[1]]].oid = o

LEMMA LinkStep ==
  ASSUME IInv, OpenInv, OrderedOnce, LinkInv, DistinctReceipts, [Next]_vars,
         {"lost_reply", "notify", "db_write"} \cap Faults = {}
  PROVE  LinkInv'
<1>1. ASSUME NEW o \in orders
      PROVE  /\ pc'[o[1]] \in Ended \cup {"filled"}
             /\ pc'[o[1]] \in {"notify", "done"} =>
                   alert'[o[1]] \in RowIds /\ rows'[alert'[o[1]]].oid = o
  <2>1. PICK t \in Threads : t = o[1] /\ o = <<t, attempt[t]>> /\ o \in Orders
    BY DEF IInv, TypeOK, Orders, OrderedOnce
  <2>2. pc[t] \in Ended \cup {"filled"} /\ alert[t] \in RowIds /\ alert[t] # NoAlert
    BY <2>1 DEF LinkInv, IInv, TypeOK, OrdersOwned
  <2>3. alert'[t] = alert[t]
    BY <2>2, AlertKept DEF OpenInv, IInv
  <2>4. CASE LinkFill(t)
    <3>1. rows' = Linked(t) /\ pc'[t] = "notify"
      BY <2>4 DEF LinkFill, Goto, IInv, TypeOK
    <3>2. Names(rows, alert[t], t)  BY <2>2 DEF IInv, Ownership, Owns
    <3>3. rows'[alert[t]].oid = o
      <4>1. rows'[alert[t]] = [rows[alert[t]] EXCEPT !.status = "OPEN", !.oid = <<t, attempt[t]>>]
        BY <2>2, <3>1, <3>2 DEF Linked, Names, Live
      <4>2. DOMAIN rows[alert[t]] = {"key", "acct", "status", "oid"}
        BY <2>2 DEF IInv, TypeOK
      <4>. QED  BY <2>1, <4>1, <4>2
    <3>. QED  BY <2>1, <2>2, <2>3, <3>1, <3>3 DEF Ended
  <2>5. CASE ~LinkFill(t)
    <3>1. pc'[t] \in Ended \cup {"filled"}
          /\ (pc'[t] \in {"notify", "done"} => pc[t] \in {"notify", "done"})
      BY <2>2, <2>5, OrderedThread DEF IInv, Ended
    <3>2. ASSUME pc[t] \in {"notify", "done"} PROVE rows'[alert[t]].oid = o
      BY <2>1, <2>2, <3>2, LiveRowStays DEF LinkInv
    <3>. QED  BY <2>1, <2>2, <2>3, <3>1, <3>2
  <2>. QED  BY <2>4, <2>5
<1>2. CASE UNCHANGED orders  BY <1>1, <1>2 DEF LinkInv
<1>3. ASSUME NEW t \in Threads, Post(t), orders' = orders \cup {<<t, attempt[t]>>}
      PROVE  LinkInv'
  <2>1. <<t, attempt[t]>> \notin orders
    BY <1>3 DEF OrderedOnce, Post, After
  <2>2. pc'[t] = "filled"
    BY <1>3, <2>1 DEF Post, Goto, IInv, TypeOK
  <2>. QED  BY <1>1, <1>3, <2>2 DEF LinkInv
<1>. QED  BY <1>2, <1>3, OrdersStep

\* The exit path finds every order whose thread is through: the row the thread
\* owns carries the order's id and stays OPEN.
THEOREM ExitsFindOrders ==
  ASSUME DistinctReceipts,
         {"lost_reply", "notify", "db_write", "old_pending"} \cap Faults = {}
  PROVE  Spec => []ExitFindsOrder
<1>1. Init => LinkInv /\ OrderedOnce  BY DEF Init, LinkInv, OrderedOnce
<1>2. IInv /\ OrderedOnce /\ [Next]_vars => OrderedOnce'
  BY OrderedOnceStep
<1>3. IInv /\ OpenInv /\ [Next]_vars => OpenInv'
  BY OpenStep
<1>4. IInv /\ OpenInv /\ OrderedOnce /\ LinkInv /\ [Next]_vars => LinkInv'
  BY LinkStep
<1>5. IInv /\ OpenInv /\ LinkInv => ExitFindsOrder
  BY DEF IInv, TypeOK, OpenInv, LiveInv, LinkInv, ExitFindsOrder, NonExecuted
<1>. QED
  BY <1>1, <1>2, <1>3, <1>4, <1>5, OpenInit, InductiveInvariant, PTL DEF Spec
=============================================================================
