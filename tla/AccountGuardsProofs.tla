------------------------ MODULE AccountGuardsProofs ------------------------
(***************************************************************************)
(* Proofs about AccountGuards for every set of accounts, every limit,      *)
(* budget and risk, and any number of signals.                             *)
(***************************************************************************)
EXTENDS AccountGuards, TLAPS

Stages == {"off", "kill", "mtm", "budget", "rest", "go", "record", "write"}

Thd == [at : Stages, seen : Nat, blind : BOOLEAN, told : BOOLEAN]

Msg == [at : {"none", "queued", "work"}, stamp : {"PAPER", "LIVE"}, stopped : BOOLEAN]

Snp == [first : Nat \cup {Missing}, eq : Nat \cup {Missing}, bal : Nat \cup {Missing}]

\* What the lemmas below need of the threads.
ThreadsOK == th \in [Accounts -> Thd]

LEMMA GoesType ==
  ASSUME ThreadsOK, NEW a \in Accounts, NEW to \in Stages, Goes(a, to)
  PROVE  th' \in [Accounts -> Thd]
BY DEF Goes, ThreadsOK, Thd

LEMMA StopsType ==
  ASSUME ThreadsOK, NEW a \in Accounts, Stops(a)
  PROVE  th' \in [Accounts -> Thd]
BY DEF Stops, ThreadsOK, Thd, Stages, Off

LEMMA BlindlyType ==
  ASSUME ThreadsOK, NEW a \in Accounts, NEW to \in Stages, Blindly(a, to)
  PROVE  th' \in [Accounts -> Thd]
<1>1. [th[a] EXCEPT !.at = to, !.blind = TRUE] \in Thd  BY DEF ThreadsOK, Thd
<1>2. th' = [th EXCEPT ![a] = [th[a] EXCEPT !.at = to, !.blind = TRUE]]  BY DEF Blindly
<1>. QED  BY <1>1, <1>2 DEF ThreadsOK

\* A step of thread a touches no other thread.
Others(a) == \A b \in Accounts \ {a} : th'[b] = th[b]

\* The threads keep their type, and only one that was at work moves.
LEMMA ThreadType ==
  ASSUME TypeOK, NEW a \in Accounts, Thread(a)
  PROVE  /\ th' \in [Accounts -> Thd]
         /\ Others(a)
         /\ th[a].at # "off"
<1>0. ThreadsOK  BY DEF TypeOK, ThreadsOK, Thd, Stages
<1>1. ASSUME NEW to \in Stages, Goes(a, to) PROVE th' \in [Accounts -> Thd] /\ Others(a)
  BY <1>0, <1>1, GoesType DEF Goes, Others, ThreadsOK
<1>2. ASSUME Stops(a) PROVE th' \in [Accounts -> Thd] /\ Others(a)
  BY <1>0, <1>2, StopsType DEF Stops, Others, ThreadsOK
<1>3. ASSUME NEW to \in Stages, Blindly(a, to) PROVE th' \in [Accounts -> Thd] /\ Others(a)
  BY <1>0, <1>3, BlindlyType DEF Blindly, Others, ThreadsOK
<1>4. CASE CheckKillSwitch(a)
  BY <1>1, <1>2, <1>3, <1>4 DEF CheckKillSwitch, FailsClosed, Stages
<1>5. CASE Guardian(a)
  BY <1>1, <1>2, <1>5 DEF Guardian, Stages
<1>6. CASE CheckBudget(a)
  BY <1>1, <1>2, <1>3, <1>6 DEF CheckBudget, Stages
<1>7. CASE OtherGuards(a)
  BY <1>1, <1>2, <1>7 DEF OtherGuards, Stages
<1>8. CASE ProcessTrade(a)
  BY <1>1, <1>2, <1>8 DEF ProcessTrade, Stages
<1>9. CASE ReadToday(a)
  <2>1. today[RecordKey] \in Nat  BY DEF TypeOK, RecordKey, Names
  <2>2. \A n \in Nat : [th EXCEPT ![a].at = "write", ![a].seen = n] \in [Accounts -> Thd]
    <3>1. \A r \in Thd, n \in Nat : [r EXCEPT !.at = "write", !.seen = n] \in Thd
      BY DEF Thd, Stages
    <3>2. ASSUME NEW n \in Nat
          PROVE  [th EXCEPT ![a] = [@ EXCEPT !.at = "write", !.seen = n]] \in [Accounts -> Thd]
      BY <1>0, <3>1 DEF ThreadsOK
    <3>3. \A n \in Nat : [th EXCEPT ![a].at = "write", ![a].seen = n]
                        = [th EXCEPT ![a] = [@ EXCEPT !.at = "write", !.seen = n]]
      BY <1>0 DEF ThreadsOK
    <3>. QED  BY <3>2, <3>3
  <2>3. PICK n \in Nat : th' = [th EXCEPT ![a].at = "write", ![a].seen = n]
    BY <1>9, <2>1 DEF ReadToday
  <2>4. Others(a)  BY <1>0, <2>3 DEF Others, ThreadsOK
  <2>5. th[a].at # "off"  BY <1>9 DEF ReadToday
  <2>. QED  BY <2>2, <2>3, <2>4, <2>5
<1>10. CASE WriteToday(a)
  BY <1>2, <1>10 DEF WriteToday, Stages
<1>. QED
  BY <1>4, <1>5, <1>6, <1>7, <1>8, <1>9, <1>10 DEF Thread

\* The part of TypeOK that is about the account at the broker and the snapshots
Outside ==
  /\ bal \in [Accounts -> Nat] /\ eq \in [Accounts -> Nat] /\ open \in [Accounts -> BOOLEAN]
  /\ closed \in [Accounts -> Int]
  /\ snap \in [Accounts -> Snp]
  /\ \A a \in Accounts : (snap[a].eq = Missing) <=> (snap[a].bal = Missing)
  /\ down \subseteq Accounts

\* and the part that is about the worker and the dashboard.
Inside ==
  /\ kill \subseteq Names
  /\ today \in [Names -> Nat]
  /\ mode \in {"PAPER", "LIVE"}
  /\ msg \in Msg
  /\ th \in [Accounts -> Thd]
  /\ \A a \in Accounts : th[a].at # "off" => msg.at = "work"
  /\ signals \in Nat /\ days \in Nat /\ clicks \in Nat
  /\ told \subseteq Names
  /\ placed \in Nat
  /\ unsure \in BOOLEAN

LEMMA TypeParts == TypeOK <=> Outside /\ Inside
BY DEF TypeOK, Outside, Inside, Snp, Thd, Stages, Msg

LEMMA InitType == ASSUME Init PROVE TypeOK
<1>1. Start \in Nat  BY GuardAssumption
<1>2. Outside  BY <1>1 DEF Init, Outside, NoSnap, Snp
<1>3. Inside  BY DEF Init, Inside, NoMsg, Off, Thd, Stages, Msg
<1>. QED  BY <1>2, <1>3, TypeParts

\* The market, the nights and the snapshots leave the worker alone
LEMMA WorldType ==
  ASSUME TypeOK, (\E a \in Accounts : World(a)) \/ NewDay
  PROVE  TypeOK'
<1>0. Outside /\ Inside  BY TypeParts
<1>1. ASSUME NEW a \in Accounts, Moves(a) PROVE Outside' /\ Inside'
  BY <1>0, <1>1, GuardAssumption DEF Moves, Outside, Inside, count
<1>2. ASSUME NEW a \in Accounts, Closes(a) PROVE Outside' /\ Inside'
  BY <1>0, <1>2 DEF Closes, Outside, Inside, count
<1>3. ASSUME NEW a \in Accounts, Sync(a) PROVE Outside' /\ Inside'
  <2>1. PICK s \in StatusOf(a) : Snapped(a, s)  BY <1>3 DEF Sync
  <2>2. s.eq \in Nat /\ s.bal \in Nat  BY <1>0 DEF StatusOf, Outside
  <2>3. snap[a] \in Snp  BY <1>0 DEF Outside
  <2>4. snap' \in [Accounts -> Snp]
    BY <1>0, <2>1, <2>2, <2>3 DEF Snapped, Outside, Snp
  <2>5. \A b \in Accounts : (snap'[b].eq = Missing) <=> (snap'[b].bal = Missing)
    BY <1>0, <2>1, <2>2 DEF Snapped, Outside, Missing
  <2>. QED  BY <1>0, <1>3, <2>4, <2>5 DEF Sync, Outside, Inside, broker, count
<1>4. ASSUME NEW a \in Accounts, SnapExpires(a) PROVE Outside' /\ Inside'
  <2>1. snap' \in [Accounts -> Snp]
    BY <1>0, <1>4 DEF SnapExpires, Outside, Snp
  <2>2. \A b \in Accounts : (snap'[b].eq = Missing) <=> (snap'[b].bal = Missing)
    BY <1>0, <1>4 DEF SnapExpires, Outside, Snp
  <2>. QED  BY <1>0, <1>4, <2>1, <2>2 DEF SnapExpires, Outside, Inside, broker, count
<1>5. ASSUME NewDay PROVE Outside' /\ Inside'
  <2>0. \A r \in Snp : /\ [r EXCEPT !.first = Missing] \in Snp
                       /\ [r EXCEPT !.first = Missing].eq = r.eq
                       /\ [r EXCEPT !.first = Missing].bal = r.bal
    BY DEF Snp
  <2>a. \A b \in Accounts : /\ snap[b] \in Snp
                            /\ snap'[b] = [snap[b] EXCEPT !.first = Missing]
    BY <1>0, <1>5 DEF NewDay, Outside
  <2>1. snap' \in [Accounts -> Snp]
    BY <1>5, <2>0, <2>a DEF NewDay
  <2>c. \A b \in Accounts : snap'[b].eq = snap[b].eq /\ snap'[b].bal = snap[b].bal
    BY <2>0, <2>a
  <2>d. \A b \in Accounts : (snap[b].eq = Missing) <=> (snap[b].bal = Missing)
    BY <1>0 DEF Outside
  <2>2. \A b \in Accounts : (snap'[b].eq = Missing) <=> (snap'[b].bal = Missing)
    BY <2>c, <2>d
  <2>b. closed' \in [Accounts -> Int] /\ UNCHANGED <<bal, eq, open, down>>
    BY <1>5 DEF NewDay
  <2>3. Outside'  BY <1>0, <2>1, <2>2, <2>b DEF Outside
  <2>4. Inside'  BY <1>0, <1>5 DEF NewDay, Inside
  <2>. QED  BY <2>3, <2>4
<1>. QED
  BY <1>1, <1>2, <1>3, <1>4, <1>5 DEF World, TypeOK, Outside, Inside, Snp, Thd, Stages, Msg

\* and so do the dashboard and the coming and going of signals with the rest.
LEMMA WorkerType ==
  ASSUME TypeOK, Engage \/ Reset \/ SwitchMode \/ Receive \/ Process \/ Done \/ Rollup
  PROVE  TypeOK'
<1>. SUFFICES Outside' /\ Inside'
  BY DEF TypeOK, Outside, Inside, Snp, Thd, Stages, Msg
<1>0. Outside /\ Inside  BY TypeParts
<1>1. CASE Engage
  BY <1>0, <1>1 DEF Engage, Clicks, Outside, Inside, broker, Names
<1>2. CASE Reset
  <2>1. th' \in [Accounts -> Thd] /\ \A a \in Accounts : th'[a].at = th[a].at
    <3>1. \A r \in Thd, v \in BOOLEAN : /\ [r EXCEPT !.told = v] \in Thd
                                        /\ [r EXCEPT !.told = v].at = r.at
      BY DEF Thd
    <3>2. \A a \in Accounts : th[a] \in Thd /\ (th[a].told /\ a # Default) \in BOOLEAN
      BY <1>0 DEF Inside
    <3>3. th' = [a \in Accounts |-> [th[a] EXCEPT !.told = th[a].told /\ a # Default]]
      BY <1>2 DEF Reset
    <3>. QED  BY <3>1, <3>2, <3>3
  <2>2. msg' \in Msg /\ msg'.at = msg.at
    BY <1>0, <1>2 DEF Reset, Inside, Msg
  <2>. QED  BY <1>0, <1>2, <2>1, <2>2 DEF Reset, Outside, Inside, broker, count
<1>3. CASE SwitchMode
  BY <1>0, <1>3 DEF SwitchMode, Clicks, Outside, Inside, broker
<1>4. CASE Receive
  <2>1. \A m \in {"PAPER", "LIVE"} :
          [NoMsg EXCEPT !.at = "queued", !.stamp = m] \in Msg
    BY DEF NoMsg, Msg
  <2>2. msg' \in Msg  BY <1>0, <1>4, <2>1 DEF Receive, Inside
  <2>. QED  BY <1>0, <1>4, <2>2 DEF Receive, Outside, Inside, broker, Msg
<1>5. CASE Process
  <2>0. /\ \A v \in BOOLEAN : [Off EXCEPT !.at = "kill", !.told = v] \in Thd
        /\ \A v \in BOOLEAN : [msg EXCEPT !.at = "work", !.stopped = v] \in Msg
        /\ Off \in Thd /\ NoMsg \in Msg
    BY <1>0 DEF Off, NoMsg, Thd, Stages, Msg, Inside
  <2>. DEFINE kl(a) == [Off EXCEPT !.at = "kill", !.told = a \in told]
              wk == [msg EXCEPT !.at = "work", !.stopped = Default \in told]
  <2>1. (\A a \in Accounts : kl(a) \in Thd) /\ wk \in Msg
    <3>1. \A a \in Accounts : (a \in told) \in BOOLEAN  OBVIOUS
    <3>2. \A a \in Accounts : kl(a) \in Thd  BY <2>0, <3>1, Zenon
    <3>3. (Default \in told) \in BOOLEAN  OBVIOUS
    <3>. QED  BY <2>0, <3>2, <3>3, Zenon
  <2>2. wk.at = "work" /\ Off.at = "off"  BY <1>0 DEF Inside, Msg, Off
  <2>3. /\ msg' = IF mode = "LIVE" THEN wk ELSE NoMsg
        /\ th' = [a \in Accounts |-> IF mode = "LIVE" THEN kl(a) ELSE Off]
    BY <1>5 DEF Process
  <2>. HIDE DEF kl, wk
  <2>4. th' \in [Accounts -> Thd] /\ msg' \in Msg
    BY <2>0, <2>1, <2>3
  <2>5. \A a \in Accounts : th'[a].at # "off" => msg'.at = "work"
    BY <2>2, <2>3
  <2>. QED  BY <1>0, <1>5, <2>4, <2>5 DEF Process, Outside, Inside, broker, count, Msg
<1>6. CASE Done
  BY <1>0, <1>6 DEF Done, Outside, Inside, broker, count, NoMsg, Off, Msg
<1>7. CASE Rollup
  BY <1>0, <1>7 DEF Rollup, Outside, Inside, broker, count, Names
<1>. QED
  BY <1>1, <1>2, <1>3, <1>4, <1>5, <1>6, <1>7

\* The threads change nothing of the world but the position of their account.
LEMMA ThreadsType ==
  ASSUME TypeOK, NEW a \in Accounts, Thread(a)
  PROVE  TypeOK'
<1>. SUFFICES Outside' /\ Inside'
  BY DEF TypeOK, Outside, Inside, Snp, Thd, Stages, Msg
<1>0. Outside /\ Inside  BY TypeParts
<1>1. /\ th' \in [Accounts -> Thd]
      /\ \A b \in Accounts : th'[b].at # "off" => msg.at = "work"
  BY <1>0, ThreadType DEF Others, Inside
<1>2. Risk \in Nat /\ Default \in Names /\ a \in Names  BY GuardAssumption DEF Names
<1>3. CASE CheckKillSwitch(a)
  BY <1>0, <1>1, <1>3 DEF CheckKillSwitch, Outside, Inside, broker, count
<1>4. CASE Guardian(a)
  BY <1>0, <1>1, <1>2, <1>4 DEF Guardian, Outside, Inside, broker, count
<1>5. CASE CheckBudget(a)
  BY <1>0, <1>1, <1>5 DEF CheckBudget, Outside, Inside, broker, count
<1>6. CASE OtherGuards(a)
  BY <1>0, <1>1, <1>6 DEF OtherGuards, Outside, Inside, broker, count
<1>7. CASE ProcessTrade(a)
  <2>0. Fill(a) => open' \in [Accounts -> BOOLEAN] /\ placed' \in Nat
    BY <1>0 DEF Fill, Outside, Inside
  <2>1. open' \in [Accounts -> BOOLEAN] /\ placed' \in Nat /\ unsure' \in BOOLEAN
    BY <1>0, <1>7, <2>0 DEF ProcessTrade, Outside, Inside
  <2>. QED  BY <1>0, <1>1, <1>7, <2>1 DEF ProcessTrade, Outside, Inside, count
<1>8. CASE ReadToday(a)
  BY <1>0, <1>1, <1>8 DEF ReadToday, Outside, Inside, broker, count
<1>9. CASE WriteToday(a)
  <2>1. th[a].seen + Risk \in Nat  BY <1>0, <1>2 DEF Inside, Thd
  <2>2. today' \in [Names -> Nat] /\ unsure' \in BOOLEAN
    BY <1>0, <1>9, <2>1 DEF WriteToday, RecordKey, Inside
  <2>. QED  BY <1>0, <1>1, <1>9, <2>2 DEF WriteToday, Outside, Inside, broker, count
<1>. QED
  BY <1>3, <1>4, <1>5, <1>6, <1>7, <1>8, <1>9 DEF Thread

LEMMA TypeStep == ASSUME TypeOK, [Next]_vars PROVE TypeOK'
<1>1. CASE UNCHANGED vars
  BY <1>1 DEF vars, broker, count, TypeOK
<1>. QED
  BY <1>1, WorldType, WorkerType, ThreadsType DEF Next

\* Every variable keeps its type, and no thread works without a signal.
THEOREM TypeCorrect == Spec => []TypeOK
BY InitType, TypeStep, PTL DEF Spec
-----------------------------------------------------------------------------
(* The kill switches.                                                      *)

Passed == {"mtm", "budget", "rest", "go"}

\* Who was told to stop has a key, and a thread that started afterwards has
\* passed the check of the key without seeing it, if at all.
KillInv ==
  /\ told \subseteq kill
  /\ \A a \in Accounts : th[a].told => a \in told
  /\ \A a \in Accounts : th[a].told /\ th[a].at \in Passed => th[a].blind

\* A thread never hears later what it was not told at first, and goes past the
\* key only blindly if it is there.
LEMMA ThreadTold ==
  ASSUME TypeOK, KillInv, NEW a \in Accounts, Thread(a)
  PROVE  /\ th'[a].told => th[a].told
         /\ th'[a].told /\ th'[a].at \in Passed => th'[a].blind
         /\ told' \subseteq kill' /\ told \subseteq told'
<1>0. th \in [Accounts -> Thd]  BY DEF TypeOK, Thd, Stages
<1>1. ASSUME NEW to \in Stages, Goes(a, to)
      PROVE  th'[a].told = th[a].told /\ th'[a].blind = th[a].blind /\ th'[a].at = to
  BY <1>0, <1>1 DEF Goes, Thd
<1>2. ASSUME Stops(a) PROVE ~th'[a].told
  BY <1>0, <1>2 DEF Stops, Off
<1>3. ASSUME NEW to \in Stages, Blindly(a, to)
      PROVE  th'[a].told = th[a].told /\ th'[a].blind
  BY <1>0, <1>3 DEF Blindly, Thd
<1>4. CASE CheckKillSwitch(a)
  <2>1. th[a].told => a \in kill  BY DEF KillInv
  <2>2. told' = told /\ kill' = kill  BY <1>4 DEF CheckKillSwitch
  <2>3. CASE Stops(a)  BY <1>2, <2>2, <2>3 DEF KillInv
  <2>4. CASE a \notin kill /\ Goes(a, "mtm")
    BY <1>1, <2>1, <2>2, <2>4 DEF KillInv, Stages
  <2>5. CASE Blindly(a, "mtm")  BY <1>3, <2>2, <2>5 DEF KillInv, Stages
  <2>. QED  BY <1>4, <2>3, <2>4, <2>5 DEF CheckKillSwitch, FailsClosed
<1>5. CASE Guardian(a)
  <2>1. told' \subseteq kill' /\ told \subseteq told'  BY <1>5 DEF Guardian, KillInv
  <2>2. CASE Stops(a)  BY <1>2, <2>1, <2>2
  <2>3. CASE Goes(a, "budget")
    BY <1>1, <1>5, <2>1, <2>3 DEF KillInv, Stages, Passed, Guardian
  <2>. QED  BY <1>5, <2>2, <2>3 DEF Guardian
<1>6. CASE CheckBudget(a)
  <2>1. told' = told /\ kill' = kill /\ th[a].at = "budget"  BY <1>6 DEF CheckBudget
  <2>2. CASE Stops(a)  BY <1>2, <2>1, <2>2 DEF KillInv
  <2>3. CASE Goes(a, "rest")  BY <1>1, <2>1, <2>3 DEF KillInv, Stages, Passed
  <2>4. CASE Blindly(a, "rest")  BY <1>3, <2>1, <2>4 DEF KillInv, Stages
  <2>. QED  BY <1>6, <2>2, <2>3, <2>4 DEF CheckBudget
<1>7. CASE OtherGuards(a)
  <2>1. told' = told /\ kill' = kill /\ th[a].at = "rest"  BY <1>7 DEF OtherGuards
  <2>2. CASE Stops(a)  BY <1>2, <2>1, <2>2 DEF KillInv
  <2>3. CASE Goes(a, "go")  BY <1>1, <2>1, <2>3 DEF KillInv, Stages, Passed
  <2>. QED  BY <1>7, <2>2, <2>3 DEF OtherGuards
<1>8. CASE ProcessTrade(a)
  <2>1. told' = told /\ kill' = kill  BY <1>8 DEF ProcessTrade
  <2>2. CASE Stops(a)  BY <1>2, <2>1, <2>2 DEF KillInv
  <2>3. CASE Goes(a, "record")  BY <1>1, <2>1, <2>3 DEF KillInv, Stages, Passed
  <2>. QED  BY <1>8, <2>2, <2>3 DEF ProcessTrade
<1>9. CASE ReadToday(a)
  <2>1. th'[a].told = th[a].told /\ th'[a].at = "write" /\ told' = told /\ kill' = kill
    BY <1>0, <1>9 DEF ReadToday, Thd
  <2>. QED  BY <2>1 DEF KillInv, Passed
<1>10. CASE WriteToday(a)
  BY <1>2, <1>10 DEF WriteToday, KillInv
<1>. QED
  BY <1>4, <1>5, <1>6, <1>7, <1>8, <1>9, <1>10 DEF Thread

LEMMA KillStep == ASSUME TypeOK, KillInv, [Next]_vars PROVE KillInv'
<1>0. th \in [Accounts -> Thd]  BY DEF TypeOK, Thd, Stages
<1>1. ASSUME NEW a \in Accounts, Thread(a) PROVE KillInv'
  <2>1. \A b \in Accounts \ {a} : th'[b] = th[b]  BY <1>1, ThreadType DEF Others
  <2>. QED  BY <1>1, <2>1, ThreadTold DEF KillInv
<1>2. ASSUME NEW a \in Accounts, World(a) PROVE KillInv'
  BY <1>2 DEF World, Moves, Closes, Sync, SnapExpires, KillInv, count
<1>3. CASE Process
  <2>1. \A a \in Accounts : /\ th'[a].told => a \in told
                            /\ th'[a].at \notin Passed
    BY <1>3 DEF Process, Off, Passed
  <2>. QED  BY <1>3, <2>1 DEF Process, KillInv
<1>4. CASE Reset
  <2>1. \A a \in Accounts : /\ th'[a].told => th[a].told /\ a # Default
                            /\ th'[a].at = th[a].at /\ th'[a].blind = th[a].blind
    BY <1>0, <1>4 DEF Reset, Thd
  <2>. QED  BY <1>4, <2>1 DEF Reset, KillInv
<1>5. CASE Engage
  BY <1>5 DEF Engage, KillInv
<1>6. CASE NewDay \/ SwitchMode \/ Receive \/ Done \/ Rollup
  BY <1>6 DEF NewDay, SwitchMode, Receive, Done, Rollup, KillInv
<1>7. CASE UNCHANGED vars
  BY <1>7 DEF vars, KillInv
<1>. QED
  BY <1>1, <1>2, <1>3, <1>4, <1>5, <1>6, <1>7 DEF Next

\* Whatever fails and whoever is switched, an account that was told to stop trades
\* only if a guard could not look.
THEOREM KillsHold == Spec => []KillHolds
<1>1. Init => KillInv  BY DEF Init, KillInv, Off
<1>2. TypeOK /\ KillInv /\ [Next]_vars => KillInv'  BY KillStep
<1>3. KillInv => KillHolds  BY DEF KillInv, KillHolds, Passed
<1>. QED  BY <1>1, <1>2, <1>3, TypeCorrect, PTL DEF Spec
-----------------------------------------------------------------------------
(* The guardian.                                                           *)

\* Less is more of a loss, and so is the same from a higher start.
LEMMA LostMore ==
  ASSUME NEW s \in Nat, NEW e \in Int, NEW f \in Int, s <= Start, f <= e, Lost(s, e)
  PROVE  Lost(Start, f)
<1>1. Start \in Nat /\ LimitPct \in Nat /\ LimitPct <= 100  BY GuardAssumption
<1>2. s > 0 /\ (s - e) * 100 >= LimitPct * s  BY DEF Lost
<1>3. PICK d \in Nat : Start = s + d  BY <1>1
<1>4. PICK r \in Nat : 100 = LimitPct + r  BY <1>1
<1>5. r * d >= 0  BY <1>3, <1>4
<1>6. 100 * d = LimitPct * d + r * d  BY <1>1, <1>3, <1>4
<1>7. LimitPct * Start = LimitPct * s + LimitPct * d  BY <1>1, <1>3
<1>8. LimitPct * s \in Int /\ LimitPct * d \in Int /\ r * d \in Int
  BY <1>1, <1>3, <1>4
<1>9. (Start - e) * 100 >= LimitPct * Start
  BY <1>2, <1>3, <1>5, <1>6, <1>7, <1>8
<1>. QED  BY <1>1, <1>2, <1>3, <1>9 DEF Lost

LEMMA NothingLost == ~Lost(Start, Start)
<1>1. Start \in Nat /\ LimitPct \in Nat /\ Start > 0 /\ LimitPct > 0  BY GuardAssumption
<1>2. LimitPct * Start > 0  BY <1>1
<1>. QED  BY <1>1, <1>2 DEF Lost

HonestStatus == "no_status" \notin Faults

\* e was seen at account a: it is no more than the start, and low only if the
\* account was.
SeenAt(a, e) == e <= Start /\ (Lost(Start, e) => a \in down)

\* What the guardian may come to look at has been at the account, and what has
\* been lost on closed trades of the day is no more than what is gone.
GuardInv ==
  /\ \A a \in Accounts :
       /\ SeenAt(a, bal[a]) /\ SeenAt(a, eq[a])
       /\ closed[a] >= bal[a] - Start
       /\ snap[a].first <= Start
       /\ snap[a].eq # Missing => SeenAt(a, snap[a].eq) /\ SeenAt(a, snap[a].bal)
  /\ NoPhantomKill

LEMMA LimitWasLost ==
  ASSUME TypeOK, GuardInv, NEW a \in Accounts, LimitReached(a)
  PROVE  a \in down
<1>0. /\ snap[a].first \in Nat \cup {Missing} /\ snap[a].eq \in Nat \cup {Missing}
      /\ snap[a].bal \in Nat \cup {Missing} /\ closed[a] \in Int /\ bal[a] \in Nat
      /\ snap[a].eq # Missing => snap[a].bal # Missing
  BY DEF TypeOK
<1>1. CASE a # Default /\ snap[a].eq # Missing
  <2>1. PICK s \in Nat : s <= Start /\ Lost(s, snap[a].eq)
    BY <1>0, <1>1 DEF LimitReached, GuardInv, SeenAt
  <2>2. snap[a].eq \in Int  BY <1>0, <1>1
  <2>3. Lost(Start, snap[a].eq)  BY <2>1, <2>2, LostMore
  <2>. QED  BY <1>1, <2>3 DEF GuardInv, SeenAt
<1>2. CASE ~(a # Default /\ snap[a].eq # Missing)
  <2>1. Lost(Start, Start + closed[a])  BY <1>2 DEF LimitReached
  <2>2. Start \in Nat  BY GuardAssumption
  <2>3. bal[a] <= Start + closed[a]  BY <1>0, <2>2 DEF GuardInv
  <2>4. Lost(Start, bal[a])  BY <1>0, <2>1, <2>2, <2>3, LostMore
  <2>. QED  BY <2>4 DEF GuardInv, SeenAt
<1>. QED  BY <1>1, <1>2

LEMMA GuardWorld ==
  ASSUME HonestStatus, TypeOK, GuardInv, NEW a \in Accounts, World(a)
  PROVE  GuardInv'
<1>0. /\ bal \in [Accounts -> Nat] /\ eq \in [Accounts -> Nat] /\ closed \in [Accounts -> Int]
      /\ Start \in Nat /\ down \subseteq Accounts
  BY GuardAssumption DEF TypeOK
<1>1. snap \in [Accounts -> Snp]  BY DEF TypeOK, Snp
<1>2. CASE Moves(a)
  <2>1. PICK e \in {eq[a] - 1, eq[a] + 1} \cap 1..Start : eq' = [eq EXCEPT ![a] = e]
    BY <1>2 DEF Moves
  <2>2. e \in Nat /\ e <= Start  BY <1>0, <2>1
  <2>3. down \subseteq down' /\ (Lost(Start, e) => a \in down')
    BY <1>0, <1>2, <2>1 DEF Moves
  <2>. QED  BY <1>0, <1>2, <2>1, <2>2, <2>3 DEF Moves, GuardInv, SeenAt, NoPhantomKill
<1>3. CASE Closes(a)
  <2>1. closed'[a] >= bal'[a] - Start  BY <1>0, <1>3 DEF Closes, GuardInv
  <2>. QED  BY <1>0, <1>3, <2>1 DEF Closes, GuardInv, SeenAt, NoPhantomKill
<1>4. CASE Sync(a)
  <2>1. Snapped(a, [eq |-> eq[a], bal |-> bal[a]])
    BY <1>4 DEF Sync, StatusOf, HonestStatus
  <2>2. /\ \A b \in Accounts \ {a} : snap'[b] = snap[b]
        /\ snap'[a].eq = eq[a] /\ snap'[a].bal = bal[a]
        /\ snap'[a].first \in {snap[a].first, bal[a]}
    BY <1>1, <2>1 DEF Snapped, Snp
  <2>. QED  BY <1>0, <1>4, <2>2 DEF Sync, GuardInv, SeenAt, NoPhantomKill, broker
<1>5. CASE SnapExpires(a)
  <2>1. /\ \A b \in Accounts \ {a} : snap'[b] = snap[b]
        /\ snap'[a].eq = Missing /\ snap'[a].first = snap[a].first
    BY <1>1, <1>5 DEF SnapExpires, Snp
  <2>. QED  BY <1>0, <1>5, <2>1 DEF SnapExpires, GuardInv, SeenAt, NoPhantomKill, broker
<1>. QED  BY <1>2, <1>3, <1>4, <1>5 DEF World

LEMMA GuardStep ==
  ASSUME HonestStatus, TypeOK, GuardInv, [Next]_vars
  PROVE  GuardInv'
<1>1. ASSUME NEW a \in Accounts, World(a) PROVE GuardInv'
  BY <1>1, GuardWorld
<1>2. CASE NewDay
  <2>1. Start \in Nat /\ snap \in [Accounts -> Snp] /\ bal \in [Accounts -> Nat]
    BY GuardAssumption DEF TypeOK, Snp
  <2>2. \A a \in Accounts : /\ snap'[a].first = Missing
                            /\ snap'[a].eq = snap[a].eq /\ snap'[a].bal = snap[a].bal
                            /\ closed'[a] = 0
    BY <1>2, <2>1 DEF NewDay, Snp
  <2>. QED  BY <1>2, <2>1, <2>2 DEF NewDay, GuardInv, SeenAt, NoPhantomKill, Missing
<1>3. ASSUME UNCHANGED <<bal, eq, closed, snap, down>>, kill' \subseteq kill \cup {Default}
      PROVE  GuardInv'
  BY <1>3 DEF GuardInv, SeenAt, NoPhantomKill
<1>4. ASSUME NEW a \in Accounts, Thread(a) PROVE GuardInv'
  <2>1. CASE Guardian(a)
    <3>1. UNCHANGED <<bal, eq, closed, snap, down>> /\ kill' \subseteq kill \cup {a}
      BY <2>1 DEF Guardian, broker
    <3>2. kill' # kill => a \in down  BY <2>1, LimitWasLost DEF Guardian
    <3>. QED  BY <3>1, <3>2 DEF GuardInv, SeenAt, NoPhantomKill
  <2>2. CASE ~Guardian(a)
    BY <1>3, <1>4, <2>2 DEF Thread, CheckKillSwitch, CheckBudget, OtherGuards, ProcessTrade,
                           ReadToday, WriteToday, broker
  <2>. QED  BY <2>1, <2>2
<1>5. CASE Engage \/ Reset \/ SwitchMode \/ Receive \/ Process \/ Done \/ Rollup
  BY <1>3, <1>5 DEF Engage, Reset, SwitchMode, Receive, Process, Done, Rollup, broker
<1>6. CASE UNCHANGED vars
  BY <1>3, <1>6 DEF vars, broker
<1>. QED
  BY <1>1, <1>2, <1>4, <1>5, <1>6 DEF Next

LEMMA InitGuard == ASSUME Init PROVE GuardInv
<1>1. Start \in Nat  BY GuardAssumption
<1>2. \A a \in Accounts : SeenAt(a, Start)  BY <1>1, NothingLost DEF SeenAt
<1>3. \A a \in Accounts : /\ bal[a] = Start /\ eq[a] = Start /\ closed[a] = 0
                          /\ snap[a].first = Missing /\ snap[a].eq = Missing
  BY DEF Init, NoSnap
<1>. QED  BY <1>1, <1>2, <1>3 DEF Init, GuardInv, NoPhantomKill, Missing

\* As long as no failed request for the balance is stored as a balance of zero, the
\* guardian stops only accounts that have lost the limit, for every limit and
\* balance and any number of nights, trades and snapshots that come and go.
THEOREM KillsAreEarned == ASSUME HonestStatus PROVE Spec => []NoPhantomKill
<1>1. TypeOK /\ GuardInv /\ [Next]_vars => GuardInv'  BY GuardStep
<1>2. Init => GuardInv  BY InitGuard
<1>3. GuardInv => NoPhantomKill  BY DEF GuardInv
<1>. QED  BY <1>1, <1>2, <1>3, TypeCorrect, PTL DEF Spec
-----------------------------------------------------------------------------
(* The day's risk budget.                                                  *)

Owed == placed * Risk

DefaultAt(stages) == Default \in Accounts /\ th[Default].at \in stages

\* What the default account has ordered is on record, but for the order it is
\* about to record; a number read before such an order may be written after it,
\* and then has the order's risk added to it.
Recorded ==
  /\ today[Default] + (IF DefaultAt({"record", "write"}) THEN Risk ELSE 0) >= Owed
  /\ \A a \in Accounts : th[a].at = "write" =>
       th[a].seen + (IF DefaultAt({"kill", "mtm", "budget", "rest", "go"}) THEN 0 ELSE Risk)
         >= Owed
  /\ DefaultAt({"rest", "go"}) => Owed < Budget
  /\ Owed < Budget + Risk

BudgetInv == ~unsure => Recorded

LEMMA Numbers ==
  ASSUME TypeOK
  PROVE  /\ Risk \in Nat /\ Risk > 0 /\ Budget \in Nat /\ Budget > 0
         /\ Owed \in Nat
         /\ th \in [Accounts -> Thd]
         /\ today \in [Names -> Nat] /\ Default \in Names
         /\ unsure \in BOOLEAN
<1>1. Risk \in Nat /\ Risk > 0 /\ Budget \in Nat /\ Budget > 0  BY GuardAssumption
<1>2. placed \in Nat  BY DEF TypeOK
<1>3. Owed \in Nat  BY <1>1, <1>2 DEF Owed
<1>. QED  BY <1>1, <1>3 DEF TypeOK, Thd, Stages, Names

\* A thread that goes on without an order and without the record.
LEMMA BudgetQuiet ==
  ASSUME TypeOK, Recorded, NEW a \in Accounts, NEW to \in Stages \ {"write"},
         th'[a].at = to, th'[a] \in Thd, Others(a),
         a = Default => \/ to = "off" /\ th[a].at \notin {"record", "write"}
                        \/ to \in {"mtm", "budget"} /\ th[a].at \in {"kill", "mtm"}
                        \/ to = "rest" /\ th[a].at = "budget" /\ today[Default] < Budget
                        \/ to = "go" /\ th[a].at = "rest"
                        \/ to = "record" /\ th[a].at = "go",
         UNCHANGED <<today, placed>>
  PROVE  Recorded'
<1>1. Owed' = Owed  BY DEF Owed
<1>2. \A b \in Accounts : th[b] \in Thd  BY Numbers
<1>3. CASE a # Default
  <2>1. \A s : DefaultAt(s)' <=> DefaultAt(s)  BY <1>3 DEF DefaultAt, Others
  <2>. QED  BY <1>1, <1>2, <2>1, Numbers DEF Recorded, Others, Thd
<1>4. CASE a = Default
  <2>1. \A s : DefaultAt(s)' <=> to \in s  BY <1>4 DEF DefaultAt
  <2>2. \A s : DefaultAt(s) <=> th[a].at \in s  BY <1>4 DEF DefaultAt
  <2>3. today[Default] \in Nat /\ (\A b \in Accounts : th[b].seen \in Nat)
    BY <1>2, Numbers DEF Thd
  <2>4. \A b \in Accounts : th'[b].at = "write" => b # a /\ th'[b] = th[b]
    BY DEF Others
  <2>. QED  BY <1>1, <1>4, <2>1, <2>2, <2>3, <2>4, Numbers DEF Recorded
<1>. QED  BY <1>3, <1>4

\* An order of the default account.
LEMMA BudgetOrder ==
  ASSUME TypeOK, Recorded, NEW a \in Accounts, th[a].at = "go", Goes(a, "record"), Fill(a),
         UNCHANGED today
  PROVE  Recorded'
<1>0. th'[a].at = "record" /\ th'[a] \in Thd /\ Others(a)
  BY Numbers DEF Goes, Others, Thd, Stages
<1>1. CASE a # Default
  BY <1>0, <1>1, BudgetQuiet DEF Fill, Stages
<1>2. CASE a = Default
  <2>1. Owed' = Owed + Risk
    <3>1. placed \in Nat /\ placed' = placed + 1 /\ Risk \in Nat
      BY <1>2, Numbers DEF Fill, TypeOK
    <3>2. (placed + 1) * Risk = placed * Risk + Risk  BY <3>1
    <3>. QED  BY <3>1, <3>2 DEF Owed
  <2>2. \A s : DefaultAt(s)' <=> "record" \in s  BY <1>0, <1>2 DEF DefaultAt
  <2>3. \A s : DefaultAt(s) <=> "go" \in s  BY <1>2 DEF DefaultAt
  <2>4. today[Default] \in Nat /\ (\A b \in Accounts : th[b].seen \in Nat)
    BY Numbers DEF Thd
  <2>5. \A b \in Accounts : th'[b].at = "write" => b # a /\ th'[b] = th[b]
    BY <1>0 DEF Others
  <2>. QED  BY <2>1, <2>2, <2>3, <2>4, <2>5, Numbers DEF Recorded
<1>. QED  BY <1>1, <1>2

LEMMA BudgetRead ==
  ASSUME TypeOK, Recorded, NEW a \in Accounts, th[a].at = "record",
         th' = [th EXCEPT ![a].at = "write", ![a].seen = today[Default]],
         UNCHANGED <<today, placed>>
  PROVE  Recorded'
<1>0. th'[a].at = "write" /\ th'[a].seen = today[Default] /\ Others(a)
  BY Numbers DEF Others, Thd
<1>1. Owed' = Owed  BY DEF Owed
<1>2. today[Default] \in Nat /\ (\A b \in Accounts : th[b].seen \in Nat)
  BY Numbers DEF Thd
<1>3. /\ DefaultAt({"record", "write"})' <=> DefaultAt({"record", "write"})
      /\ DefaultAt({"kill", "mtm", "budget", "rest", "go"})' <=>
           DefaultAt({"kill", "mtm", "budget", "rest", "go"})
      /\ DefaultAt({"rest", "go"})' <=> DefaultAt({"rest", "go"})
  BY <1>0 DEF DefaultAt, Others
<1>4. DefaultAt({"kill", "mtm", "budget", "rest", "go"}) => ~DefaultAt({"record", "write"})
  BY DEF DefaultAt
<1>5. today[Default] + (IF DefaultAt({"kill", "mtm", "budget", "rest", "go"}) THEN 0 ELSE Risk)
        >= Owed
  BY <1>2, <1>4, Numbers DEF Recorded
<1>6. ASSUME NEW b \in Accounts, th'[b].at = "write"
      PROVE  th'[b].seen + (IF DefaultAt({"kill", "mtm", "budget", "rest", "go"})
                            THEN 0 ELSE Risk) >= Owed
  <2>1. CASE b = a  BY <1>0, <1>5, <2>1
  <2>2. CASE b # a
    BY <1>0, <1>6, <2>2 DEF Others, Recorded
  <2>. QED  BY <2>1, <2>2
<1>. QED  BY <1>1, <1>3, <1>6, Numbers DEF Recorded

LEMMA BudgetWrite ==
  ASSUME TypeOK, Recorded, NEW a \in Accounts, th[a].at = "write", Stops(a),
         today' = [today EXCEPT ![Default] = th[a].seen + Risk],
         UNCHANGED placed
  PROVE  Recorded'
<1>0. th'[a].at = "off" /\ Others(a)
  BY Numbers DEF Stops, Others, Off
<1>1. Owed' = Owed  BY DEF Owed
<1>2. \A b \in Accounts : th[b].seen \in Nat  BY Numbers DEF Thd
<1>3. today'[Default] = th[a].seen + Risk  BY Numbers
<1>4. th[a].seen + Risk >= Owed  BY <1>2, Numbers DEF Recorded
<1>5. /\ DefaultAt({"kill", "mtm", "budget", "rest", "go"})' <=>
           DefaultAt({"kill", "mtm", "budget", "rest", "go"})
      /\ DefaultAt({"rest", "go"})' <=> DefaultAt({"rest", "go"})
  BY <1>0 DEF DefaultAt, Others
<1>6. \A b \in Accounts : th'[b].at = "write" => th[b].at = "write" /\ th'[b] = th[b]
  BY <1>0 DEF Others
<1>. QED  BY <1>1, <1>2, <1>3, <1>4, <1>5, <1>6, Numbers DEF Recorded

LEMMA BudgetThread ==
  ASSUME TypeOK, BudgetInv, NEW a \in Accounts, Thread(a)
  PROVE  BudgetInv'
<1>. SUFFICES ASSUME ~unsure' PROVE Recorded'
  BY DEF BudgetInv
<1>1. Others(a) /\ th'[a] \in Thd  BY ThreadType
<1>2. ASSUME NEW to \in Stages, Goes(a, to) PROVE th'[a].at = to
  BY <1>2, Numbers DEF Goes, Thd
<1>3. ASSUME Stops(a) PROVE th'[a].at = "off"
  BY <1>3, Numbers DEF Stops, Off
<1>4. ASSUME NEW to \in Stages, Blindly(a, to) PROVE th'[a].at = to
  BY <1>4, Numbers DEF Blindly, Thd
<1>5. CASE CheckKillSwitch(a)
  <2>1. Recorded  BY <1>5 DEF CheckKillSwitch, BudgetInv
  <2>2. th[a].at = "kill" /\ th'[a].at \in {"off", "mtm"} /\ UNCHANGED <<today, placed>>
    BY <1>2, <1>3, <1>4, <1>5 DEF CheckKillSwitch, FailsClosed, Stages
  <2>. QED  BY <1>1, <2>1, <2>2, BudgetQuiet DEF Stages
<1>6. CASE Guardian(a)
  <2>1. Recorded  BY <1>6 DEF Guardian, BudgetInv
  <2>2. th[a].at = "mtm" /\ th'[a].at \in {"off", "budget"} /\ UNCHANGED <<today, placed>>
    BY <1>2, <1>3, <1>6 DEF Guardian, Stages
  <2>. QED  BY <1>1, <2>1, <2>2, BudgetQuiet DEF Stages
<1>7. CASE CheckBudget(a)
  <2>1. UNCHANGED <<today, placed, unsure>> /\ th[a].at = "budget"
    BY <1>7, Numbers DEF CheckBudget
  <2>2. Recorded  BY <2>1 DEF BudgetInv
  <2>3. \/ th'[a].at = "off"
        \/ th'[a].at = "rest" /\ today[a] < Budget
    BY <1>2, <1>3, <1>7 DEF CheckBudget, Stages
  <2>. QED  BY <1>1, <2>1, <2>2, <2>3, BudgetQuiet DEF Stages
<1>8. CASE OtherGuards(a)
  <2>1. Recorded  BY <1>8 DEF OtherGuards, BudgetInv
  <2>2. th[a].at = "rest" /\ th'[a].at \in {"off", "go"} /\ UNCHANGED <<today, placed>>
    BY <1>2, <1>3, <1>8 DEF OtherGuards, Stages
  <2>. QED  BY <1>1, <2>1, <2>2, BudgetQuiet DEF Stages
<1>9. CASE ProcessTrade(a)
  <2>1. UNCHANGED <<today, unsure>> /\ th[a].at = "go"
    BY <1>9, Numbers DEF ProcessTrade
  <2>2. Recorded  BY <2>1 DEF BudgetInv
  <2>3. CASE Goes(a, "record") /\ Fill(a)
    BY <2>1, <2>2, <2>3, BudgetOrder
  <2>4. CASE Goes(a, "record") /\ UNCHANGED placed
    <3>1. th'[a].at = "record"  BY <1>2, <2>4 DEF Stages
    <3>. QED  BY <1>1, <2>1, <2>2, <2>4, <3>1, BudgetQuiet DEF Stages
  <2>5. CASE Stops(a) /\ UNCHANGED placed
    <3>1. th'[a].at = "off"  BY <1>3, <2>5
    <3>. QED  BY <1>1, <2>1, <2>2, <2>5, <3>1, BudgetQuiet DEF Stages
  <2>. QED  BY <1>9, <2>3, <2>4, <2>5 DEF ProcessTrade
<1>10. CASE ReadToday(a)
  <2>1. Recorded /\ UNCHANGED <<today, placed>>
    BY <1>10 DEF ReadToday, BudgetInv
  <2>2. th' = [th EXCEPT ![a].at = "write", ![a].seen = today[Default]] /\ th[a].at = "record"
    BY <1>10 DEF ReadToday, RecordKey
  <2>. QED  BY <2>1, <2>2, BudgetRead
<1>11. CASE WriteToday(a)
  BY <1>11, BudgetWrite DEF WriteToday, RecordKey, BudgetInv
<1>. QED
  BY <1>5, <1>6, <1>7, <1>8, <1>9, <1>10, <1>11, ThreadsType DEF Thread

LEMMA BudgetStep == ASSUME TypeOK, BudgetInv, [Next]_vars PROVE BudgetInv'
<1>1. ASSUME NEW a \in Accounts, Thread(a) PROVE BudgetInv'
  BY <1>1, BudgetThread
<1>2. ASSUME UNCHANGED <<today, placed, unsure>>,
             \A a \in Accounts : th'[a].at = th[a].at /\ th'[a].seen = th[a].seen
      PROVE  BudgetInv'
  <2>1. Owed' = Owed  BY <1>2 DEF Owed
  <2>2. \A s : DefaultAt(s)' <=> DefaultAt(s)  BY <1>2 DEF DefaultAt
  <2>. QED  BY <1>2, <2>1, <2>2 DEF BudgetInv, Recorded
<1>3. CASE (\E a \in Accounts : World(a)) \/ NewDay \/ SwitchMode \/ Engage \/ Receive \/ Done
  <2>1. UNCHANGED <<today, placed, unsure, th>>
    BY <1>3 DEF World, Moves, Closes, Sync, SnapExpires, NewDay, SwitchMode, Engage, Receive, Done
  <2>. QED  BY <1>2, <2>1
<1>4. CASE Reset
  <2>1. \A a \in Accounts : th'[a].at = th[a].at /\ th'[a].seen = th[a].seen
    BY <1>4, Numbers DEF Reset, Thd
  <2>. QED  BY <1>2, <1>4, <2>1 DEF Reset
<1>5. ASSUME msg.at # "work", NEW a \in Accounts PROVE th[a].at = "off"
  BY <1>5, Numbers DEF TypeOK, Thd, Stages
<1>6. CASE Process
  <2>1. \A a \in Accounts : th[a].at = "off"  BY <1>5, <1>6 DEF Process
  <2>2. \A a \in Accounts : th'[a].at \in {"off", "kill"}  BY <1>6 DEF Process, Off
  <2>3. Owed' = Owed  BY <1>6 DEF Process, Owed
  <2>4. /\ ~DefaultAt({"record", "write"}) /\ ~DefaultAt({"record", "write"})'
        /\ ~DefaultAt({"rest", "go"})'
    BY <2>1, <2>2 DEF DefaultAt
  <2>5. today' = today /\ unsure' = unsure /\ \A a \in Accounts : th'[a].at # "write"
    BY <1>6, <2>2 DEF Process
  <2>. QED  BY <2>3, <2>4, <2>5 DEF BudgetInv, Recorded
<1>7. CASE Rollup
  <2>1. th' = th /\ today'[Default] = 0 /\ placed' = 0
    BY <1>7, Numbers DEF Rollup
  <2>2. \A a \in Accounts : th'[a].at = "off"  BY <1>5, <1>7, <2>1 DEF Rollup
  <2>3. Owed' = 0  BY <2>1, Numbers DEF Owed
  <2>4. (\A a \in Accounts : th'[a].at # "write") /\ ~DefaultAt({"record", "write"})'
        /\ ~DefaultAt({"rest", "go"})'
    BY <2>2 DEF DefaultAt
  <2>. QED  BY <2>1, <2>3, <2>4, Numbers DEF BudgetInv, Recorded
<1>8. CASE UNCHANGED vars
  BY <1>2, <1>8 DEF vars
<1>. QED
  BY <1>1, <1>3, <1>4, <1>6, <1>7, <1>8 DEF Next

LEMMA InitBudget == ASSUME Init PROVE BudgetInv
<1>1. Owed = 0 /\ today[Default] = 0  BY GuardAssumption DEF Init, Owed, Names
<1>2. \A a \in Accounts : th[a].at = "off"  BY DEF Init, Off
<1>3. ~DefaultAt({"record", "write"}) /\ ~DefaultAt({"rest", "go"})
  BY <1>2 DEF DefaultAt
<1>. QED  BY <1>1, <1>2, <1>3, GuardAssumption DEF BudgetInv, Recorded

\* Between two rollups the default account orders at most one trade beyond its
\* budget, although the threads of the other accounts read and write the same
\* record between its own reading and writing, unless Redis failed.
THEOREM BudgetKept == Spec => []BudgetHolds
<1>1. TypeOK /\ BudgetInv /\ [Next]_vars => BudgetInv'  BY BudgetStep
<1>2. Init => BudgetInv  BY InitBudget
<1>3. BudgetInv => BudgetHolds  BY DEF BudgetInv, Recorded, BudgetHolds, Owed
<1>. QED  BY <1>1, <1>2, <1>3, TypeCorrect, PTL DEF Spec
=============================================================================
