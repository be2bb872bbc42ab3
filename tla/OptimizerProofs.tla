-------------------------- MODULE OptimizerProofs --------------------------
(***************************************************************************)
(* Proofs about the optimizer.                                             *)
(*                                                                         *)
(* The first part is about one execution, PairWorkers, for every set of    *)
(* pairs and workers and any number of attempts and executions.  The       *)
(* second is about its runs between API and agent, OptimizerRuns, for any  *)
(* number of runs, rows and requests; the third about the search on one    *)
(* tab, BacktestTrials, for any pairs, settings and reports.               *)
(***************************************************************************)
EXTENDS PairWorkers, OptimizerRuns, BacktestTrials, SequenceTheorems, TLAPS

Worker == [at : {"ready", "busy", "left", "dead"}, pair : SUBSET Pairs,
           tries : 0..MaxRetries, kept : BOOLEAN]

Files == [torn : BOOLEAN, of : [Pairs -> Statuses]]

LEMMA FreshType ==
  /\ Fresh \in Worker
  /\ Fresh.at = "ready" /\ Fresh.pair = {} /\ Fresh.kept = FALSE
  /\ \A s \in {"left", "dead"} :
       /\ [Fresh EXCEPT !.at = s] \in Worker
       /\ [Fresh EXCEPT !.at = s].at = s
       /\ [Fresh EXCEPT !.at = s].pair = {}
       /\ [Fresh EXCEPT !.at = s].kept = FALSE
  /\ \A p \in Pairs :
       /\ [Fresh EXCEPT !.at = "busy", !.pair = {p}] \in Worker
       /\ [Fresh EXCEPT !.at = "busy", !.pair = {p}].at = "busy"
       /\ [Fresh EXCEPT !.at = "busy", !.pair = {p}].pair = {p}
       /\ [Fresh EXCEPT !.at = "busy", !.pair = {p}].kept = FALSE
<1>0. 0 \in 0..MaxRetries  BY PairAssumption
<1>1. Fresh \in Worker  BY <1>0 DEF Fresh, Worker
<1>2. Fresh.at = "ready" /\ Fresh.pair = {} /\ Fresh.kept = FALSE  BY DEF Fresh
<1>3. ASSUME NEW s \in {"left", "dead"}
      PROVE  /\ [Fresh EXCEPT !.at = s] \in Worker
             /\ [Fresh EXCEPT !.at = s].at = s
             /\ [Fresh EXCEPT !.at = s].pair = {}
             /\ [Fresh EXCEPT !.at = s].kept = FALSE
  BY <1>0 DEF Fresh, Worker
<1>4. ASSUME NEW p \in Pairs
      PROVE  /\ [Fresh EXCEPT !.at = "busy", !.pair = {p}] \in Worker
             /\ [Fresh EXCEPT !.at = "busy", !.pair = {p}].at = "busy"
             /\ [Fresh EXCEPT !.at = "busy", !.pair = {p}].pair = {p}
             /\ [Fresh EXCEPT !.at = "busy", !.pair = {p}].kept = FALSE
  BY <1>0 DEF Fresh, Worker
<1>. QED  BY <1>1, <1>2, <1>3, <1>4

\* What a step of worker i does to the workers: its own record is new, no other.
LEMMA BecomeWorks ==
  ASSUME w \in [Workers -> Worker], NEW i \in Workers, NEW r \in Worker, Become(i, r)
  PROVE  /\ w' \in [Workers -> Worker]
         /\ w'[i] = r
         /\ \A j \in Workers \ {i} : w'[j] = w[j]
BY DEF Become

\* The three ways in which a result is stored.
Kept(p, outcome) ==
  /\ results' = [results EXCEPT ![p] = outcome]
  /\ disk' = [torn |-> FALSE, of |-> results']
  /\ proc' = proc

Dead(p, outcome) ==
  /\ "disk_full" \in Faults
  /\ results' = [results EXCEPT ![p] = outcome]
  /\ disk' \in {[disk EXCEPT !.torn = TRUE], [torn |-> FALSE, of |-> results']}
  /\ proc' = proc

Torn(p, outcome) ==
  /\ results' = [results EXCEPT ![p] = outcome]
  /\ disk' = [disk EXCEPT !.torn = TRUE]
  /\ proc' = "off"
  /\ w' = w

LEMMA StoredCases ==
  ASSUME w \in [Workers -> Worker], NEW i \in Workers, NEW p, NEW outcome,
         Stored(i, p, outcome)
  PROVE  \/ Kept(p, outcome) /\ Become(i, Fresh) /\ w'[i] = Fresh
         \/ Dead(p, outcome) /\ Become(i, [Fresh EXCEPT !.at = "dead"]) /\ w'[i] # Fresh
         \/ Torn(p, outcome)
<1>1. Become(i, Fresh) => w'[i] = Fresh  BY DEF Become
<1>2. Become(i, [Fresh EXCEPT !.at = "dead"]) => w'[i].at = "dead"
  BY DEF Become, Fresh
<1>3. Fresh.at # "dead"  BY DEF Fresh
<1>. QED  BY <1>1, <1>2, <1>3 DEF Stored, Kept, Dead, Torn

\* Succeed, Skip and GiveUp store one result of the pair in hand, and say the
\* same of it, if anything.
Stores(i) ==
  \E p \in Pairs, outcome, event \in Outcomes :
    /\ Busy(i, p)
    /\ Stored(i, p, outcome)
    /\ Says(p, event) \/ (UNCHANGED said /\ w'[i] # Fresh)
    /\ event # outcome => w[i].kept \/ "disk_full" \in Faults
    /\ UNCHANGED <<queue, runs>>

LEMMA WorkCases ==
  ASSUME TypeOK, NEW i \in Workers, Work(i)
  PROVE  Take(i) \/ Leave(i) \/ Retry(i) \/ Stores(i)
<1>1. CASE Succeed(i)
  BY <1>1 DEF Succeed, Stores, Outcomes, TypeOK
<1>2. CASE Skip(i)
  BY <1>2 DEF Skip, StoredThenSaid, Stores, Outcomes, TypeOK
<1>3. CASE GiveUp(i)
  <2>1. PICK p \in Pairs, kept \in KeptAfterwards(i) :
          Busy(i, p) /\ StoredThenSaid(i, p, IF kept THEN "completed" ELSE "failed", "failed")
    BY <1>3 DEF GiveUp
  <2>2. kept => w[i].kept \/ "disk_full" \in Faults  BY <2>1 DEF KeptAfterwards
  <2>. QED  BY <1>3, <2>1, <2>2 DEF GiveUp, StoredThenSaid, Stores, Outcomes
<1>. QED  BY <1>1, <1>2, <1>3 DEF Work
-----------------------------------------------------------------------------
(* Types.                                                                  *)

LEMMA TypeStep == ASSUME TypeOK, [Next]_vars PROVE TypeOK'
<1>0. w \in [Workers -> Worker] /\ disk \in Files  BY DEF TypeOK, Worker, Files
<1>1. CASE Start
  <2>1. Load \in [Pairs -> Statuses]  BY <1>0 DEF Load, Files, Nothing, Statuses
  <2>2. w' \in [Workers -> Worker]  BY <1>1, FreshType DEF Start
  <2>3. Nothing \in [Pairs -> Statuses]  BY DEF Nothing, Statuses
  <2>4. proc' \in {"off", "running"} /\ queue' \in [Pairs -> Nat] /\ runs' \in Nat
    BY <1>1, PairAssumption DEF Start, TypeOK
  <2>. QED  BY <1>1, <2>1, <2>2, <2>3, <2>4 DEF Start, TypeOK, Worker
<1>2. CASE PrepareFails  BY <1>2 DEF PrepareFails, TypeOK
<1>3. CASE Finish  BY <1>3 DEF Finish, TypeOK
<1>4. CASE Killed  BY <1>4 DEF Killed, TypeOK
<1>5. ASSUME NEW i \in Workers, Work(i) PROVE TypeOK'
  <2>1. CASE Take(i)
    <3>1. PICK p \in Pairs : /\ queue[p] > 0 /\ queue' = [queue EXCEPT ![p] = @ - 1]
                             /\ Become(i, [Fresh EXCEPT !.at = "busy", !.pair = {p}])
      BY <2>1 DEF Take
    <3>2. w' \in [Workers -> Worker]  BY <1>0, <3>1, FreshType, BecomeWorks
    <3>3. queue' \in [Pairs -> Nat]  BY <3>1 DEF TypeOK
    <3>. QED  BY <2>1, <3>2, <3>3 DEF Take, TypeOK, Worker
  <2>2. CASE Leave(i)
    <3>1. w' \in [Workers -> Worker]  BY <1>0, <2>2, FreshType, BecomeWorks DEF Leave
    <3>. QED  BY <2>2, <3>1 DEF Leave, TypeOK, Worker
  <2>3. CASE Retry(i)
    <3>1. PICK kept \in BOOLEAN : Become(i, [w[i] EXCEPT !.tries = @ + 1, !.kept = kept])
      BY <1>0, <2>3 DEF Retry, KeptAfterwards, Worker
    <3>2. [w[i] EXCEPT !.tries = @ + 1, !.kept = kept] \in Worker
      <4>1. w[i] \in Worker /\ w[i].tries < MaxRetries  BY <1>0, <2>3 DEF Retry
      <4>2. w[i].tries + 1 \in 0..MaxRetries  BY <4>1, PairAssumption DEF Worker
      <4>. QED  BY <4>1, <4>2 DEF Worker
    <3>3. w' \in [Workers -> Worker]  BY <1>0, <3>1, <3>2, BecomeWorks
    <3>. QED  BY <2>3, <3>3 DEF Retry, TypeOK, Worker
  <2>4. CASE Stores(i)
    <3>1. PICK p \in Pairs, outcome, event \in Outcomes :
            /\ Stored(i, p, outcome)
            /\ Says(p, event) \/ UNCHANGED said
            /\ UNCHANGED <<queue, runs>>
      BY <2>4 DEF Stores
    <3>2. said' \in [Pairs -> Statuses]  BY <3>1 DEF Says, TypeOK, Statuses
    <3>3. [results EXCEPT ![p] = outcome] \in [Pairs -> Statuses]
      BY <3>1 DEF TypeOK, Statuses
    <3>4. /\ results' \in [Pairs -> Statuses] /\ disk' \in Files
          /\ proc' \in {proc, "off"}
      <4>1. Kept(p, outcome) \/ Dead(p, outcome) \/ Torn(p, outcome)
        BY <1>0, <3>1, StoredCases
      <4>2. [disk EXCEPT !.torn = TRUE] \in Files  BY <1>0 DEF Files
      <4>3. results' = [results EXCEPT ![p] = outcome]
        BY <4>1 DEF Kept, Dead, Torn
      <4>4. results' \in [Pairs -> Statuses]  BY <4>3, <3>3
      <4>5. [torn |-> FALSE, of |-> results'] \in Files  BY <4>4 DEF Files
      <4>6. disk' \in {[disk EXCEPT !.torn = TRUE], [torn |-> FALSE, of |-> results']}
        BY <4>1 DEF Kept, Dead, Torn
      <4>. QED  BY <4>1, <4>2, <4>4, <4>5, <4>6 DEF Kept, Dead, Torn
    <3>5. w' \in [Workers -> Worker]
      BY <1>0, <3>1, StoredCases, FreshType, BecomeWorks DEF Torn
    <3>. QED  BY <3>1, <3>2, <3>4, <3>5 DEF TypeOK, Worker, Files
  <2>. QED  BY <1>5, <2>1, <2>2, <2>3, <2>4, WorkCases
<1>6. CASE UNCHANGED vars  BY <1>6 DEF vars, TypeOK
<1>. QED  BY <1>1, <1>2, <1>3, <1>4, <1>5, <1>6 DEF Next

LEMMA InitType == Init => TypeOK
<1>. SUFFICES ASSUME Init PROVE TypeOK  OBVIOUS
<1>1. w \in [Workers -> Worker]  BY FreshType DEF Init
<1>. QED  BY <1>1 DEF Init, TypeOK, Nothing, NoQueue, Statuses, Worker

\* Every variable keeps its type.
THEOREM TypeCorrect == Spec => []TypeOK
BY InitType, TypeStep, PTL DEF Spec
-----------------------------------------------------------------------------
(* A pair that is listed once is in one pair of hands, whatever fails.     *)

ListedOnce == \A p \in Pairs : Times[p] = 1

\* What OnePlace lacks to be inductive: a pair is once in the queue at most, and
\* one in a worker's hands has left it.
PlaceInv ==
  /\ OnePlace
  /\ proc = "running" => \A p \in Pairs : /\ queue[p] \in {0, 1}
                                          /\ \A i \in Workers : p \in w[i].pair => queue[p] = 0

LEMMA PlaceInit == Init => PlaceInv
BY DEF Init, PlaceInv, OnePlace

\* Storing a result puts the pair down; the others hold what they held.
LEMMA StoresPlaces ==
  ASSUME TypeOK, NEW i \in Workers, NEW p \in Pairs, NEW outcome,
         Stored(i, p, outcome), proc' = "running"
  PROVE  /\ results' = [results EXCEPT ![p] = outcome]
         /\ w'[i].pair = {} /\ w'[i].kept = FALSE
         /\ w'[i].at \in {"ready", "dead"}
         /\ \A j \in Workers \ {i} : w'[j] = w[j]
         /\ "disk_full" \notin Faults =>
              w'[i].at = "ready" /\ disk' = [torn |-> FALSE, of |-> results']
<1>0. w \in [Workers -> Worker]  BY DEF TypeOK, Worker
<1>1. CASE Kept(p, outcome) /\ Become(i, Fresh)
  <2>1. w'[i] = Fresh /\ \A j \in Workers \ {i} : w'[j] = w[j]
    BY <1>0, <1>1, FreshType, BecomeWorks
  <2>. QED  BY <1>1, <2>1, FreshType DEF Kept
<1>2. CASE Dead(p, outcome) /\ Become(i, [Fresh EXCEPT !.at = "dead"])
  <2>1. /\ w'[i] = [Fresh EXCEPT !.at = "dead"]
        /\ \A j \in Workers \ {i} : w'[j] = w[j]
    BY <1>0, <1>2, FreshType, BecomeWorks
  <2>. QED  BY <1>2, <2>1, FreshType DEF Dead
<1>3. ~Torn(p, outcome)  BY DEF Torn
<1>. QED  BY <1>0, <1>1, <1>2, <1>3, StoredCases

\* Taking a pair, leaving and trying again, in the terms of the invariants.
LEMMA TakePlaces ==
  ASSUME TypeOK, NEW i \in Workers, Take(i)
  PROVE  \E p \in Pairs :
           /\ queue[p] > 0 /\ queue' = [queue EXCEPT ![p] = @ - 1]
           /\ w'[i].at = "busy" /\ w'[i].pair = {p} /\ w'[i].kept = FALSE
           /\ \A j \in Workers \ {i} : w'[j] = w[j]
<1>1. PICK p \in Pairs : /\ queue[p] > 0 /\ queue' = [queue EXCEPT ![p] = @ - 1]
                         /\ Become(i, [Fresh EXCEPT !.at = "busy", !.pair = {p}])
  BY DEF Take
<1>2. w \in [Workers -> Worker]  BY DEF TypeOK, Worker
<1>3. /\ w'[i] = [Fresh EXCEPT !.at = "busy", !.pair = {p}]
      /\ \A j \in Workers \ {i} : w'[j] = w[j]
  BY <1>1, <1>2, FreshType, BecomeWorks
<1>. QED  BY <1>1, <1>2, <1>3, FreshType

LEMMA LeavePlaces ==
  ASSUME TypeOK, NEW i \in Workers, Leave(i)
  PROVE  /\ w'[i].at = "left" /\ w'[i].pair = {} /\ w'[i].kept = FALSE
         /\ \A j \in Workers \ {i} : w'[j] = w[j]
<1>1. w \in [Workers -> Worker]  BY DEF TypeOK, Worker
<1>2. /\ w'[i] = [Fresh EXCEPT !.at = "left"]
      /\ \A j \in Workers \ {i} : w'[j] = w[j]
  BY <1>1, FreshType, BecomeWorks DEF Leave
<1>. QED  BY <1>2, FreshType

LEMMA RetryPlaces ==
  ASSUME TypeOK, NEW i \in Workers, Retry(i)
  PROVE  /\ w'[i].at = w[i].at /\ w'[i].pair = w[i].pair
         /\ w'[i].kept \in KeptAfterwards(i)
         /\ \A j \in Workers \ {i} : w'[j] = w[j]
<1>1. PICK kept \in KeptAfterwards(i) :
        Become(i, [w[i] EXCEPT !.tries = @ + 1, !.kept = kept])
  BY DEF Retry
<1>2. w \in [Workers -> Worker] /\ w[i] \in Worker  BY DEF TypeOK, Worker
<1>3. /\ w'[i] = [w[i] EXCEPT !.tries = @ + 1, !.kept = kept]
      /\ \A j \in Workers \ {i} : w'[j] = w[j]
  BY <1>1, <1>2 DEF Become
<1>. QED  BY <1>2, <1>3 DEF Worker

LEMMA PlaceStep == ASSUME ListedOnce, TypeOK, PlaceInv, [Next]_vars PROVE PlaceInv'
<1> DEFINE Hands == \A k, j \in Workers : k # j => w[k].pair \cap w[j].pair = {}
           Queued1 == \A q \in Pairs : queue[q] \in {0, 1}
           Away == \A q \in Pairs, k \in Workers : q \in w[k].pair => queue[q] = 0
           Done == \A q \in Pairs : results[q] # "none" =>
                     queue[q] = 0 /\ \A k \in Workers : q \notin w[k].pair
           Goal == Hands /\ Queued1 /\ Away /\ Done
<1>0. proc = "running" => Goal  BY DEF PlaceInv, OnePlace
<1>. SUFFICES ASSUME proc' = "running" PROVE Goal'
  BY DEF PlaceInv, OnePlace
<1>1. CASE Start
  <2>1. \A k \in Workers : w'[k].pair = {}  BY <1>1, FreshType DEF Start
  <2>2. \A q \in Pairs : queue'[q] = IF results'[q] = "none" THEN 1 ELSE 0
    BY <1>1 DEF Start, ListedOnce
  <2>. QED  BY <2>1, <2>2
<1>2. CASE PrepareFails \/ Finish \/ Killed  BY <1>2 DEF PrepareFails, Finish, Killed
<1>3. ASSUME NEW i \in Workers, Work(i) PROVE Goal'
  <2>1. CASE Take(i)
    <3>1. proc = "running" /\ results' = results  BY <2>1 DEF Take
    <3>2. PICK p \in Pairs : /\ queue[p] > 0 /\ queue' = [queue EXCEPT ![p] = @ - 1]
                             /\ w'[i].pair = {p}
                             /\ \A j \in Workers \ {i} : w'[j] = w[j]
      BY <2>1, TakePlaces
    <3>3. /\ queue[p] = 1 /\ queue'[p] = 0
          /\ \A q \in Pairs : q # p => queue'[q] = queue[q]
      BY <1>0, <3>1, <3>2 DEF TypeOK
    <3>4. results[p] = "none" /\ \A k \in Workers : p \notin w[k].pair
      BY <1>0, <3>1, <3>3
    <3>5. Hands' /\ Away'  BY <1>0, <3>1, <3>2, <3>3, <3>4
    <3>6. Queued1'  BY <1>0, <3>1, <3>3
    <3>7. ASSUME NEW q \in Pairs, results'[q] # "none"
          PROVE  queue'[q] = 0 /\ \A k \in Workers : q \notin w'[k].pair
      <4>1. q # p  BY <3>1, <3>4, <3>7
      <4>. QED  BY <1>0, <3>1, <3>2, <3>3, <3>7, <4>1
    <3>. QED  BY <3>5, <3>6, <3>7
  <2>2. CASE Leave(i)
    <3>1. proc = "running" /\ results' = results /\ queue' = queue  BY <2>2 DEF Leave
    <3>2. w'[i].pair = {} /\ \A j \in Workers \ {i} : w'[j] = w[j]
      BY <2>2, LeavePlaces
    <3>. QED  BY <1>0, <3>1, <3>2
  <2>3. CASE Retry(i)
    <3>1. proc = "running" /\ results' = results /\ queue' = queue
      BY <2>3 DEF Retry, Busy
    <3>2. w'[i].pair = w[i].pair /\ \A j \in Workers \ {i} : w'[j] = w[j]
      BY <2>3, RetryPlaces
    <3>. QED  BY <1>0, <3>1, <3>2
  <2>4. CASE Stores(i)
    <3>1. PICK p \in Pairs, outcome \in Outcomes :
            Busy(i, p) /\ Stored(i, p, outcome) /\ queue' = queue
      BY <2>4 DEF Stores
    <3>2. /\ results' = [results EXCEPT ![p] = outcome] /\ w'[i].pair = {}
          /\ \A j \in Workers \ {i} : w'[j] = w[j]
      BY <3>1, StoresPlaces
    <3>3. proc = "running" /\ w[i].pair = {p}  BY <3>1 DEF Busy
    <3>4. \A q \in Pairs : q # p => results'[q] = results[q]  BY <3>2 DEF TypeOK
    <3>5. queue[p] = 0 /\ \A k \in Workers \ {i} : p \notin w[k].pair  BY <1>0, <3>3
    <3>6. Hands' /\ Queued1' /\ Away'  BY <1>0, <3>1, <3>2, <3>3
    <3>7. Done'  BY <1>0, <3>1, <3>2, <3>3, <3>4, <3>5
    <3>. QED  BY <3>6, <3>7
  <2>. QED  BY <1>3, <2>1, <2>2, <2>3, <2>4, WorkCases
<1>4. CASE UNCHANGED vars  BY <1>0, <1>4 DEF vars
<1>. QED  BY <1>1, <1>2, <1>3, <1>4 DEF Next

\* OnePlace: no pair is with two workers at once or with a worker and in the
\* queue, and none that has its result comes back, with any faults, if the list
\* names none twice.
THEOREM PlaceIsOne ==
  ASSUME \A p \in Pairs : Times[p] = 1
  PROVE  Spec => []OnePlace
<1>1. ListedOnce  BY DEF ListedOnce
<1>2. PlaceInv => OnePlace  BY DEF PlaceInv
<1>. QED  BY PlaceInit, PlaceStep, TypeCorrect, <1>1, <1>2, PTL DEF Spec
-----------------------------------------------------------------------------
(* Every pair is handled, when the disk takes what is written.             *)

Handed(p) == queue[p] > 0 \/ \E i \in Workers : p \in w[i].pair

\* While the process runs the file says what the dictionary says, but for a
\* torn file that a start has taken for none; no coroutine has died; each pair
\* without a result is in somebody's hands, and only busy workers hold one.
RunningInv ==
  /\ IF disk.torn THEN results = Nothing ELSE disk.of = results
  /\ \A i \in Workers :
       /\ ~w[i].kept
       /\ w[i].at # "dead"
       /\ w[i].at # "busy" => w[i].pair = {}
       /\ w[i].at = "left" => queue = NoQueue
  /\ \A p \in Pairs : results[p] = "none" => Handed(p)

\* What is said of a pair is what is in the file.
SaidInv == \A p \in Pairs : said[p] # "none" => ~disk.torn /\ disk.of[p] = said[p]

HandledInv ==
  /\ proc = "running" => RunningInv
  /\ proc # "off" => SaidInv
  /\ proc = "finished" /\ Workers # {} => \A p \in Pairs : disk.of[p] # "none"

DiskTakes == "disk_full" \notin Faults

LEMMA HandledInit == Init => HandledInv
BY DEF Init, HandledInv, SaidInv, Nothing

LEMMA HandledStart == ASSUME TypeOK, Start PROVE HandledInv'
<1>1. proc' \in {"off", "running"} /\ results' = Load /\ disk' = disk /\ said' = Nothing
  BY DEF Start
<1>2. IF disk'.torn THEN results' = Nothing ELSE disk'.of = results'  BY <1>1 DEF Load
<1>3. \A i \in Workers : w'[i].at = "ready" /\ w'[i].pair = {} /\ w'[i].kept = FALSE
  BY FreshType DEF Start
<1>4. \A p \in Pairs : results'[p] = "none" => queue'[p] > 0
  BY PairAssumption DEF Start
<1>5. RunningInv'  BY <1>2, <1>3, <1>4 DEF RunningInv, Handed
<1>6. SaidInv'  BY <1>1 DEF SaidInv, Nothing
<1>. QED  BY <1>1, <1>5, <1>6 DEF HandledInv

LEMMA HandledFinish ==
  ASSUME TypeOK, HandledInv, Finish
  PROVE  HandledInv'
<1>1. /\ proc = "running" /\ proc' = "finished"
      /\ \A i \in Workers : w[i].at \in {"left", "dead"}
      /\ disk' = disk /\ said' = said
  BY DEF Finish
<1>2. RunningInv /\ SaidInv  BY <1>1 DEF HandledInv
<1>3. Workers # {} => (\A p \in Pairs : queue[p] = 0) /\ \A i \in Workers : w[i].pair = {}
  BY <1>1, <1>2 DEF RunningInv, NoQueue
<1>4. Workers # {} => \A p \in Pairs : results[p] # "none"
  BY <1>2, <1>3 DEF RunningInv, Handed
<1>5. Workers # {} => \A p \in Pairs : disk.of[p] # "none"
  BY <1>2, <1>4 DEF RunningInv, Nothing
<1>6. SaidInv'  BY <1>1, <1>2 DEF SaidInv
<1>. QED  BY <1>1, <1>5, <1>6 DEF HandledInv

LEMMA HandledWork ==
  ASSUME TypeOK, HandledInv, DiskTakes, NEW i \in Workers, Work(i)
  PROVE  HandledInv'
<1>0. proc = "running" /\ RunningInv /\ SaidInv
  BY DEF Work, Take, Leave, Succeed, Skip, Retry, GiveUp, Busy, HandledInv
<1>1. CASE Take(i)
  <2>1. PICK p \in Pairs :
          /\ queue[p] > 0 /\ queue' = [queue EXCEPT ![p] = @ - 1]
          /\ w'[i].at = "busy" /\ w'[i].pair = {p} /\ w'[i].kept = FALSE
          /\ \A j \in Workers \ {i} : w'[j] = w[j]
    BY <1>1, TakePlaces
  <2>2. /\ proc' = "running" /\ results' = results /\ disk' = disk /\ said' = said
        /\ w[i].at = "ready"
    BY <1>0, <1>1 DEF Take
  <2>3. ASSUME NEW q \in Pairs, results'[q] = "none" PROVE Handed(q)'
    <3>1. Handed(q)  BY <1>0, <2>2, <2>3 DEF RunningInv
    <3>2. w[i].pair = {}  BY <1>0, <2>2 DEF RunningInv
    <3>3. CASE q = p  BY <2>1, <3>3 DEF Handed
    <3>4. CASE q # p
      <4>1. queue'[q] = queue[q]  BY <2>1, <3>4 DEF TypeOK
      <4>. QED  BY <2>1, <3>1, <3>2, <4>1 DEF Handed
    <3>. QED  BY <3>3, <3>4
  <2>4. queue # NoQueue  BY <2>1 DEF NoQueue
  <2>5. RunningInv'  BY <1>0, <2>1, <2>2, <2>3, <2>4 DEF RunningInv
  <2>. QED  BY <1>0, <2>2, <2>5 DEF HandledInv, SaidInv
<1>2. CASE Leave(i)
  <2>1. /\ w'[i].at = "left" /\ w'[i].pair = {} /\ w'[i].kept = FALSE
        /\ \A j \in Workers \ {i} : w'[j] = w[j]
    BY <1>2, LeavePlaces
  <2>2. /\ proc' = "running" /\ results' = results /\ disk' = disk /\ said' = said
        /\ queue' = queue /\ queue = NoQueue /\ w[i].at = "ready"
    BY <1>0, <1>2 DEF Leave
  <2>3. ASSUME NEW q \in Pairs, results'[q] = "none" PROVE Handed(q)'
    <3>1. Handed(q)  BY <1>0, <2>2, <2>3 DEF RunningInv
    <3>2. w[i].pair = {}  BY <1>0, <2>2 DEF RunningInv
    <3>. QED  BY <2>1, <2>2, <3>1, <3>2 DEF Handed
  <2>4. RunningInv'  BY <1>0, <2>1, <2>2, <2>3 DEF RunningInv
  <2>. QED  BY <1>0, <2>2, <2>4 DEF HandledInv, SaidInv
<1>3. CASE Retry(i)
  <2>1. /\ w'[i].at = w[i].at /\ w'[i].pair = w[i].pair
        /\ \A j \in Workers \ {i} : w'[j] = w[j]
    BY <1>3, RetryPlaces
  <2>2. /\ proc' = "running" /\ results' = results /\ disk' = disk /\ said' = said
        /\ queue' = queue
    BY <1>0, <1>3 DEF Retry
  <2>3. ~w'[i].kept  BY <1>0, <1>3, RetryPlaces DEF KeptAfterwards, RunningInv, DiskTakes
  <2>4. ASSUME NEW q \in Pairs, results'[q] = "none" PROVE Handed(q)'
    <3>1. Handed(q)  BY <1>0, <2>2, <2>4 DEF RunningInv
    <3>. QED  BY <2>1, <2>2, <3>1 DEF Handed
  <2>5. RunningInv'  BY <1>0, <2>1, <2>2, <2>3, <2>4 DEF RunningInv
  <2>. QED  BY <1>0, <2>2, <2>5 DEF HandledInv, SaidInv
<1>4. CASE Stores(i)
  <2>1. PICK p \in Pairs, outcome, event \in Outcomes :
          /\ Busy(i, p)
          /\ Stored(i, p, outcome)
          /\ Says(p, event) \/ (UNCHANGED said /\ w'[i] # Fresh)
          /\ event # outcome => w[i].kept \/ "disk_full" \in Faults
          /\ queue' = queue
    BY <1>4 DEF Stores
  <2>2. proc' \in {"running", "off"}
    BY <1>0, <2>1 DEF Stored
  <2>3. CASE proc' = "running"
    <3>1. /\ results' = [results EXCEPT ![p] = outcome]
          /\ disk' = [torn |-> FALSE, of |-> results']
          /\ w'[i].at = "ready" /\ w'[i].pair = {} /\ w'[i].kept = FALSE
          /\ \A j \in Workers \ {i} : w'[j] = w[j]
      <4>1. Stored(i, p, outcome)  BY <2>1
      <4>2. "disk_full" \notin Faults  BY DEF DiskTakes
      <4>. QED  BY <2>3, <4>1, <4>2, StoresPlaces
    <3>2. /\ \A q \in Pairs : q # p => results'[q] = results[q]
          /\ results'[p] = outcome /\ outcome # "none"
      BY <2>1, <3>1 DEF TypeOK, Outcomes
    <3>3. w[i].pair = {p}  BY <2>1 DEF Busy
    <3>4. ASSUME NEW q \in Pairs, results'[q] = "none" PROVE Handed(q)'
      <4>1. q # p /\ Handed(q)  BY <1>0, <3>2, <3>4 DEF RunningInv
      <4>. QED  BY <2>1, <3>1, <3>3, <4>1 DEF Handed
    <3>5. RunningInv'  BY <1>0, <2>1, <3>1, <3>4 DEF RunningInv
    <3>6. event = outcome  BY <1>0, <2>1 DEF RunningInv, DiskTakes
    <3>7. ~disk'.torn /\ disk'.of = results'  BY <3>1
    <3>8. ASSUME NEW q \in Pairs, said'[q] # "none" PROVE disk'.of[q] = said'[q]
      <4>1. CASE q = p
        <5>1. w'[i] = Fresh
          <6>1. w \in [Workers -> Worker]  BY DEF TypeOK, Worker
          <6>2. ~Torn(p, outcome)  BY <2>3 DEF Torn
          <6>3. ~Dead(p, outcome)  BY DEF Dead, DiskTakes
          <6>. QED  BY <2>1, <6>1, <6>2, <6>3, StoredCases
        <5>2. said'[p] = event  BY <2>1, <5>1 DEF Says, TypeOK
        <5>. QED  BY <3>2, <3>6, <3>7, <4>1, <5>2
      <4>2. CASE q # p
        <5>1. said'[q] = said[q]  BY <2>1, <4>2 DEF Says, TypeOK
        <5>2. ~disk.torn /\ disk.of[q] = said[q]  BY <1>0, <3>8, <5>1 DEF SaidInv
        <5>3. disk.of = results  BY <1>0, <5>2 DEF RunningInv
        <5>. QED  BY <3>2, <3>7, <4>2, <5>1, <5>2, <5>3
      <4>. QED  BY <4>1, <4>2
    <3>9. SaidInv'  BY <3>7, <3>8 DEF SaidInv
    <3>. QED  BY <2>3, <3>5, <3>9 DEF HandledInv
  <2>. QED  BY <2>2, <2>3 DEF HandledInv
<1>. QED  BY <1>1, <1>2, <1>3, <1>4, WorkCases

LEMMA HandledStep ==
  ASSUME TypeOK, HandledInv, DiskTakes, [Next]_vars
  PROVE  HandledInv'
<1>1. CASE PrepareFails \/ Killed  BY <1>1 DEF PrepareFails, Killed, HandledInv
<1>2. CASE UNCHANGED vars
  BY <1>2 DEF vars, HandledInv, RunningInv, SaidInv, Handed
<1>. QED  BY <1>1, <1>2, HandledStart, HandledFinish, HandledWork DEF Next

LEMMA Handled ==
  ASSUME DiskTakes
  PROVE  Spec => [](TypeOK /\ HandledInv)
BY InitType, TypeStep, HandledInit, HandledStep, PTL DEF Spec

\* AllHandled: with a disk that takes what is written and at least one tab, a
\* run that has printed run_finished leaves no pair out, however often it is
\* listed.
THEOREM FinishedHandlesAll ==
  ASSUME "disk_full" \notin Faults, Workers # {}
  PROVE  Spec => []AllHandled
<1>1. DiskTakes  BY DEF DiskTakes
<1>2. HandledInv => AllHandled  BY DEF HandledInv, AllHandled
<1>3. Spec => [](TypeOK /\ HandledInv)  BY <1>1, Handled
<1>. QED  BY <1>2, <1>3, PTL

\* EventMatchesFile: what the last event says of a pair is what the file says.
THEOREM EventsTellTheFile ==
  ASSUME "disk_full" \notin Faults
  PROVE  Spec => []EventMatchesFile
<1>1. DiskTakes  BY DEF DiskTakes
<1>2. HandledInv => EventMatchesFile  BY DEF HandledInv, SaidInv, EventMatchesFile
<1>3. Spec => [](TypeOK /\ HandledInv)  BY <1>1, Handled
<1>. QED  BY <1>2, <1>3, PTL
-----------------------------------------------------------------------------
(* What is completed stays completed.                                      *)

WorkStays == \A p \in Pairs : ~disk.torn /\ disk.of[p] = "completed"
               => \/ ~disk'.torn /\ disk'.of[p] = "completed"
                  \/ disk'.torn /\ proc' = "off"

LEMMA WorkStep ==
  ASSUME TypeOK, PlaceInv, HandledInv, DiskTakes, [Next]_vars
  PROVE  WorkStays
<1>1. CASE UNCHANGED disk  BY <1>1 DEF WorkStays
<1>2. ASSUME NEW i \in Workers, Stores(i), NEW q \in Pairs,
             ~disk.torn, disk.of[q] = "completed"
      PROVE  \/ ~disk'.torn /\ disk'.of[q] = "completed"
             \/ disk'.torn /\ proc' = "off"
  <2>1. PICK p \in Pairs, outcome \in Outcomes : Busy(i, p) /\ Stored(i, p, outcome)
    BY <1>2 DEF Stores
  <2>2. proc = "running" /\ w[i].pair = {p}  BY <2>1 DEF Busy
  <2>3. results = disk.of  BY <1>2, <2>2 DEF HandledInv, RunningInv
  <2>4. results[p] = "none" /\ q # p
    BY <1>2, <2>2, <2>3 DEF PlaceInv, OnePlace
  <2>5. /\ results' = [results EXCEPT ![p] = outcome]
        /\ \/ disk' = [torn |-> FALSE, of |-> results']
           \/ disk' = [disk EXCEPT !.torn = TRUE] /\ proc' = "off"
    BY <2>1 DEF Stored, DiskTakes
  <2>6. results'[q] = "completed"  BY <1>2, <2>3, <2>4, <2>5 DEF TypeOK
  <2>. QED  BY <2>5, <2>6 DEF TypeOK
<1>3. ASSUME NEW i \in Workers, Work(i) PROVE UNCHANGED disk \/ Stores(i)
  BY <1>3, WorkCases DEF Take, Leave, Retry
<1>4. Start \/ PrepareFails \/ Finish \/ Killed \/ UNCHANGED vars => UNCHANGED disk
  BY DEF Start, PrepareFails, Finish, Killed, vars
<1>. QED  BY <1>1, <1>2, <1>3, <1>4 DEF Next, WorkStays

\* WorkKept: a completed pair that can be read back stays so, but for a process
\* killed while it writes the file, if the list names none twice.
THEOREM CompletedWorkIsKept ==
  ASSUME "disk_full" \notin Faults, \A p \in Pairs : Times[p] = 1
  PROVE  Spec => WorkKept
<1>1. DiskTakes /\ ListedOnce  BY DEF DiskTakes, ListedOnce
<1>2. Spec => [](TypeOK /\ PlaceInv /\ HandledInv)
  BY <1>1, Handled, PlaceInit, PlaceStep, PTL DEF Spec
<1>3. ASSUME TypeOK /\ PlaceInv /\ HandledInv, [Next]_vars
      PROVE  [\A p \in Pairs : ~disk.torn /\ disk.of[p] = "completed"
                => \/ ~disk'.torn /\ disk'.of[p] = "completed"
                   \/ disk'.torn /\ proc' = "off"]_vars
  BY <1>1, <1>3, WorkStep DEF WorkStays
<1>. QED  BY <1>2, <1>3, PTL DEF Spec, WorkKept

-----------------------------------------------------------------------------
(* The runs, between the API, the agent and its child.                     *)

Line == [what : {"pair_started"} \cup RowOutcomes, of : Rows]
        \cup [what : {"run_finished"}, of : {"completed", "failed"}]

Request == [at : {"idle", "checked", "created", "cancel", "rows", "cancel_rows"},
            run : Runs \cup {NoRun}, todo : SUBSET Rows]

\* What a pipe has yet to say of row p: its outcome after its start, nothing of a
\* start; and whether it ends with the end of the run.
Told(s, p) ==
  \E i \in 1..Len(s) : /\ s[i].what \in RowOutcomes /\ s[i].of = p
                       /\ \A j \in (i + 1)..Len(s) : s[j] # Event("pair_started", p)
Quiet(s, p) == \A i \in 1..Len(s) : s[i] # Event("pair_started", p)
SaysEnd(s) == \E i \in 1..Len(s) : s[i].what = "run_finished"

LEMMA PipeAppend ==
  ASSUME NEW S, NEW s \in Seq(S), NEW x \in S, NEW p
  PROVE  /\ Append(s, x) \in Seq(S)
         /\ x.what \in RowOutcomes /\ x.of = p => Told(Append(s, x), p)
         /\ x # Event("pair_started", p) =>
               /\ Told(s, p) => Told(Append(s, x), p)
               /\ Quiet(s, p) => Quiet(Append(s, x), p)
         /\ SaysEnd(Append(s, x)) <=> SaysEnd(s) \/ x.what = "run_finished"
<1> DEFINE t == Append(s, x)
           n == Len(s)
<1>1. /\ t \in Seq(S) /\ Len(t) = n + 1 /\ t[n + 1] = x
      /\ \A i \in 1..n : t[i] = s[i]
  BY AppendProperties
<1>2. n \in Nat  BY LenProperties
<1> HIDE DEF t
<1>3. ASSUME x.what \in RowOutcomes, x.of = p PROVE Told(t, p)
  <2>1. n + 1 \in 1..Len(t) /\ ~(\E j \in (n + 2)..Len(t) : TRUE)  BY <1>1, <1>2
  <2>2. \A j \in (n + 1 + 1)..Len(t) : FALSE  BY <1>1, <1>2
  <2>. QED  BY <1>1, <1>3, <2>1, <2>2 DEF Told
<1>4. ASSUME x # Event("pair_started", p), Told(s, p) PROVE Told(t, p)
  <2>1. PICK i \in 1..n : /\ s[i].what \in RowOutcomes /\ s[i].of = p
                          /\ \A j \in (i + 1)..n : s[j] # Event("pair_started", p)
    BY <1>4 DEF Told
  <2>2. i \in 1..Len(t) /\ t[i] = s[i]  BY <1>1, <1>2
  <2>3. ASSUME NEW j \in (i + 1)..Len(t) PROVE t[j] # Event("pair_started", p)
    <3>1. (j \in (i + 1)..n /\ j \in 1..n) \/ j = n + 1  BY <1>1, <1>2, <2>3
    <3>. QED  BY <1>1, <1>4, <2>1, <3>1
  <2>. QED  BY <2>1, <2>2, <2>3 DEF Told
<1>5. \A i \in 1..Len(t) : i \in 1..n \/ i = n + 1  BY <1>1, <1>2
<1>6. x # Event("pair_started", p) /\ Quiet(s, p) => Quiet(t, p)
  BY <1>1, <1>5 DEF Quiet
<1>7. n + 1 \in 1..Len(t) /\ \A i \in 1..n : i \in 1..Len(t)  BY <1>1, <1>2
<1>8. SaysEnd(t) <=> SaysEnd(s) \/ x.what = "run_finished"
  BY <1>1, <1>5, <1>7 DEF SaysEnd
<1>. QED  BY <1>1, <1>3, <1>4, <1>6, <1>8 DEF t

LEMMA PipeTail ==
  ASSUME NEW S, NEW s \in Seq(S), s # <<>>, NEW p
  PROVE  /\ Head(s) \in S /\ Tail(s) \in Seq(S)
         /\ Told(s, p) => \/ Told(Tail(s), p)
                          \/ /\ Head(s).what \in RowOutcomes /\ Head(s).of = p
                             /\ Quiet(Tail(s), p)
         /\ Quiet(s, p) => Quiet(Tail(s), p) /\ Head(s) # Event("pair_started", p)
         /\ SaysEnd(Tail(s)) \/ Head(s).what = "run_finished" => SaysEnd(s)
<1> DEFINE t == Tail(s)
           n == Len(s)
<1>1. /\ Head(s) \in S /\ t \in Seq(S) /\ Len(t) = n - 1
      /\ \A i \in 1..Len(t) : t[i] = s[i + 1]
  BY HeadTailProperties
<1>2. n \in Nat \ {0} /\ Head(s) = s[1]  BY EmptySeq
<1> HIDE DEF t, n
<1>3. 1 \in 1..n /\ \A i \in 1..Len(t) : i + 1 \in 1..n  BY <1>1, <1>2
<1>4. ASSUME Told(s, p), ~Told(t, p)
      PROVE  Head(s).what \in RowOutcomes /\ Head(s).of = p /\ Quiet(t, p)
  <2>1. PICK i \in 1..n : /\ s[i].what \in RowOutcomes /\ s[i].of = p
                          /\ \A j \in (i + 1)..n : s[j] # Event("pair_started", p)
    BY <1>4 DEF Told, n
  <2>2. CASE i = 1
    <3>1. \A j \in 1..Len(t) : j + 1 \in (i + 1)..n  BY <1>1, <1>2, <2>2
    <3>. QED  BY <1>1, <1>2, <2>1, <2>2, <3>1 DEF Quiet
  <2>3. CASE i # 1
    <3>1. PICK k \in 1..Len(t) : k + 1 = i  BY <1>1, <1>2, <2>3
    <3>2. \A j \in (k + 1)..Len(t) : j \in 1..Len(t) /\ j + 1 \in (i + 1)..n
      BY <1>1, <1>2, <3>1
    <3>3. Told(t, p)  BY <1>1, <2>1, <3>1, <3>2 DEF Told
    <3>. QED  BY <1>4, <3>3
  <2>. QED  BY <2>2, <2>3
<1>5. Quiet(s, p) => Quiet(t, p) /\ Head(s) # Event("pair_started", p)
  BY <1>1, <1>2, <1>3 DEF Quiet, n
<1>6. SaysEnd(t) \/ Head(s).what = "run_finished" => SaysEnd(s)
  BY <1>1, <1>2, <1>3 DEF SaysEnd, n
<1>. QED  BY <1>1, <1>4, <1>5, <1>6 DEF t


\* Whether run r is in sequence s.
Among(s, r) == \E i \in 1..Len(s) : s[i] = r

LEMMA PipeEmpty == \A p : ~Told(<<>>, p) /\ Quiet(<<>>, p) /\ ~SaysEnd(<<>>)
BY EmptySeq DEF Told, Quiet, SaysEnd

\* A loss is for good.
LEMMA LoseLost ==
  ASSUME RunsTypeOK, NEW r \in Runs, Lose(r)
  PROVE  /\ lost' \in Seq(Runs)
         /\ \A q : Lost(q)' <=> Lost(q) \/ q = r
<1>1. /\ Append(lost, r) \in Seq(Runs)
      /\ Len(Append(lost, r)) = Len(lost) + 1 /\ Append(lost, r)[Len(lost) + 1] = r
      /\ \A i \in 1..Len(lost) : Append(lost, r)[i] = lost[i]
  BY AppendProperties DEF RunsTypeOK
<1>2. Len(lost) \in Nat  BY LenProperties DEF RunsTypeOK
<1>3. lost' = Append(lost, r)  BY DEF Lose
<1>4. /\ \A i \in 1..Len(lost') : i \in 1..Len(lost) \/ i = Len(lost) + 1
      /\ \A i \in 1..Len(lost) : i \in 1..Len(lost')
      /\ Len(lost) + 1 \in 1..Len(lost')
  BY <1>1, <1>2, <1>3
<1>5. ASSUME NEW q PROVE Lost(q)' <=> Lost(q) \/ q = r
  BY <1>1, <1>3, <1>4 DEF Lost
<1>. QED  BY <1>1, <1>3, <1>5

\* Where the agent is, as far as its run goes.
InChild == agent.at = "stream"

LEMMA RunTypeInit == RunsInit => RunsTypeOK
BY EmptySeq, RunsAssumption DEF RunsInit, RunsTypeOK, NoReq, AgentIdle, NoChild

LEMMA PatchRunType ==
  ASSUME RunsTypeOK, NEW r \in Runs, NEW s \in Active \cup Terminal, PatchRun(r, s)
  PROVE  /\ status' \in [Runs -> {"none"} \cup Active \cup Terminal]
         /\ lost' \in Seq(Runs)
<1>1. CASE status' = [status EXCEPT ![r] = s] /\ UNCHANGED lost
  BY <1>1 DEF RunsTypeOK
<1>2. CASE UNCHANGED status /\ Lose(r)
  BY <1>2, LoseLost DEF RunsTypeOK
<1>. QED  BY <1>1, <1>2 DEF PatchRun

LEMMA WorkingRun ==
  ASSUME RunsTypeOK, agent.at # "idle"
  PROVE  agent.run \in Runs
BY DEF RunsTypeOK

LEMMA RunTypeStep == RunsTypeOK /\ [RunsNext]_runsVars => RunsTypeOK'
<1> SUFFICES ASSUME RunsTypeOK, [RunsNext]_runsVars PROVE RunsTypeOK'  OBVIOUS
<1>a. NoRun \notin Runs  BY RunsAssumption
<1>0. req \in [Clients -> Request]  BY DEF RunsTypeOK, Request
<1>1. ASSUME NEW c \in Clients, CheckActive(c) \/ SetCancelled(c) PROVE RunsTypeOK'
  <2>1. req' \in [Clients -> Request]
    BY <1>0, <1>1 DEF CheckActive, SetCancelled, Request
  <2>2. status' \in [Runs -> {"none"} \cup Active \cup Terminal]
    BY <1>1 DEF CheckActive, SetCancelled, RunsTypeOK, Terminal
  <2>. QED  BY <1>1, <2>1, <2>2 DEF CheckActive, SetCancelled, RunsTypeOK, Request
<1>2. ASSUME NEW c \in Clients, CreateRun(c) PROVE RunsTypeOK'
  <2>1. PICK r \in Runs :
          /\ status' = [status EXCEPT ![r] = "queued"]
          /\ order' = Append(order, r)
          /\ req' = [req EXCEPT ![c] = [NoReq EXCEPT !.at = "created", !.run = r]]
    BY <1>2 DEF CreateRun
  <2>2. order' \in Seq(Runs)  BY <2>1, AppendProperties DEF RunsTypeOK
  <2>3. [NoReq EXCEPT !.at = "created", !.run = r] \in Request
    BY DEF NoReq, Request
  <2>. QED  BY <1>2, <2>1, <2>2, <2>3 DEF CreateRun, RunsTypeOK, Active, Request
<1>3. ASSUME NEW c \in Clients, CreateResults(c) PROVE RunsTypeOK'
  BY <1>3 DEF CreateResults, RunsTypeOK, NoReq
<1>4. ASSUME NEW c \in Clients, ReadCancelled(c) PROVE RunsTypeOK'
  <2>1. PICK r \in Runs :
          req' = [req EXCEPT ![c] = [NoReq EXCEPT !.at = "cancel", !.run = r]]
    BY <1>4 DEF ReadCancelled
  <2>2. [NoReq EXCEPT !.at = "cancel", !.run = r] \in Request
    BY DEF NoReq, Request
  <2>. QED  BY <1>4, <2>1, <2>2 DEF ReadCancelled, RunsTypeOK, Request
<1>5. ASSUME NEW c \in Clients, ListUnfinished(c) PROVE RunsTypeOK'
  <2>1. PICK open \in SUBSET Rows :
          req' = [req EXCEPT ![c] = IF open = {} THEN NoReq
                                    ELSE [@ EXCEPT !.at = "cancel_rows", !.todo = open]]
    BY <1>5 DEF ListUnfinished
  <2>2. NoReq \in Request /\ [req[c] EXCEPT !.at = "cancel_rows", !.todo = open] \in Request
    BY <1>0 DEF Request, NoReq
  <2>3. req' \in [Clients -> Request]  BY <1>0, <2>1, <2>2
  <2>. QED  BY <1>5, <2>3 DEF ListUnfinished, RunsTypeOK, Request
<1>6. ASSUME NEW c \in Clients, CancelResult(c) PROVE RunsTypeOK'
  <2>1. PICK p \in req[c].todo :
          /\ result' = [result EXCEPT ![req[c].run] =
                 [q \in Rows |-> IF SymbolOf[q] = SymbolOf[p] THEN "cancelled" ELSE @[q]]]
          /\ req' = [req EXCEPT ![c] = IF req[c].todo \ {p} = {} THEN NoReq
                                       ELSE [@ EXCEPT !.todo = req[c].todo \ {p}]]
    BY <1>6 DEF CancelResult
  <2>2. NoReq \in Request /\ [req[c] EXCEPT !.todo = req[c].todo \ {p}] \in Request
    BY <1>0 DEF Request, NoReq
  <2>3. req' \in [Clients -> Request]  BY <1>0, <2>1, <2>2
  <2>4. result' \in [Runs -> [Rows -> {"none", "pending", "running", "cancelled"} \cup RowOutcomes]]
    <3>1. CASE req[c].run \in Runs
      <4>1. [q \in Rows |-> IF SymbolOf[q] = SymbolOf[p] THEN "cancelled"
                            ELSE result[req[c].run][q]]
              \in [Rows -> {"none", "pending", "running", "cancelled"} \cup RowOutcomes]
        BY <3>1 DEF RunsTypeOK
      <4>. QED  BY <2>1, <4>1 DEF RunsTypeOK
    <3>2. CASE req[c].run \notin Runs  BY <2>1, <3>2 DEF RunsTypeOK
    <3>. QED  BY <3>1, <3>2
  <2>. QED  BY <1>6, <2>3, <2>4 DEF CancelResult, RunsTypeOK, Request
<1>7. CASE RestartApi
  BY <1>7 DEF RestartApi, RunsTypeOK, NoReq, Active, Terminal
<1>8. CASE Poll
  BY <1>8, <1>a DEF Poll, RunsTypeOK, Queued, AgentIdle
<1>9. CASE NotReady
  BY <1>9 DEF NotReady, RunsTypeOK, AgentIdle
<1>10. CASE MarkRunning
  <2>1. agent.run \in Runs  BY <1>10, WorkingRun DEF MarkRunning
  <2>2. agent' = [at |-> "marked", run |-> agent.run]  BY <1>10 DEF MarkRunning, RunsTypeOK
  <2>. QED  BY <1>10, <1>a, <2>1, <2>2, PatchRunType DEF MarkRunning, RunsTypeOK, Active
<1>11. CASE Spawn
  <2>1. agent.run \in Runs  BY <1>11, WorkingRun DEF Spawn
  <2>2. agent' = [at |-> "stream", run |-> agent.run]  BY <1>11 DEF Spawn, RunsTypeOK
  <2>3. child' = [on |-> TRUE, todo |-> Rows, busy |-> {}, good |-> FALSE, hung |-> FALSE,
                  ok |-> FALSE]
    BY <1>11 DEF Spawn, NoChild
  <2>4. /\ agent'.at = "stream" /\ agent'.run # NoRun /\ agent' \in [at : {"stream"}, run : Runs]
        /\ pipe' \in Seq(Line)
    BY <1>11, <2>1, <2>2, <1>a, EmptySeq DEF Spawn
  <2>5. UNCHANGED <<status, order, result, req, restarts, cancels, lost>>
    BY <1>11 DEF Spawn
  <2>. QED  BY <2>3, <2>4, <2>5 DEF RunsTypeOK, Line
<1>12. CASE SpawnFails
  <2>1. agent.run \in Runs /\ ~child.on  BY <1>12, WorkingRun DEF SpawnFails, RunsTypeOK
  <2>. QED  BY <1>12, <2>1, PatchRunType DEF SpawnFails, RunsTypeOK, Terminal, AgentIdle
<1>13. CASE Forward
  <2>1. agent.run \in Runs  BY <1>13, WorkingRun DEF Forward
  <2>2. Head(pipe) \in Line /\ Tail(pipe) \in Seq(Line)
    BY <1>13, PipeTail DEF Forward, RunsTypeOK, Line
  <2>3. CASE Head(pipe).what = "run_finished"
    <3>1. Head(pipe).of \in Terminal  BY <2>2, <2>3 DEF Line, RowOutcomes, Terminal
    <3>. QED  BY <1>13, <2>1, <2>2, <2>3, <3>1, PatchRunType DEF Forward, RunsTypeOK, Line
  <2>4. CASE Head(pipe).what # "run_finished"
    <3>1. Head(pipe).of \in Rows /\ NewStatus(Head(pipe)) \in {"running"} \cup RowOutcomes
      BY <2>2, <2>4 DEF Line, NewStatus
    <3>2. PatchResult(agent.run, Head(pipe).of, NewStatus(Head(pipe))) /\ UNCHANGED status
      BY <1>13, <2>4 DEF Forward
    <3>3. /\ result' \in [Runs -> [Rows -> {"none", "pending", "running", "cancelled"} \cup RowOutcomes]]
          /\ lost' \in Seq(Runs)
      <4>1. CASE Lose(agent.run) /\ UNCHANGED result
        BY <2>1, <4>1, LoseLost DEF RunsTypeOK
      <4>2. CASE UNCHANGED <<result, lost>>  BY <4>2 DEF RunsTypeOK
      <4>3. CASE /\ result' = [result EXCEPT ![agent.run][Head(pipe).of] = NewStatus(Head(pipe))]
                 /\ UNCHANGED lost
        BY <2>1, <3>1, <4>3 DEF RunsTypeOK
      <4>. QED  BY <3>2, <4>1, <4>2, <4>3 DEF PatchResult
    <3>. QED  BY <1>13, <2>2, <3>2, <3>3 DEF Forward, RunsTypeOK, Line
  <2>. QED  BY <2>3, <2>4
<1>14. CASE StreamBreaks
  <2>1. agent.run \in Runs  BY <1>14, WorkingRun DEF StreamBreaks
  <2>2. /\ agent' = [at |-> "idle", run |-> NoRun] /\ pipe' = <<>>
        /\ child' = [on |-> FALSE, todo |-> {}, busy |-> {}, good |-> FALSE, hung |-> FALSE,
                     ok |-> FALSE]
        /\ UNCHANGED <<order, result, req, restarts, cancels>>
        /\ PatchRun(agent.run, "failed")
    BY <1>14 DEF StreamBreaks, AgentIdle, NoChild
  <2>3. /\ status' \in [Runs -> {"none"} \cup Active \cup Terminal]
        /\ lost' \in Seq(Runs)
    BY <2>1, <2>2, PatchRunType DEF Terminal
  <2>4. pipe' \in Seq(Line)  BY <2>2, EmptySeq
  <2>. QED  BY <2>2, <2>3, <2>4 DEF RunsTypeOK, Line
<1>15. CASE SetFinal
  <2>1. agent.run \in Runs /\ ~child.on  BY <1>15, WorkingRun DEF SetFinal, RunsTypeOK
  <2>. QED  BY <1>15, <2>1, PatchRunType DEF SetFinal, RunsTypeOK, Terminal, AgentIdle
<1>16. ASSUME NEW p \in Rows, Begin(p) PROVE RunsTypeOK'
  <2>1. pipe' \in Seq(Line)
    <3>1. Event("pair_started", p) \in Line  BY DEF Event, Line
    <3>. QED  BY <1>16, <3>1, PipeAppend DEF Begin, Prints, RunsTypeOK, Line
  <2>. QED  BY <1>16, <2>1 DEF Begin, Alive, RunsTypeOK, Line
<1>17. ASSUME NEW p \in Rows, NEW o \in RowOutcomes, Report(p, o) PROVE RunsTypeOK'
  <2>1. pipe' \in Seq(Line)
    <3>1. Event(o, p) \in Line  BY DEF Event, Line
    <3>. QED  BY <1>17, <3>1, PipeAppend DEF Report, Prints, RunsTypeOK, Line
  <2>2. (child.good \/ o = "completed") \in BOOLEAN  OBVIOUS
  <2>3. child' = [on |-> child.on, todo |-> child.todo, busy |-> child.busy \ {p},
                  good |-> (child.good \/ o = "completed"), hung |-> child.hung, ok |-> child.ok]
    BY <1>17 DEF Report, RunsTypeOK
  <2>4. child' \in [on : BOOLEAN, todo : SUBSET Rows, busy : SUBSET Rows, good : BOOLEAN,
                    hung : BOOLEAN, ok : BOOLEAN]
    BY <2>2, <2>3 DEF RunsTypeOK
  <2>5. child'.on => agent.at = "stream"  BY <2>3 DEF RunsTypeOK
  <2>6. UNCHANGED <<status, order, result, req, agent, restarts, cancels, lost>>
    BY <1>17 DEF Report
  <2>. QED  BY <2>1, <2>4, <2>5, <2>6 DEF RunsTypeOK, Line
<1>18. CASE ExitAnnounced
  <2>1. pipe' \in Seq(Line)
    <3>1. PICK verdict \in RowOutcomes : Prints(RunEnd(verdict))
      BY <1>18 DEF ExitAnnounced, Verdicts, RowOutcomes
    <3>2. RunEnd(verdict) \in Line  BY DEF RunEnd, Line, RowOutcomes
    <3>. QED  BY <3>1, <3>2, PipeAppend DEF Prints, RunsTypeOK, Line
  <2>. QED  BY <1>18, <2>1 DEF ExitAnnounced, Alive, RunsTypeOK, Line
<1>19. CASE ExitFailing \/ Hang
  <2>1. CASE ExitFailing  BY <2>1 DEF ExitFailing, Alive, RunsTypeOK
  <2>2. CASE Hang  BY <2>2 DEF Hang, Alive, RunsTypeOK
  <2>. QED  BY <1>19, <2>1, <2>2
<1>20. CASE UNCHANGED runsVars  BY <1>20 DEF runsVars, RunsTypeOK
<1>. QED
  BY <1>1, <1>2, <1>3, <1>4, <1>5, <1>6, <1>7, <1>8, <1>9, <1>10, <1>11, <1>12, <1>13,
     <1>14, <1>15, <1>16, <1>17, <1>18, <1>19, <1>20
  DEF RunsNext, Serve, AgentStep, ChildStep

\* What only serves requests, or restarts the API.
Served == (\E c \in Clients : Serve(c)) \/ RestartApi \/ UNCHANGED runsVars

OtherStep ==
  \/ Poll \/ NotReady \/ MarkRunning \/ Spawn \/ SpawnFails \/ Forward
  \/ SetFinal \/ StreamBreaks
  \/ \E p \in Rows : Begin(p) \/ \E o \in RowOutcomes : Report(p, o)
  \/ ExitAnnounced \/ ExitFailing \/ Hang

LEMMA StepKinds == [RunsNext]_runsVars => Served \/ OtherStep
BY DEF RunsNext, Served, OtherStep, AgentStep, ChildStep

LEMMA ServedEffect ==
  ASSUME RunsTypeOK, Served
  PROVE  /\ UNCHANGED <<agent, child, pipe, lost>>
         /\ \A r \in Runs : \/ status'[r] = status[r]
                            \/ status'[r] \in {"cancelled", "interrupted"}
                            \/ status[r] = "none" /\ status'[r] = "queued"
         /\ \A c \in Clients : req'[c].at = "created" =>
              \/ req[c].at = "created" /\ req'[c].run = req[c].run
              \/ /\ req'[c].run \in Runs
                 /\ status[req'[c].run] = "none" /\ status'[req'[c].run] = "queued"
         /\ \A r \in Runs, p \in Rows :
              \/ result'[r][p] \in {result[r][p], "cancelled"}
              \/ UNCHANGED status /\ \E c \in Clients : req[c].at = "created" /\ req[c].run = r
<1> DEFINE Framed == UNCHANGED <<agent, child, pipe, lost>>
           StatusMoves(r) == \/ status'[r] = status[r]
                             \/ status'[r] \in {"cancelled", "interrupted"}
                             \/ status[r] = "none" /\ status'[r] = "queued"
           ReqMoves(c) == req'[c].at = "created" =>
              \/ req[c].at = "created" /\ req'[c].run = req[c].run
              \/ /\ req'[c].run \in Runs
                 /\ status[req'[c].run] = "none" /\ status'[req'[c].run] = "queued"
           ResultMoves(r, p) ==
              \/ result'[r][p] \in {result[r][p], "cancelled"}
              \/ UNCHANGED status /\ \E c \in Clients : req[c].at = "created" /\ req[c].run = r
           Goal == /\ Framed
                   /\ \A r \in Runs : StatusMoves(r)
                   /\ \A c \in Clients : ReqMoves(c)
                   /\ \A r \in Runs, p \in Rows : ResultMoves(r, p)
<1>0. req \in [Clients -> Request]  BY DEF RunsTypeOK, Request
<1>1. ASSUME NEW d \in Clients, CheckActive(d) PROVE Goal
  <2>1. \A c \in Clients : req'[c].at = "created" => req'[c] = req[c]
    BY <1>0, <1>1 DEF CheckActive, Request
  <2>. QED  BY <1>1, <2>1 DEF CheckActive
<1>2. ASSUME NEW d \in Clients, CreateRun(d) PROVE Goal
  <2>1. PICK r \in Runs :
          /\ status[r] = "none"
          /\ status' = [status EXCEPT ![r] = "queued"]
          /\ req' = [req EXCEPT ![d] = [NoReq EXCEPT !.at = "created", !.run = r]]
    BY <1>2 DEF CreateRun
  <2>2. \A q \in Runs : StatusMoves(q)  BY <2>1 DEF RunsTypeOK
  <2>3. req'[d].run = r /\ status'[r] = "queued"  BY <1>0, <2>1 DEF NoReq, RunsTypeOK
  <2>4. \A c \in Clients \ {d} : req'[c] = req[c]  BY <1>0, <2>1
  <2>5. \A c \in Clients : ReqMoves(c)  BY <2>1, <2>3, <2>4
  <2>. QED  BY <1>2, <2>2, <2>5 DEF CreateRun
<1>3. ASSUME NEW d \in Clients, CreateResults(d) PROVE Goal
  <2>1. \A c \in Clients : ReqMoves(c)
    BY <1>0, <1>3 DEF CreateResults, NoReq
  <2>2. \A r \in Runs, p \in Rows : ResultMoves(r, p)
    BY <1>3 DEF CreateResults, RunsTypeOK
  <2>. QED  BY <1>3, <2>1, <2>2 DEF CreateResults
<1>4. ASSUME NEW d \in Clients, ReadCancelled(d) PROVE Goal
  <2>1. PICK r \in Runs :
          req' = [req EXCEPT ![d] = [NoReq EXCEPT !.at = "cancel", !.run = r]]
    BY <1>4 DEF ReadCancelled
  <2>2. \A c \in Clients : ReqMoves(c)  BY <1>0, <2>1 DEF NoReq
  <2>. QED  BY <1>4, <2>2 DEF ReadCancelled
<1>5. ASSUME NEW d \in Clients, SetCancelled(d) PROVE Goal
  <2>1. \A c \in Clients : ReqMoves(c)
    BY <1>0, <1>5 DEF SetCancelled, Request
  <2>2. \A r \in Runs : StatusMoves(r)  BY <1>5 DEF SetCancelled, RunsTypeOK
  <2>. QED  BY <1>5, <2>1, <2>2 DEF SetCancelled
<1>6. ASSUME NEW d \in Clients, ListUnfinished(d) PROVE Goal
  <2>1. PICK open :
          req' = [req EXCEPT ![d] = IF open = {} THEN NoReq
                                    ELSE [@ EXCEPT !.at = "cancel_rows", !.todo = open]]
    BY <1>6 DEF ListUnfinished
  <2>2. \A c \in Clients : ReqMoves(c)  BY <1>0, <2>1 DEF NoReq, Request
  <2>. QED  BY <1>6, <2>2 DEF ListUnfinished
<1>7. ASSUME NEW d \in Clients, CancelResult(d) PROVE Goal
  <2>1. PICK p \in req[d].todo :
          /\ result' = [result EXCEPT ![req[d].run] =
                 [q \in Rows |-> IF SymbolOf[q] = SymbolOf[p] THEN "cancelled" ELSE @[q]]]
          /\ req' = [req EXCEPT ![d] = IF req[d].todo \ {p} = {} THEN NoReq
                                       ELSE [@ EXCEPT !.todo = req[d].todo \ {p}]]
    BY <1>7 DEF CancelResult
  <2>2. req[d].at = "cancel_rows"  BY <1>7 DEF CancelResult
  <2>3. \A c \in Clients : ReqMoves(c)
    <3>1. \A c \in Clients \ {d} : req'[c] = req[c]  BY <1>0, <2>1
    <3>2. req'[d].at # "created"  BY <1>0, <2>1, <2>2 DEF NoReq, Request
    <3>. QED  BY <3>1, <3>2
  <2>4. \A r \in Runs, q \in Rows : ResultMoves(r, q)  BY <2>1 DEF RunsTypeOK
  <2>. QED  BY <1>7, <2>3, <2>4 DEF CancelResult
<1>8. CASE RestartApi
  BY <1>8 DEF RestartApi, NoReq, RunsTypeOK
<1>9. CASE UNCHANGED runsVars  BY <1>9 DEF runsVars
<1>. QED
  BY <1>1, <1>2, <1>3, <1>4, <1>5, <1>6, <1>7, <1>8, <1>9 DEF Served, Serve

-----------------------------------------------------------------------------
\* The rows of a run are inserted before its child begins with any of them.
ReqInv ==
  \A c \in Clients : req[c].at = "created" =>
    /\ req[c].run \in Runs /\ status[req[c].run] # "none"
    /\ InChild /\ agent.run = req[c].run => child.todo = Rows
    /\ status[req[c].run] = "completed" => Rows = {}

OrderInv == agent.at # "idle" => status[agent.run] # "none"

\* What the agent may find its run to be.
StageInv ==
  /\ agent.at = "picked" => status[agent.run] # "completed"
  /\ agent.at = "marked" => status[agent.run] # "completed"
  /\ agent.at = "stream" /\ status[agent.run] = "completed" => child.ok

\* A child that ended well has been through all its rows, and says so last.
ChildInv ==
  /\ child.ok => child.todo = {} /\ child.busy = {} /\ ~child.on
  /\ InChild /\ SaysEnd(pipe) => child.ok

\* What the child has finished is in the table, or in the pipe.
WorkInv ==
  InChild /\ ~Lost(agent.run) =>
    \A p \in Rows \ (child.todo \cup child.busy) :
      \/ Told(pipe, p)
      \/ Quiet(pipe, p) /\ result[agent.run][p] \notin {"pending", "running"}

RunInv == ReqInv /\ OrderInv /\ StageInv /\ ChildInv /\ WorkInv /\ CompletedIsComplete

LEMMA RunInvInit == RunsInit => RunInv
<1> SUFFICES ASSUME RunsInit PROVE RunInv  OBVIOUS
<1>1. agent.at = "idle" /\ ~child.ok  BY DEF RunsInit, AgentIdle, NoChild
<1>2. \A c \in Clients : req[c].at = "idle"  BY DEF RunsInit, NoReq
<1>3. CompletedIsComplete  BY DEF RunsInit, CompletedIsComplete
<1>. QED
  BY <1>1, <1>2, <1>3 DEF RunInv, ReqInv, OrderInv, StageInv, ChildInv, WorkInv, InChild

\* The requests disturb none of it.
LEMMA ServedInv ==
  ASSUME RunsTypeOK, RunInv, Served
  PROVE  RunInv'
<1>1. /\ UNCHANGED <<agent, child, pipe, lost>>
      /\ \A r \in Runs : \/ status'[r] = status[r]
                         \/ status'[r] \in {"cancelled", "interrupted"}
                         \/ status[r] = "none" /\ status'[r] = "queued"
      /\ \A c \in Clients : req'[c].at = "created" =>
           \/ req[c].at = "created" /\ req'[c].run = req[c].run
           \/ /\ req'[c].run \in Runs
              /\ status[req'[c].run] = "none" /\ status'[req'[c].run] = "queued"
      /\ \A r \in Runs, p \in Rows :
           \/ result'[r][p] \in {result[r][p], "cancelled"}
           \/ UNCHANGED status /\ \E c \in Clients : req[c].at = "created" /\ req[c].run = r
  BY ServedEffect
<1>2. agent.at # "idle" => agent.run \in Runs  BY WorkingRun
<1>3. ReqInv'
  <2> SUFFICES ASSUME NEW c \in Clients, req'[c].at = "created"
               PROVE  /\ req'[c].run \in Runs /\ status'[req'[c].run] # "none"
                      /\ InChild' /\ agent'.run = req'[c].run => child'.todo = Rows
                      /\ status'[req'[c].run] = "completed" => Rows = {}
    BY DEF ReqInv
  <2>1. CASE req[c].at = "created" /\ req'[c].run = req[c].run
    BY <1>1, <2>1 DEF RunInv, ReqInv, InChild
  <2>2. CASE /\ req'[c].run \in Runs
             /\ status[req'[c].run] = "none" /\ status'[req'[c].run] = "queued"
    BY <1>1, <2>2 DEF RunInv, OrderInv, InChild
  <2>. QED  BY <1>1, <2>1, <2>2
<1>4. OrderInv'  BY <1>1, <1>2 DEF RunInv, OrderInv
<1>5. StageInv'
  BY <1>1, <1>2 DEF RunInv, StageInv
<1>6. ChildInv'  BY <1>1 DEF RunInv, ChildInv, InChild, SaysEnd
<1>7. WorkInv'
  <2> SUFFICES ASSUME InChild, ~Lost(agent.run),
                      NEW p \in Rows \ (child.todo \cup child.busy)
               PROVE  \/ Told(pipe, p)
                      \/ Quiet(pipe, p) /\ result'[agent.run][p] \notin {"pending", "running"}
    BY <1>1 DEF WorkInv, InChild, Lost, Told, Quiet
  <2>1. \A c \in Clients : ~(req[c].at = "created" /\ req[c].run = agent.run)
    BY DEF RunInv, ReqInv
  <2>2. agent.run \in Runs  BY <1>2 DEF InChild
  <2>. QED  BY <1>1, <2>1, <2>2 DEF RunInv, WorkInv
<1>8. CompletedIsComplete'
  <2> SUFFICES ASSUME NEW r \in Runs, status'[r] = "completed", ~Working(r), ~Lost(r),
                      NEW p \in Rows
               PROVE  result'[r][p] \notin {"pending", "running"}
    BY <1>1 DEF CompletedIsComplete, Working, Lost
  <2>1. status[r] = "completed"  BY <1>1
  <2>2. \A c \in Clients : ~(req[c].at = "created" /\ req[c].run = r)
    BY <2>1 DEF RunInv, ReqInv
  <2>. QED  BY <1>1, <2>1, <2>2 DEF RunInv, CompletedIsComplete
<1>. QED  BY <1>3, <1>4, <1>5, <1>6, <1>7, <1>8 DEF RunInv

\* A request for a new run keeps what it relies on while the runs it has created
\* keep a status and their child does not begin.
LEMMA ReqKept ==
  ASSUME ReqInv, req' = req,
         \A r \in Runs : status[r] # "none" => status'[r] # "none",
         \A r \in Runs : status'[r] = "completed" /\ status[r] # "completed"
                           => InChild /\ agent.run = r /\ child.todo = {},
         InChild' => \/ InChild /\ agent'.run = agent.run /\ child'.todo = child.todo
                     \/ child'.todo = Rows
                     \/ \A c \in Clients : ~(req[c].at = "created" /\ req[c].run = agent'.run)
  PROVE  ReqInv'
<1> SUFFICES ASSUME NEW c \in Clients, req[c].at = "created"
             PROVE  /\ req[c].run \in Runs /\ status'[req[c].run] # "none"
                    /\ InChild' /\ agent'.run = req[c].run => child'.todo = Rows
                    /\ status'[req[c].run] = "completed" => Rows = {}
  BY DEF ReqInv
<1>1. /\ req[c].run \in Runs /\ status[req[c].run] # "none"
      /\ InChild /\ agent.run = req[c].run => child.todo = Rows
      /\ status[req[c].run] = "completed" => Rows = {}
  BY DEF ReqInv
<1>2. InChild' /\ agent'.run = req[c].run => child'.todo = Rows  BY <1>1
<1>3. status'[req[c].run] = "completed" => Rows = {}  BY <1>1
<1>. QED  BY <1>1, <1>2, <1>3

\* What the agent reports of its run.
LEMMA PatchRunEffect ==
  ASSUME RunsTypeOK, NEW r \in Runs, NEW s, PatchRun(r, s)
  PROVE  /\ \A q \in Runs \ {r} : status'[q] = status[q]
         /\ status'[r] \in {status[r], s}
         /\ \A q : Lost(q) => Among(lost', q)
         /\ ~Among(lost', r) => status'[r] = s
<1>0. \A q : Lost(q)' <=> Among(lost', q)  BY DEF Lost, Among
<1>1. CASE status' = [status EXCEPT ![r] = s] /\ UNCHANGED lost
  BY <1>1 DEF RunsTypeOK, Lost, Among
<1>2. CASE UNCHANGED status /\ Lose(r)
  BY <1>0, <1>2, LoseLost
<1>. QED  BY <1>1, <1>2 DEF PatchRun

\* The agent between two children.
LEMMA IdleInv ==
  ASSUME RunsTypeOK, RunInv,
         Poll \/ NotReady \/ MarkRunning \/ Spawn \/ SpawnFails
  PROVE  RunInv'
<1>1. CASE Poll
  <2>1. PICK r \in Runs : /\ status[r] = "queued" /\ agent' = [at |-> "picked", run |-> r]
    BY <1>1 DEF Poll, Queued
  <2>2. /\ UNCHANGED <<status, order, result, req, child, pipe, restarts, cancels, lost>>
        /\ agent.at = "idle"
    BY <1>1 DEF Poll, AgentIdle
  <2>3. ~InChild' /\ agent'.at = "picked" /\ agent'.run = r  BY <2>1 DEF InChild
  <2>4. ReqInv'  BY <2>2, <2>3 DEF RunInv, ReqInv
  <2>5. CompletedIsComplete'
    BY <2>2 DEF RunInv, CompletedIsComplete, Working, Lost
  <2>. QED
    BY <2>1, <2>2, <2>3, <2>4, <2>5 DEF RunInv, OrderInv, StageInv, ChildInv, WorkInv
<1>2. CASE NotReady
  <2>1. /\ UNCHANGED <<status, order, result, req, child, pipe, restarts, cancels, lost>>
        /\ agent.at = "picked" /\ agent'.at = "idle"
    BY <1>2 DEF NotReady, AgentIdle
  <2>2. ~InChild'  BY <2>1 DEF InChild
  <2>3. ReqInv'  BY <2>1, <2>2 DEF RunInv, ReqInv
  <2>4. status[agent.run] # "completed"  BY <2>1 DEF RunInv, StageInv
  <2>5. CompletedIsComplete'
    BY <2>1, <2>4 DEF RunInv, CompletedIsComplete, Working, Lost
  <2>. QED  BY <2>1, <2>2, <2>3, <2>5 DEF RunInv, OrderInv, StageInv, ChildInv, WorkInv
<1>3. CASE MarkRunning
  <2>1. agent.run \in Runs  BY <1>3, WorkingRun DEF MarkRunning
  <2>2. agent' = [at |-> "marked", run |-> agent.run]  BY <1>3 DEF MarkRunning, RunsTypeOK
  <2>3. /\ UNCHANGED <<order, result, req, child, pipe, restarts, cancels>>
        /\ agent.at = "picked" /\ agent'.at = "marked" /\ agent'.run = agent.run
    BY <1>3, <2>2 DEF MarkRunning
  <2>4. /\ \A q \in Runs \ {agent.run} : status'[q] = status[q]
        /\ status'[agent.run] \in {status[agent.run], "running"}
        /\ \A q : Lost(q) => Among(lost', q)
    BY <1>3, <2>1, PatchRunEffect DEF MarkRunning
  <2>5. status[agent.run] # "completed" /\ status[agent.run] # "none"
    BY <2>3 DEF RunInv, StageInv, OrderInv
  <2>6. ~InChild'  BY <2>3 DEF InChild
  <2>7. ReqInv'  BY <2>3, <2>4, <2>5, <2>6, ReqKept DEF RunInv
  <2>8. CompletedIsComplete'
    <3> SUFFICES ASSUME NEW r \in Runs, status'[r] = "completed", ~Among(lost', r)
                 PROVE  \A p \in Rows : result'[r][p] \notin {"pending", "running"}
      BY DEF CompletedIsComplete, Lost, Among
    <3>1. r # agent.run /\ ~Working(r)  BY <2>4, <2>5 DEF Working
    <3>. QED  BY <2>3, <2>4, <3>1 DEF RunInv, CompletedIsComplete
  <2>. QED
    BY <2>3, <2>4, <2>5, <2>6, <2>7, <2>8 DEF RunInv, OrderInv, StageInv, ChildInv, WorkInv
<1>4. CASE Spawn
  <2>1. agent' = [at |-> "stream", run |-> agent.run]  BY <1>4 DEF Spawn, RunsTypeOK
  <2>2. /\ UNCHANGED <<status, order, result, req, restarts, cancels, lost>>
        /\ agent.at = "marked" /\ agent'.at = "stream" /\ agent'.run = agent.run
        /\ child'.todo = Rows /\ ~child'.ok /\ pipe' = <<>>
    BY <1>4, <2>1 DEF Spawn, NoChild
  <2>3. status[agent.run] # "completed" /\ status[agent.run] # "none"
    BY <2>2 DEF RunInv, StageInv, OrderInv
  <2>4. ReqInv'  BY <2>2 DEF RunInv, ReqInv
  <2>5. ChildInv'  BY <2>2, PipeEmpty DEF ChildInv
  <2>6. WorkInv'  BY <2>2 DEF WorkInv
  <2>7. CompletedIsComplete'
    BY <2>2 DEF RunInv, CompletedIsComplete, Working, Lost
  <2>. QED
    BY <2>2, <2>3, <2>4, <2>5, <2>6, <2>7 DEF RunInv, OrderInv, StageInv
<1>5. CASE SpawnFails
  <2>1. agent.run \in Runs  BY <1>5, WorkingRun DEF SpawnFails
  <2>2. /\ UNCHANGED <<order, result, req, child, pipe, restarts, cancels>>
        /\ agent.at = "marked" /\ agent'.at = "idle"
    BY <1>5 DEF SpawnFails, AgentIdle
  <2>3. /\ \A q \in Runs \ {agent.run} : status'[q] = status[q]
        /\ status'[agent.run] \in {status[agent.run], "failed"}
        /\ \A q : Lost(q) => Among(lost', q)
    BY <1>5, <2>1, PatchRunEffect DEF SpawnFails
  <2>4. status[agent.run] # "completed" /\ status[agent.run] # "none"
    BY <2>2 DEF RunInv, StageInv, OrderInv
  <2>5. ~InChild'  BY <2>2 DEF InChild
  <2>6. ReqInv'  BY <2>2, <2>3, <2>4, <2>5, ReqKept DEF RunInv
  <2>7. CompletedIsComplete'
    <3> SUFFICES ASSUME NEW r \in Runs, status'[r] = "completed", ~Among(lost', r)
                 PROVE  \A p \in Rows : result'[r][p] \notin {"pending", "running"}
      BY DEF CompletedIsComplete, Lost, Among
    <3>1. r # agent.run /\ ~Working(r)  BY <2>3, <2>4 DEF Working
    <3>. QED  BY <2>2, <2>3, <3>1 DEF RunInv, CompletedIsComplete
  <2>. QED  BY <2>2, <2>5, <2>6, <2>7 DEF RunInv, OrderInv, StageInv, ChildInv, WorkInv
<1>. QED  BY <1>1, <1>2, <1>3, <1>4, <1>5

\* The child: it only adds to the pipe.
LEMMA ChildInvs ==
  ASSUME RunsTypeOK, RunInv,
         \/ \E p \in Rows : Begin(p) \/ \E o \in RowOutcomes : Report(p, o)
         \/ ExitAnnounced \/ ExitFailing \/ Hang
  PROVE  RunInv'
<1>1. Alive /\ UNCHANGED <<status, order, result, req, agent, restarts, cancels, lost>>
  BY DEF Begin, Report, ExitAnnounced, ExitFailing, Hang
<1>2. /\ agent.at = "stream" /\ child.on /\ ~child.ok /\ status[agent.run] # "completed"
      /\ ~SaysEnd(pipe)
  BY <1>1 DEF Alive, RunsTypeOK, RunInv, ChildInv, StageInv, InChild
<1>3. InChild /\ InChild' /\ agent.run \in Runs  BY <1>1, <1>2, WorkingRun DEF InChild
<1>4. OrderInv' /\ StageInv' /\ CompletedIsComplete'
  BY <1>1, <1>2 DEF RunInv, OrderInv, StageInv, CompletedIsComplete, Working, Lost
<1>5. pipe \in Seq(Line)  BY DEF RunsTypeOK, Line
<1>6. ASSUME NEW p \in Rows, Begin(p) PROVE RunInv'
  <2>1. /\ child'.todo = child.todo \ {p} /\ child'.busy = child.busy \cup {p}
        /\ child'.ok = child.ok /\ pipe' = Append(pipe, Event("pair_started", p))
    BY <1>6 DEF Begin, Prints, RunsTypeOK
  <2>2. ReqInv'
    <3>1. \A c \in Clients : ~(req[c].at = "created" /\ req[c].run = agent.run)
      BY <1>6 DEF Begin
    <3>. QED  BY <1>1, <3>1 DEF RunInv, ReqInv
  <2>3. Event("pair_started", p) \in Line  BY DEF Event, Line
  <2>4. ChildInv'
    <3>1. ~SaysEnd(pipe')
      BY <1>2, <1>5, <2>1, <2>3, PipeAppend DEF Event
    <3>2. ~SaysEnd(pipe)'  BY <3>1 DEF SaysEnd
    <3>. QED  BY <1>2, <2>1, <3>2 DEF ChildInv
  <2>5. ASSUME ~Lost(agent.run), NEW q \in Rows \ (child'.todo \cup child'.busy)
        PROVE  \/ Told(pipe', q)
               \/ Quiet(pipe', q) /\ result[agent.run][q] \notin {"pending", "running"}
    <3>1. q \in Rows \ (child.todo \cup child.busy) /\ q # p  BY <2>1, <2>5
    <3>2. Event("pair_started", p) # Event("pair_started", q)  BY <3>1 DEF Event
    <3>3. /\ Told(pipe, q) => Told(pipe', q)
          /\ Quiet(pipe, q) => Quiet(pipe', q)
      BY <1>5, <2>1, <2>3, <3>2, PipeAppend
    <3>. QED  BY <1>3, <2>5, <3>1, <3>3 DEF RunInv, WorkInv
  <2>6. WorkInv'  BY <1>1, <2>5 DEF WorkInv, Lost, Told, Quiet
  <2>. QED  BY <1>4, <2>2, <2>4, <2>6 DEF RunInv
<1>7. ASSUME NEW p \in Rows, NEW o \in RowOutcomes, Report(p, o) PROVE RunInv'
  <2>1. /\ child'.todo = child.todo /\ child'.busy = child.busy \ {p}
        /\ child'.ok = child.ok /\ pipe' = Append(pipe, Event(o, p))
    BY <1>7 DEF Report, Prints, RunsTypeOK
  <2>2. ReqInv'  BY <1>1, <2>1 DEF RunInv, ReqInv, InChild
  <2>3. Event(o, p) \in Line /\ Event(o, p).what = o /\ Event(o, p).of = p
        /\ \A q : Event(o, p) # Event("pair_started", q)
        /\ o # "run_finished"
    BY DEF Event, Line, RowOutcomes
  <2>4. ChildInv'
    <3>1. ~SaysEnd(pipe')  BY <1>2, <1>5, <2>1, <2>3, PipeAppend
    <3>2. ~SaysEnd(pipe)'  BY <3>1 DEF SaysEnd
    <3>. QED  BY <1>2, <2>1, <3>2 DEF ChildInv
  <2>5. ASSUME ~Lost(agent.run), NEW q \in Rows \ (child'.todo \cup child'.busy)
        PROVE  \/ Told(pipe', q)
               \/ Quiet(pipe', q) /\ result[agent.run][q] \notin {"pending", "running"}
    <3>1. /\ q = p => Told(pipe', q)
          /\ Told(pipe, q) => Told(pipe', q)
          /\ Quiet(pipe, q) => Quiet(pipe', q)
      BY <1>5, <2>1, <2>3, PipeAppend
    <3>2. q # p => q \in Rows \ (child.todo \cup child.busy)  BY <2>1, <2>5
    <3>. QED  BY <1>3, <2>5, <3>1, <3>2 DEF RunInv, WorkInv
  <2>6. WorkInv'  BY <1>1, <2>5 DEF WorkInv, Lost, Told, Quiet
  <2>. QED  BY <1>4, <2>2, <2>4, <2>6 DEF RunInv
<1>8. CASE ExitAnnounced
  <2>0. PICK verdict \in RowOutcomes : Prints(RunEnd(verdict))
    BY <1>8 DEF ExitAnnounced, Verdicts, RowOutcomes
  <2> DEFINE x == RunEnd(verdict)
  <2>1. /\ child.todo = {} /\ child.busy = {}
        /\ child'.todo = {} /\ child'.busy = {} /\ child'.ok /\ ~child'.on
        /\ pipe' = Append(pipe, x)
    BY <1>8, <2>0 DEF ExitAnnounced, Prints, RunsTypeOK
  <2>2. ReqInv'  BY <1>1, <2>1 DEF RunInv, ReqInv, InChild
  <2>3. x \in Line /\ \A q : x # Event("pair_started", q)
    BY DEF RunEnd, Event, Line, RowOutcomes
  <2>4. ChildInv'  BY <2>1 DEF ChildInv
  <2>5. ASSUME ~Lost(agent.run), NEW q \in Rows
        PROVE  \/ Told(pipe', q)
               \/ Quiet(pipe', q) /\ result[agent.run][q] \notin {"pending", "running"}
    <3>1. /\ Told(pipe, q) => Told(pipe', q)
          /\ Quiet(pipe, q) => Quiet(pipe', q)
      BY <1>5, <2>1, <2>3, PipeAppend
    <3>. QED  BY <1>3, <2>1, <2>5, <3>1 DEF RunInv, WorkInv
  <2>6. WorkInv'  BY <1>1, <2>5 DEF WorkInv, Lost, Told, Quiet
  <2>. QED  BY <1>4, <2>2, <2>4, <2>6 DEF RunInv
<1>9. CASE ExitFailing \/ Hang
  <2>1. /\ child'.todo = child.todo /\ child'.busy = child.busy /\ child'.ok = child.ok
        /\ pipe' = pipe
    BY <1>9 DEF ExitFailing, Hang, RunsTypeOK
  <2>2. ReqInv'  BY <1>1, <2>1 DEF RunInv, ReqInv, InChild
  <2>3. ChildInv'  BY <1>2, <2>1 DEF ChildInv, SaysEnd
  <2>4. WorkInv'  BY <1>1, <2>1 DEF RunInv, WorkInv, InChild, Lost, Told, Quiet
  <2>. QED  BY <1>4, <2>2, <2>3, <2>4 DEF RunInv
<1>. QED  BY <1>6, <1>7, <1>8, <1>9

\* A line of the pipe reaches the table, or is lost with the run.
LEMMA ForwardInv ==
  ASSUME RowsNameBroker, RunsTypeOK, RunInv, Forward
  PROVE  RunInv'
<1> DEFINE e == Head(pipe)
           a == agent.run
<1>1. /\ agent.at = "stream" /\ pipe # <<>> /\ pipe' = Tail(pipe)
      /\ UNCHANGED <<order, req, agent, child, restarts, cancels>>
  BY DEF Forward
<1>2. InChild /\ InChild' /\ a \in Runs  BY <1>1, WorkingRun DEF InChild
<1>3. pipe \in Seq(Line) /\ e \in Line
  BY <1>1, PipeTail DEF RunsTypeOK, Line
<1>4. \A p : /\ Told(pipe, p) => \/ Told(pipe', p)
                                 \/ e.what \in RowOutcomes /\ e.of = p /\ Quiet(pipe', p)
             /\ Quiet(pipe, p) => Quiet(pipe', p) /\ e # Event("pair_started", p)
             /\ SaysEnd(pipe') \/ e.what = "run_finished" => SaysEnd(pipe)
  BY <1>1, <1>3, PipeTail
<1>5. ChildInv'
  <2>1. SaysEnd(pipe)' => SaysEnd(pipe)  BY <1>4 DEF SaysEnd
  <2>. QED  BY <1>1, <1>2, <2>1 DEF RunInv, ChildInv
<1>6. CASE e.what = "run_finished"
  <2>1. child.ok /\ child.todo = {}  BY <1>2, <1>4, <1>6 DEF RunInv, ChildInv
  <2>2. e.of \in {"completed", "failed"}  BY <1>3, <1>6 DEF Line, RowOutcomes
  <2>3. PatchRun(a, e.of) /\ UNCHANGED result  BY <1>6 DEF Forward
  <2>4. /\ \A q \in Runs \ {a} : status'[q] = status[q]
        /\ status'[a] \in {status[a], e.of}
        /\ \A q : Lost(q) => Among(lost', q)
    BY <1>2, <2>3, PatchRunEffect
  <2>5. ReqInv'  BY <1>1, <1>2, <2>1, <2>2, <2>4, ReqKept DEF RunInv, InChild
  <2>6. OrderInv'  BY <1>1, <2>2, <2>4 DEF RunInv, OrderInv
  <2>7. StageInv'  BY <1>1, <2>1 DEF StageInv
  <2>8. ASSUME ~Among(lost', a), NEW p \in Rows \ (child'.todo \cup child'.busy)
        PROVE  \/ Told(pipe', p)
               \/ Quiet(pipe', p) /\ result'[a][p] \notin {"pending", "running"}
    <3>1. e.what \notin RowOutcomes  BY <1>6 DEF RowOutcomes
    <3>. QED  BY <1>1, <1>2, <1>4, <2>3, <2>4, <2>8, <3>1 DEF RunInv, WorkInv
  <2>9. WorkInv'  BY <1>1, <2>8 DEF WorkInv, Lost, Among, Told, Quiet
  <2>10. CompletedIsComplete'
    <3> SUFFICES ASSUME NEW r \in Runs, status'[r] = "completed", ~Working(r)', ~Among(lost', r)
                 PROVE  \A p \in Rows : result'[r][p] \notin {"pending", "running"}
      BY DEF CompletedIsComplete, Lost, Among
    <3>1. r # a /\ ~Working(r)  BY <1>1 DEF Working
    <3>. QED  BY <2>3, <2>4, <3>1 DEF RunInv, CompletedIsComplete
  <2>. QED  BY <1>5, <2>5, <2>6, <2>7, <2>9, <2>10 DEF RunInv
<1>7. CASE e.what # "run_finished"
  <2>1. e.what \in {"pair_started"} \cup RowOutcomes /\ e.of \in Rows
        /\ (e.what = "pair_started" => e = Event("pair_started", e.of))
    BY <1>3, <1>7 DEF Line, Event
  <2>2. PatchResult(a, e.of, NewStatus(e)) /\ UNCHANGED status
    BY <1>7 DEF Forward
  <2>3. /\ \A r \in Runs \ {a} : result'[r] = result[r]
        /\ \A p \in Rows \ {e.of} : result'[a][p] = result[a][p]
        /\ \A q : Lost(q) => Among(lost', q)
        /\ ~Among(lost', a) => result'[a][e.of] \in {"none", NewStatus(e)}
    <3>1. CASE UNCHANGED result /\ Lose(a)
      <4>1. \A q : Among(lost', q) <=> Lost(q) \/ q = a
        <5>1. \A q : Lost(q)' <=> Among(lost', q)  BY DEF Lost, Among
        <5>. QED  BY <1>2, <3>1, <5>1, LoseLost
      <4>. QED  BY <3>1, <4>1
    <3>2. CASE /\ result' = IF result[a][e.of] = "none" \/ ~RowsNameBroker THEN result
                            ELSE [result EXCEPT ![a][e.of] = NewStatus(e)]
               /\ UNCHANGED lost
      <4>1. \A q : Lost(q) <=> Among(lost', q)  BY <3>2 DEF Lost, Among
      <4>2. /\ \A r \in Runs \ {a} : result'[r] = result[r]
            /\ \A p \in Rows \ {e.of} : result'[a][p] = result[a][p]
            /\ result'[a][e.of] \in {"none", NewStatus(e)}
        BY <1>2, <2>1, <3>2 DEF RunsTypeOK
      <4>. QED  BY <4>1, <4>2
    <3>. QED  BY <2>2, <3>1, <3>2 DEF PatchResult
  <2>4. ReqInv'  BY <1>1, <2>2 DEF RunInv, ReqInv, InChild
  <2>5. OrderInv' /\ StageInv'  BY <1>1, <2>2 DEF RunInv, OrderInv, StageInv
  <2>6. ASSUME ~Among(lost', a), NEW p \in Rows \ (child'.todo \cup child'.busy)
        PROVE  \/ Told(pipe', p)
               \/ Quiet(pipe', p) /\ result'[a][p] \notin {"pending", "running"}
    <3>1. \/ Told(pipe, p)
          \/ Quiet(pipe, p) /\ result[a][p] \notin {"pending", "running"}
      BY <1>1, <1>2, <2>3, <2>6 DEF RunInv, WorkInv
    <3>2. CASE p # e.of  BY <1>4, <2>3, <3>1, <3>2
    <3>3. CASE p = e.of /\ e.what = "pair_started"
      BY <1>4, <2>1, <3>1, <3>3 DEF RowOutcomes
    <3>4. CASE p = e.of /\ e.what \in RowOutcomes
      <4>1. result'[a][p] \notin {"pending", "running"}
        BY <2>3, <2>6, <3>4 DEF NewStatus, RowOutcomes
      <4>. QED  BY <1>4, <3>1, <4>1
    <3>. QED  BY <2>1, <3>2, <3>3, <3>4
  <2>7. WorkInv'  BY <1>1, <2>6 DEF WorkInv, Lost, Among, Told, Quiet
  <2>8. CompletedIsComplete'
    <3> SUFFICES ASSUME NEW r \in Runs, status'[r] = "completed", ~Working(r)', ~Among(lost', r)
                 PROVE  \A p \in Rows : result'[r][p] \notin {"pending", "running"}
      BY DEF CompletedIsComplete, Lost, Among
    <3>1. r # a /\ ~Working(r)  BY <1>1 DEF Working
    <3>. QED  BY <2>2, <2>3, <3>1 DEF RunInv, CompletedIsComplete
  <2>. QED  BY <1>5, <2>4, <2>5, <2>7, <2>8 DEF RunInv
<1>. QED  BY <1>6, <1>7

\* The agent lets go of a run.
LEMMA EndInv ==
  ASSUME RunsTypeOK, RunInv, SetFinal \/ StreamBreaks
  PROVE  RunInv'
<1> DEFINE a == agent.run
<1>0. InChild /\ a \in Runs
  BY WorkingRun DEF SetFinal, StreamBreaks, InChild
<1>1. CASE StreamBreaks
  <2>1. /\ UNCHANGED <<order, result, req, restarts, cancels>>
        /\ agent'.at = "idle" /\ ~child'.ok
    BY <1>1 DEF StreamBreaks, NoChild, AgentIdle
  <2>2. /\ \A q \in Runs \ {a} : status'[q] = status[q]
        /\ status'[a] \in {status[a], "failed"}
        /\ \A q : Lost(q) => Among(lost', q)
        /\ ~Among(lost', a) => status'[a] = "failed"
    BY <1>0, <1>1, PatchRunEffect DEF StreamBreaks
  <2>3. ~InChild'  BY <2>1 DEF InChild
  <2>4. ReqInv'  BY <1>0, <2>1, <2>2, <2>3, ReqKept DEF RunInv
  <2>5. CompletedIsComplete'
    <3> SUFFICES ASSUME NEW r \in Runs, status'[r] = "completed", ~Among(lost', r)
                 PROVE  \A p \in Rows : result'[r][p] \notin {"pending", "running"}
      BY DEF CompletedIsComplete, Lost, Among
    <3>1. r # a /\ ~Working(r)  BY <2>2 DEF Working
    <3>. QED  BY <2>1, <2>2, <3>1 DEF RunInv, CompletedIsComplete
  <2>. QED  BY <2>1, <2>3, <2>4, <2>5 DEF RunInv, OrderInv, StageInv, ChildInv, WorkInv
<1>2. CASE SetFinal
  <2> DEFINE s == IF child.ok THEN "completed" ELSE "failed"
  <2>1. /\ UNCHANGED <<order, result, req, child, pipe, restarts, cancels>>
        /\ agent'.at = "idle" /\ pipe = <<>>
    BY <1>2 DEF SetFinal, AgentIdle
  <2>2. /\ \A q \in Runs \ {a} : status'[q] = status[q]
        /\ status'[a] \in {status[a], s}
        /\ \A q : Lost(q) => Among(lost', q)
        /\ ~Among(lost', a) => status'[a] = s
    BY <1>0, <1>2, PatchRunEffect DEF SetFinal
  <2>3. ~InChild'  BY <2>1 DEF InChild
  <2>4. child.ok => child.todo = {} /\ child.busy = {}  BY DEF RunInv, ChildInv
  <2>5. ReqInv'  BY <1>0, <2>1, <2>2, <2>3, <2>4, ReqKept DEF RunInv
  <2>6. CompletedIsComplete'
    <3> SUFFICES ASSUME NEW r \in Runs, status'[r] = "completed", ~Among(lost', r)
                 PROVE  \A p \in Rows : result'[r][p] \notin {"pending", "running"}
      BY DEF CompletedIsComplete, Lost, Among
    <3>1. CASE r = a
      <4>1. child.ok /\ ~Lost(a)  BY <2>2, <3>1
      <4>. QED  BY <1>0, <2>1, <2>4, <3>1, <4>1, PipeEmpty DEF RunInv, WorkInv
    <3>2. CASE r # a
      <4>1. ~Working(r)  BY <3>2 DEF Working
      <4>. QED  BY <2>1, <2>2, <3>2, <4>1 DEF RunInv, CompletedIsComplete
    <3>. QED  BY <3>1, <3>2
  <2>. QED  BY <2>1, <2>3, <2>5, <2>6 DEF RunInv, OrderInv, StageInv, ChildInv, WorkInv
<1>. QED  BY <1>1, <1>2

\* Every reachable state of the two tables, the requests, the agent and its child
\* is well typed.
THEOREM RunsTypeCorrect == RunsSpec => []RunsTypeOK
<1>. QED  BY RunTypeInit, RunTypeStep, PTL DEF RunsSpec

\* In the modes whose rows name a broker, a run that is completed and that the
\* agent has done with has no result left pending or running, however requests,
\* restarts, cancels and the pipe interleave, if none of its updates was lost.
THEOREM CompletedRunsAreComplete ==
  ASSUME RowsNameBroker
  PROVE  RunsSpec => []CompletedIsComplete
<1>1. RunsInit => RunsTypeOK /\ RunInv  BY RunTypeInit, RunInvInit
<1>2. RunsTypeOK /\ RunInv /\ [RunsNext]_runsVars => (RunsTypeOK /\ RunInv)'
  <2> SUFFICES ASSUME RunsTypeOK, RunInv, [RunsNext]_runsVars PROVE RunInv'  BY RunTypeStep
  <2>1. CASE Served  BY <2>1, ServedInv
  <2>2. CASE Poll \/ NotReady \/ MarkRunning \/ Spawn \/ SpawnFails  BY <2>2, IdleInv
  <2>3. CASE Forward  BY <2>3, ForwardInv
  <2>4. CASE SetFinal \/ StreamBreaks  BY <2>4, EndInv
  <2>5. CASE \/ \E p \in Rows : Begin(p) \/ \E o \in RowOutcomes : Report(p, o)
             \/ ExitAnnounced \/ ExitFailing \/ Hang
    BY <2>5, ChildInvs
  <2>. QED  BY <2>1, <2>2, <2>3, <2>4, <2>5, StepKinds DEF OtherStep
<1>3. RunInv => CompletedIsComplete  BY DEF RunInv
<1>. QED  BY <1>1, <1>2, <1>3, PTL DEF RunsSpec

LEMMA PatchedOther ==
  ASSUME RunsTypeOK, NEW r \in Runs, NEW s, NEW q \in Runs \ {r}, PatchRun(r, s)
  PROVE  status'[q] = status[q]
BY PatchRunEffect

\* Whoever steps, a run that is over stays so: the requests write ends only, and
\* what the agent writes is of the run it has at hand.
LEMMA EndedStep ==
  ASSUME RunsTypeOK, [RunsNext]_runsVars, NEW r \in Runs, Over(r)
  PROVE  Over(r)'
<1>0. status[r] \in Terminal /\ (agent.at = "idle" \/ agent.run # r)
  BY DEF Over, Working
<1>1. status[r] # "queued" /\ status[r] # "none"  BY <1>0 DEF Terminal
<1> SUFFICES status'[r] \in Terminal /\ (agent'.at = "idle" \/ agent'.run # r)
  BY DEF Over, Working
<1>2. CASE Served
  <2>1. UNCHANGED agent /\ status'[r] \in {status[r], "cancelled", "interrupted"}
    BY <1>1, <1>2, ServedEffect
  <2>. QED  BY <1>0, <2>1 DEF Terminal
<1>3. CASE Poll
  <2>1. UNCHANGED status /\ \E q \in Runs : status[q] = "queued" /\ agent' = [at |-> "picked", run |-> q]
    BY <1>3 DEF Poll, Queued
  <2>. QED  BY <1>0, <1>1, <2>1
<1>4. CASE NotReady \/ SpawnFails \/ SetFinal \/ StreamBreaks
  <2>1. agent'.at = "idle"
    BY <1>4 DEF NotReady, SpawnFails, SetFinal, StreamBreaks, AgentIdle
  <2>2. agent.run # r /\ agent.run \in Runs
    BY <1>0, <1>4, WorkingRun DEF NotReady, SpawnFails, SetFinal, StreamBreaks
  <2>3. UNCHANGED status \/ \E s : PatchRun(agent.run, s)
    BY <1>4 DEF NotReady, SpawnFails, SetFinal, StreamBreaks
  <2>4. status'[r] = status[r]  BY <2>2, <2>3, PatchedOther
  <2>. QED  BY <1>0, <2>1, <2>4
<1>5. CASE MarkRunning \/ Spawn \/ Forward
  <2>1. agent.run # r /\ agent.run \in Runs /\ agent'.run = agent.run
    BY <1>0, <1>5, WorkingRun DEF MarkRunning, Spawn, Forward, RunsTypeOK
  <2>2. UNCHANGED status \/ \E s : PatchRun(agent.run, s)
    BY <1>5 DEF MarkRunning, Spawn, Forward
  <2>3. status'[r] = status[r]  BY <2>1, <2>2, PatchedOther
  <2>. QED  BY <1>0, <2>1, <2>3
<1>6. CASE \/ \E p \in Rows : Begin(p) \/ \E o \in RowOutcomes : Report(p, o)
           \/ ExitAnnounced \/ ExitFailing \/ Hang
  BY <1>0, <1>6 DEF Begin, Report, ExitAnnounced, ExitFailing, Hang
<1>. QED  BY <1>2, <1>3, <1>4, <1>5, <1>6, StepKinds DEF OtherStep

\* A run that has ended, and that the agent has done with, is not taken up again,
\* however restarts, cancels and polls cross.
THEOREM EndedRunsStayEnded == RunsSpec => EndedStaysEnded
<1>1. RunsTypeOK /\ [RunsNext]_runsVars => [\A r \in Runs : Over(r) => Over(r)']_runsVars
  BY EndedStep
<1>. QED  BY <1>1, RunsTypeCorrect, PTL DEF RunsSpec, EndedStaysEnded

-----------------------------------------------------------------------------
(* The search of one process, on its tab.                                  *)

Applying == {"snapshot", "dialog", "wait", "check", "read"}
Stages == {"idle", "load", "ask", "save", "end"} \cup Applying
Calcs == {"none", "due", "overdue", "running", "stuck"}
Scored == [params : Settings, value : Nat, score : Nat, sure : BOOLEAN]

\* The study and the pair are left alone, and so are the files.
Onward == UNCHANGED <<pair, trial, told, best, checkpoint, done, byPair, saved,
                    rejected>>

\* How an attempt at some settings may fail.
Again == /\ attempt < MaxAttempts /\ attempt' = attempt + 1 /\ at' = "snapshot"
         /\ UNCHANGED <<phase, target, before, sure, fails>>
         /\ Onward
GivesUp == \/ phase = "baseline" /\ at' = "ask" /\ UNCHANGED fails /\ Onward
           \/ phase = "trial" /\ at' = "ask" /\ fails' = fails + 1 /\ Onward
           \/ Reject

LEMMA GiveUpCases == SearchTypeOK /\ GiveUpApply => GivesUp
BY DEF SearchTypeOK, GiveUpApply, GivesUp, FailTrial, Onward, search, files

LEMMA RetryCases ==
  SearchTypeOK /\ ApplyAgain => Again \/ (GivesUp /\ UNCHANGED <<phase, target, attempt,
                                                                 before, sure>>)
<1> SUFFICES ASSUME SearchTypeOK, ApplyAgain
             PROVE  Again \/ (GivesUp /\ UNCHANGED <<phase, target, attempt, before, sure>>)
  OBVIOUS
<1>1. CASE attempt < MaxAttempts
  BY <1>1 DEF ApplyAgain, Again, Onward, search, files
<1>2. CASE ~(attempt < MaxAttempts)
  BY <1>2, GiveUpCases DEF ApplyAgain, apply
<1>. QED  BY <1>1, <1>2

-----------------------------------------------------------------------------
StandInv ==
  /\ pair = None <=> at \in {"idle", "end"}
  /\ pair # None => chart.symbol = pair
  /\ at = "read" => phase \in {"trial", "replay"}

\* A trial that can still fail has not been counted among the failures, and only
\* the baseline is not sampled.
CountInv ==
  /\ fails <= trial
  /\ phase = "trial" /\ at \in Applying => fails < trial
  /\ phase # "baseline" /\ at \in Applying => target \in Settings

TypeInv == SearchTypeOK /\ StandInv /\ CountInv

\* The parts of TypeOK that most steps treat alike.
TabType == chart \in Charts /\ shown \in Charts /\ calc \in Calcs
ApplyType == /\ phase \in {"baseline", "trial", "replay"} /\ target \in Inputs
             /\ attempt \in 0..MaxAttempts /\ before \in Nat \cup {None} /\ sure \in BOOLEAN
SearchType == /\ trial \in 0..Trials /\ fails \in 0..Trials
              /\ told \subseteq Scored /\ best \in Results \cup {None}
FilesType == /\ {checkpoint, done, byPair, saved} \subseteq [Symbols -> Results \cup {None}]
             /\ rejected \subseteq Symbols
RestType == /\ todo \subseteq DOMAIN PairList /\ pair \in Symbols \cup {None} /\ at \in Stages
            /\ hung \in BOOLEAN /\ crashes \in 0..MaxCrashes

LEMMA TypeParts ==
  SearchTypeOK <=> TabType /\ ApplyType /\ SearchType /\ FilesType /\ RestType
BY DEF SearchTypeOK, TabType, ApplyType, SearchType, FilesType, RestType, Calcs, Scored, Stages,
       Applying

LEMMA PairTyped == \A i \in DOMAIN PairList : PairList[i] \in Symbols
BY DEF Symbols, Range

LEMMA ScoresAreNumbers ==
  ASSUME SearchTypeOK
  PROVE  /\ Numbers(shown) \in Nat
         /\ \A confirmed \in BOOLEAN :
              Score(confirmed) \in Nat
              /\ (Score(confirmed) > 0 => Score(confirmed) = Numbers(shown))
<1>1. Numbers(shown) \in Nat  BY TrialsAssumption DEF SearchTypeOK, Charts, Numbers
<1>. QED  BY <1>1 DEF Score

LEMMA BecomeType ==
  ASSUME SearchTypeOK, NEW c \in Charts, SetChart(c)
  PROVE  /\ TabType' /\ chart' = c
         /\ UNCHANGED shown /\ calc' = IF c = chart THEN calc ELSE "due"
BY DEF SearchTypeOK, TabType, SetChart, Calcs

LEMMA ConfirmType ==
  ASSUME TypeInv, pair # None, SetChart([chart EXCEPT !.inputs = target])
  PROVE  /\ TabType' /\ UNCHANGED shown
         /\ chart' = [symbol |-> pair, inputs |-> target]
         /\ calc' = IF chart' = chart THEN calc ELSE "due"
<1>1. [chart EXCEPT !.inputs = target] = [symbol |-> chart.symbol, inputs |-> target]
  BY DEF TypeInv, SearchTypeOK, Charts
<1>2. [chart EXCEPT !.inputs = target] \in Charts  BY <1>1 DEF TypeInv, SearchTypeOK, Charts
<1>. QED  BY <1>1, <1>2, BecomeType DEF TypeInv, StandInv

LEMMA TrialInit ==
  ASSUME SearchInit
  PROVE  TypeInv
<1>1. PairList[1] \in Symbols /\ 1 \in DOMAIN PairList
  <2>1. 1 \in DOMAIN PairList  BY EmptySeq, TrialsAssumption
  <2>. QED  BY <2>1, PairTyped
<1>2. chart \in Charts /\ shown \in Charts  BY <1>1 DEF SearchInit, Charts, Inputs
<1>3. NoResults \in [Symbols -> Results \cup {None}]  BY DEF NoResults
<1>4. 0 \in 0..MaxAttempts /\ 0 \in 0..Trials /\ 0 \in 0..MaxCrashes
  BY TrialsAssumption
<1>5. TabType /\ ApplyType /\ SearchType /\ FilesType /\ RestType
  BY <1>2, <1>3, <1>4
  DEF SearchInit, TabType, ApplyType, SearchType, FilesType, RestType, Calcs, Stages, Inputs
<1>. QED  BY <1>5, TypeParts DEF SearchInit, TypeInv, StandInv, CountInv, Applying

LEMMA TrialTypeStep ==
  ASSUME TypeInv, [SearchNext]_searchVars
  PROVE  TypeInv'
<1>0. SearchTypeOK /\ StandInv /\ CountInv /\ TabType /\ ApplyType /\ SearchType /\ FilesType /\ RestType
  BY TypeParts DEF TypeInv
<1>p. \A i \in DOMAIN PairList : PairList[i] \in Symbols /\ PairList[i] # None
  BY PairTyped, TrialsAssumption
<1>n. {0, 1} \subseteq 0..MaxAttempts /\ 0 \in 0..Trials /\ {Trials, MaxAttempts, MaxCrashes} \subseteq Nat
  BY TrialsAssumption
<1>t. TabType' /\ ApplyType' /\ SearchType' /\ FilesType' /\ RestType' => SearchTypeOK'
  BY DEF SearchTypeOK, TabType, ApplyType, SearchType, FilesType, RestType, Calcs, Scored, Stages,
       Applying
<1> USE DEF TypeInv
<1>1. CASE Recalculate
  <2>1. /\ UNCHANGED <<chart, todo, pair, at, phase, target, attempt, before, sure, hung,
                       trial, fails,
                       told, best, checkpoint, done, byPair, saved, rejected, crashes>>
        /\ shown' \in {shown, chart} /\ calc' \in Calcs
    BY <1>1 DEF Recalculate, CalcStarts, CalcEnds, apply, search, files, Calcs
  <2>. QED
    BY <1>0, <1>t, <2>1
    DEF TabType, ApplyType, SearchType, FilesType, RestType, StandInv, CountInv
<1>2. ASSUME pair # None, GivesUp,
             UNCHANGED <<phase, target, attempt, before, sure, todo, crashes>>,
             TabType', chart'.symbol = pair, hung' \in BOOLEAN,
             phase = "trial" => at \in Applying
      PROVE  TypeInv'
  <2>1. ApplyType'  BY <1>0, <1>2 DEF ApplyType
  <2>2. CASE Reject
    <3>1. SearchType'  BY <1>n, <2>2 DEF Reject, LeavePair, SearchType
    <3>2. FilesType' /\ RestType'
      BY <1>0, <1>2, <2>2 DEF Reject, LeavePair, FilesType, RestType, Stages
    <3>3. StandInv' /\ CountInv'
      BY <1>2, <2>2 DEF Reject, LeavePair, StandInv, CountInv, Applying
    <3>. QED  BY <1>t, <1>2, <2>1, <3>1, <3>2, <3>3
  <2>3. CASE phase = "baseline" /\ at' = "ask" /\ UNCHANGED fails /\ Onward
    <3>1. SearchType' /\ FilesType' /\ RestType'
      BY <1>0, <1>2, <2>3 DEF Onward, SearchType, FilesType, RestType, Stages
    <3>2. StandInv' /\ CountInv'
      BY <1>0, <1>2, <2>3 DEF Onward, StandInv, CountInv, Applying
    <3>. QED  BY <1>t, <1>2, <2>1, <3>1, <3>2
  <2>4. CASE phase = "trial" /\ at' = "ask" /\ fails' = fails + 1 /\ Onward
    <3>0. fails' \in 0..Trials /\ fails' <= trial
      BY <1>0, <1>2, <1>n, <2>4 DEF SearchType, CountInv
    <3>1. SearchType' /\ FilesType' /\ RestType'
      BY <1>0, <1>2, <2>4, <3>0 DEF Onward, SearchType, FilesType, RestType, Stages
    <3>2. StandInv' /\ CountInv'
      BY <1>0, <1>2, <2>4, <3>0 DEF Onward, StandInv, CountInv, Applying
    <3>. QED  BY <1>t, <1>2, <2>1, <3>1, <3>2
  <2>. QED  BY <1>2, <2>2, <2>3, <2>4 DEF GivesUp
<1>3. ASSUME pair # None, ApplyAgain, UNCHANGED <<todo, hung, crashes>>,
             TabType', chart'.symbol = pair, at \in Applying
      PROVE  TypeInv'
  <2>1. CASE Again
    <3>1. ApplyType'
      <4>1. attempt' \in 0..MaxAttempts  BY <1>0, <1>n, <2>1 DEF Again, ApplyType
      <4>. QED  BY <1>0, <2>1, <4>1 DEF Again, ApplyType
    <3>2. SearchType' /\ FilesType' /\ RestType'
      BY <1>0, <1>3, <2>1 DEF Again, Onward, SearchType, FilesType, RestType, Stages, Applying
    <3>3. StandInv' /\ CountInv'
      BY <1>0, <1>3, <2>1 DEF Again, Onward, StandInv, CountInv, Applying
    <3>. QED  BY <1>t, <1>3, <3>1, <3>2, <3>3
  <2>2. CASE GivesUp /\ UNCHANGED <<phase, target, attempt, before, sure>>
    <3>1. hung' \in BOOLEAN  BY <1>0, <1>3 DEF RestType
    <3>. QED  BY <1>2, <1>3, <2>2, <3>1
  <2>. QED  BY <1>0, <1>3, <2>1, <2>2, RetryCases
<1>4. CASE StartPair
  <2>1. PICK i \in todo :
          /\ todo' = todo \ {i}
          /\ pair' = PairList[i]
          /\ SetChart([chart EXCEPT !.symbol = PairList[i]])
    BY <1>4 DEF StartPair
  <2>2. PairList[i] \in Symbols /\ PairList[i] # None  BY <1>0, <1>p DEF RestType
  <2>3. /\ [chart EXCEPT !.symbol = PairList[i]] \in Charts
        /\ [chart EXCEPT !.symbol = PairList[i]].symbol = PairList[i]
    BY <1>0, <2>2 DEF TabType, Charts
  <2>4. TabType' /\ chart'.symbol = pair'  BY <1>0, <2>1, <2>3, BecomeType
  <2>5. ApplyType' /\ SearchType' /\ FilesType' /\ RestType'
    BY <1>0, <1>4, <2>1, <2>2
    DEF StartPair, ApplyType, SearchType, FilesType, RestType, Stages, search, files
  <2>6. StandInv' /\ CountInv'
    BY <1>0, <1>4, <2>1, <2>2, <2>4 DEF StartPair, StandInv, CountInv, Applying, search
  <2>. QED  BY <1>t, <2>4, <2>5, <2>6
<1>5. CASE Loaded
  <2>1. /\ UNCHANGED <<chart, shown, calc, todo, pair, hung, trial, fails, told, best,
                       checkpoint, done,
                       byPair, saved, rejected, crashes>>
        /\ pair # None
        /\ \/ at' = "ask" /\ UNCHANGED <<phase, target, attempt, before, sure>>
           \/ /\ phase' = "baseline" /\ target' = Baseline /\ attempt' = 1
              /\ at' = "snapshot" /\ sure' = FALSE /\ UNCHANGED before
    BY <1>5 DEF Loaded, Searching, tab, search, files, apply, Apply
  <2>2. TabType' /\ ApplyType'
    BY <1>0, <1>n, <2>1 DEF TabType, ApplyType, Inputs
  <2>3. SearchType' /\ FilesType' /\ RestType'
    BY <1>0, <2>1 DEF SearchType, FilesType, RestType, Stages, Applying
  <2>4. StandInv' /\ CountInv'
    BY <1>0, <2>1 DEF StandInv, CountInv, Applying
  <2>. QED  BY <1>t, <2>2, <2>3, <2>4
<1>6. CASE LoadFails
  <2>1. /\ pair # None /\ at = "load"
        /\ UNCHANGED <<chart, shown, calc, todo, phase, target, attempt, before, sure, hung,
                       crashes>>
    BY <1>6 DEF LoadFails, Searching, tab, apply
  <2>2. TabType' /\ ApplyType'  BY <1>0, <2>1 DEF TabType, ApplyType
  <2>3. CASE Reject
    <3>1. SearchType'  BY <1>n, <2>3 DEF Reject, LeavePair, SearchType
    <3>2. FilesType' /\ RestType'
      BY <1>0, <2>1, <2>3 DEF Reject, LeavePair, FilesType, RestType, Stages
    <3>3. StandInv' /\ CountInv'
      BY <2>1, <2>3 DEF Reject, LeavePair, StandInv, CountInv, Applying
    <3>. QED  BY <1>t, <2>2, <3>1, <3>2, <3>3
  <2>4. CASE at' = "ask" /\ UNCHANGED <<pair, search, files>>
    <3>1. SearchType' /\ FilesType' /\ RestType'
      BY <1>0, <2>1, <2>4 DEF SearchType, FilesType, RestType, Stages, search, files
    <3>2. StandInv' /\ CountInv'
      BY <1>0, <2>1, <2>4 DEF StandInv, CountInv, Applying, search
    <3>. QED  BY <1>t, <2>2, <3>1, <3>2
  <2>. QED  BY <1>6, <2>3, <2>4 DEF LoadFails
<1>7. CASE ReloadTab
  <2>1. TabType' /\ ApplyType'
    BY <1>0, <1>7 DEF ReloadTab, TabType, ApplyType, Calcs
  <2>2. SearchType'  BY <1>0, <1>n, <1>7 DEF ReloadTab, SearchType
  <2>3. FilesType' /\ RestType'
    BY <1>0, <1>7 DEF ReloadTab, FilesType, RestType, Stages, files
  <2>4. StandInv' /\ CountInv'
    BY <1>0, <1>7 DEF ReloadTab, Searching, StandInv, CountInv, Applying, SearchType
  <2>. QED  BY <1>t, <2>1, <2>2, <2>3, <2>4
<1>8. CASE Ask
  <2>1. PICK s \in Settings : Apply("trial", s)  BY <1>8 DEF Ask
  <2>2. /\ UNCHANGED <<chart, shown, calc, todo, pair, hung, fails, told, best, checkpoint,
                       done, byPair,
                       saved, rejected, crashes>>
        /\ pair # None /\ trial < Trials /\ trial' = trial + 1
    BY <1>8 DEF Ask, Searching, tab, files
  <2>3. TabType' /\ ApplyType'
    BY <1>0, <1>n, <2>1, <2>2 DEF Apply, TabType, ApplyType, Inputs
  <2>4. trial' \in 0..Trials /\ fails < trial'
    BY <1>0, <1>n, <2>2 DEF SearchType, CountInv
  <2>5. SearchType' /\ FilesType' /\ RestType'
    BY <1>0, <2>1, <2>2, <2>4 DEF Apply, SearchType, FilesType, RestType, Stages, Applying
  <2>6. StandInv' /\ CountInv'
    BY <1>0, <2>1, <2>2, <2>4 DEF Apply, StandInv, CountInv, SearchType
  <2>. QED  BY <1>t, <2>3, <2>5, <2>6
<1>9. CASE Decide
  <2>1. /\ UNCHANGED <<chart, shown, calc, todo, hung, crashes>> /\ pair # None
    BY <1>9 DEF Decide, Searching, tab
  <2>2. TabType'  BY <1>0, <2>1 DEF TabType
  <2>3. CASE Reject /\ UNCHANGED apply
    <3>1. ApplyType' /\ SearchType'
      BY <1>0, <1>n, <2>3 DEF Reject, LeavePair, ApplyType, SearchType, apply
    <3>2. FilesType' /\ RestType'
      BY <1>0, <2>1, <2>3 DEF Reject, LeavePair, FilesType, RestType, Stages
    <3>3. StandInv' /\ CountInv'
      BY <2>1, <2>3 DEF Reject, LeavePair, StandInv, CountInv, Applying
    <3>. QED  BY <1>t, <2>2, <3>1, <3>2, <3>3
  <2>4. CASE best # None /\ Apply("replay", best.params) /\ UNCHANGED <<pair, search, files>>
    <3>1. best.params \in Inputs  BY <1>0, <2>4 DEF SearchType, Results, Inputs
    <3>2. ApplyType'  BY <1>0, <1>n, <2>4, <3>1 DEF Apply, ApplyType
    <3>3. SearchType' /\ FilesType' /\ RestType'
      BY <1>0, <2>1, <2>4
      DEF Apply, SearchType, FilesType, RestType, Stages, Applying, search, files
    <3>4. best.params \in Settings  BY <1>0, <2>4 DEF SearchType, Results
    <3>5. StandInv' /\ CountInv'
      BY <1>0, <2>1, <2>4, <3>4 DEF Apply, StandInv, CountInv, search
    <3>. QED  BY <1>t, <2>2, <3>2, <3>3, <3>5
  <2>. QED  BY <1>9, <2>3, <2>4 DEF Decide
<1>10. CASE TakeSnapshot
  <2>1. Fingerprints \subseteq Nat \cup {None}  BY <1>0, ScoresAreNumbers DEF Fingerprints
  <2>2. TabType' /\ ApplyType'
    BY <1>0, <1>10, <2>1 DEF TakeSnapshot, TabType, ApplyType, tab
  <2>3. SearchType' /\ FilesType' /\ RestType'
    BY <1>0, <1>10
    DEF TakeSnapshot, SearchType, FilesType, RestType, Stages, Applying, search, files
  <2>4. StandInv' /\ CountInv'
    BY <1>0, <1>10 DEF TakeSnapshot, Searching, StandInv, CountInv, Applying, search, tab
  <2>. QED  BY <1>t, <2>2, <2>3, <2>4
<1>11. CASE Confirm
  <2>1. TabType' /\ chart'.symbol = pair
    BY <1>11, ConfirmType DEF Confirm, Searching
  <2>2. ApplyType' /\ SearchType' /\ FilesType' /\ RestType'
    BY <1>0, <1>11
    DEF Confirm, ApplyType, SearchType, FilesType, RestType, Stages, Applying, apply,
        search, files
  <2>3. StandInv' /\ CountInv'
    BY <1>0, <1>11, <2>1 DEF Confirm, Searching, StandInv, CountInv, Applying, apply, search
  <2>. QED  BY <1>t, <2>1, <2>2, <2>3
<1>12. CASE DialogFails
  <2>1. TabType' /\ chart'.symbol = pair
    <3>1. CASE UNCHANGED tab
      BY <1>0, <1>12, <3>1 DEF DialogFails, Searching, tab, TabType, StandInv
    <3>2. CASE SetChart([chart EXCEPT !.inputs = target])
      BY <1>12, <3>2, ConfirmType DEF DialogFails, Searching
    <3>. QED  BY <1>12, <3>1, <3>2 DEF DialogFails
  <2>. QED  BY <1>3, <1>12, <2>1 DEF DialogFails, Searching, Applying
<1>13. CASE Wait
  <2>1. calc' \in Calcs  BY <1>0, <1>13 DEF Wait, TabType, Calcs
  <2>2. TabType' /\ ApplyType' /\ SearchType' /\ FilesType' /\ RestType'
    BY <1>0, <1>13, <2>1
    DEF Wait, TabType, ApplyType, SearchType, FilesType, RestType, Stages, Applying, apply,
        search, files
  <2>3. StandInv' /\ CountInv'
    BY <1>0, <1>13 DEF Wait, Searching, StandInv, CountInv, Applying, apply, search
  <2>. QED  BY <1>t, <2>2, <2>3
<1>14. CASE WaitExpires
  <2>1. TabType' /\ chart'.symbol = pair
    BY <1>0, <1>14 DEF WaitExpires, Searching, tab, TabType, StandInv
  <2>. QED  BY <1>3, <1>14, <2>1 DEF WaitExpires, Searching, Applying
<1>15. CASE Check
  <2>1. TabType' /\ chart'.symbol = pair /\ UNCHANGED <<todo, hung, crashes>>
    BY <1>0, <1>15 DEF Check, Searching, tab, TabType, StandInv
  <2>2. CASE ApplyAgain  BY <1>3, <1>15, <2>1, <2>2 DEF Check, Searching, Applying
  <2>3. CASE /\ at' = IF phase = "baseline" THEN "ask" ELSE "read"
             /\ sure' \in BOOLEAN
             /\ UNCHANGED <<pair, phase, target, attempt, before, search, files>>
    <3>1. ApplyType' /\ SearchType' /\ FilesType' /\ RestType'
      BY <1>0, <2>1, <2>3
      DEF ApplyType, SearchType, FilesType, RestType, Stages, Applying, search, files
    <3>2. StandInv' /\ CountInv'
      BY <1>0, <1>15, <2>1, <2>3
      DEF Check, Searching, StandInv, CountInv, ApplyType, Applying, search
    <3>. QED  BY <1>t, <2>1, <3>1, <3>2
  <2>. QED  BY <1>15, <2>2, <2>3 DEF Check
<1>16. CASE Read
  <2>1. /\ UNCHANGED <<chart, shown, calc, todo, phase, target, attempt, before, sure, hung,
                       crashes>>
        /\ pair # None /\ at = "read"
    BY <1>16 DEF Read, Searching, tab, apply
  <2>2. TabType' /\ ApplyType'  BY <1>0, <2>1 DEF TabType, ApplyType
  <2>3. PICK confirmed \in BOOLEAN :
          IF phase = "trial" THEN ReadTrial(confirmed) ELSE ReadReplay(confirmed)
    BY <1>16 DEF Read, Confirmed
  <2>4. Score(confirmed) \in Nat /\ Numbers(shown) \in Nat  BY <1>0, ScoresAreNumbers
  <2>5. CASE ReadTrial(confirmed) /\ phase = "trial"
    <3>1. SearchType'
      <4>1. target \in Settings  BY <1>0, <2>1, <2>5 DEF CountInv, Applying
      <4>2. told' \subseteq Scored
        BY <1>0, <2>4, <2>5, <4>1 DEF ReadTrial, SearchType, ApplyType, Scored
      <4>3. best' \in Results \cup {None}
        BY <1>0, <2>4, <2>5, <4>1 DEF ReadTrial, SearchType, Results
      <4>. QED  BY <1>0, <1>n, <2>5, <4>2, <4>3 DEF ReadTrial, SearchType
    <3>2. FilesType' /\ RestType'
      BY <1>0, <2>1, <2>5 DEF ReadTrial, FilesType, RestType, Stages, files
    <3>3. StandInv' /\ CountInv'
      BY <1>0, <2>1, <2>5 DEF ReadTrial, StandInv, CountInv, Applying, SearchType
    <3>. QED  BY <1>t, <2>2, <3>1, <3>2, <3>3
  <2>6. CASE Publish([params |-> target, value |-> Score(confirmed), replayed |-> TRUE])
             /\ phase # "trial"
    <3>1. [params |-> target, value |-> Score(confirmed), replayed |-> TRUE] \in Results
      <4>1. target \in Settings  BY <1>0, <2>1, <2>6 DEF StandInv, CountInv, Applying
      <4>. QED  BY <2>4, <4>1 DEF Results
    <3>2. SearchType' /\ FilesType' /\ RestType'
      BY <1>0, <2>1, <2>6, <3>1
      DEF Publish, SearchType, FilesType, RestType, Stages, files
    <3>3. StandInv' /\ CountInv'
      BY <1>0, <2>1, <2>6 DEF Publish, StandInv, CountInv, Applying
    <3>. QED  BY <1>t, <2>2, <3>2, <3>3
  <2>7. CASE Reject /\ phase # "trial"
    <3>1. SearchType'  BY <1>n, <2>7 DEF Reject, LeavePair, SearchType
    <3>2. FilesType' /\ RestType'
      BY <1>0, <2>1, <2>7 DEF Reject, LeavePair, FilesType, RestType, Stages
    <3>3. StandInv' /\ CountInv'
      BY <2>1, <2>7 DEF Reject, LeavePair, StandInv, CountInv, Applying
    <3>. QED  BY <1>t, <2>2, <3>1, <3>2, <3>3
  <2>. QED  BY <2>3, <2>5, <2>6, <2>7 DEF ReadReplay
<1>17. CASE ReadFails
  <2>1. /\ TabType' /\ chart'.symbol = pair /\ hung' \in BOOLEAN
        /\ UNCHANGED <<phase, target, attempt, before, sure, todo, crashes>>
        /\ pair # None /\ at \in Applying
    BY <1>0, <1>17
    DEF ReadFails, Searching, TabType, RestType, StandInv, Applying, tab, apply
  <2>2. GivesUp  BY <1>17 DEF ReadFails, GivesUp, FailTrial, Onward, files
  <2>. QED  BY <1>2, <2>1, <2>2
<1>18. CASE Save
  <2>1. /\ UNCHANGED <<chart, shown, calc, todo, phase, target, attempt, before, sure, hung,
                       saved,
                       rejected, crashes>>
        /\ checkpoint' = [checkpoint EXCEPT ![pair] = best]
        /\ done' \in {checkpoint', done, NoResults}
        /\ byPair' = [byPair EXCEPT ![pair] = best]
        /\ LeavePair
    BY <1>18 DEF Save, Written, tab, apply
  <2>2. TabType' /\ ApplyType'  BY <1>0, <2>1 DEF TabType, ApplyType
  <2>3. SearchType'  BY <1>n, <2>1 DEF LeavePair, SearchType
  <2>4. FilesType'
    <3>1. {checkpoint, done, byPair, saved} \subseteq [Symbols -> Results \cup {None}]
      BY <1>0 DEF FilesType
    <3>2. {checkpoint', byPair', NoResults} \subseteq [Symbols -> Results \cup {None}]
      BY <1>0, <2>1, <3>1 DEF SearchType, NoResults
    <3>. QED  BY <1>0, <2>1, <3>1, <3>2 DEF FilesType
  <2>5. RestType' /\ StandInv' /\ CountInv'
    BY <1>0, <2>1 DEF LeavePair, RestType, Stages, StandInv, CountInv, Applying
  <2>. QED  BY <1>t, <2>2, <2>3, <2>4, <2>5
<1>19. CASE EndRun
  <2>1. /\ UNCHANGED <<chart, shown, calc, todo, pair, phase, target, attempt, before, sure,
                       hung, trial,
                       fails, told, best, checkpoint, done, byPair, rejected, crashes>>
        /\ saved' \in {byPair, saved} /\ at = "idle" /\ at' = "end"
    BY <1>19 DEF EndRun, tab, apply, search
  <2>. QED
    BY <1>0, <1>t, <2>1
    DEF TabType, ApplyType, SearchType, FilesType, RestType, Stages, StandInv, CountInv,
        Applying
<1>20. CASE CallHangs
  <2>. QED
    BY <1>0, <1>t, <1>20
    DEF CallHangs, TabType, ApplyType, SearchType, FilesType, RestType, StandInv, CountInv, tab,
        apply, search, files
<1>21. CASE TrialTimeout
  <2>1. /\ TabType' /\ chart'.symbol = pair /\ hung' \in BOOLEAN
        /\ UNCHANGED <<phase, target, attempt, before, sure, todo, crashes>>
        /\ pair # None /\ at \in Applying /\ GivesUp
    BY <1>0, <1>21
    DEF TrialTimeout, TabType, StandInv, Applying, GivesUp, FailTrial, Onward, tab,
        apply, files
  <2>. QED  BY <1>2, <2>1
<1>22. CASE PairTimeout
  <2>1. /\ UNCHANGED <<chart, shown, calc, todo, phase, target, attempt, before, sure, crashes>>
        /\ pair # None /\ hung' = FALSE
    BY <1>22 DEF PairTimeout, tab, apply
  <2>2. TabType' /\ ApplyType'  BY <1>0, <2>1 DEF TabType, ApplyType
  <2>3. CASE Reject
    <3>1. SearchType'  BY <1>n, <2>3 DEF Reject, LeavePair, SearchType
    <3>2. FilesType' /\ RestType'
      BY <1>0, <2>1, <2>3 DEF Reject, LeavePair, FilesType, RestType, Stages
    <3>3. StandInv' /\ CountInv'
      BY <2>1, <2>3 DEF Reject, LeavePair, StandInv, CountInv, Applying
    <3>. QED  BY <1>t, <2>2, <3>1, <3>2, <3>3
  <2>4. CASE Publish(best)
    <3>1. SearchType' /\ FilesType' /\ RestType'
      BY <1>0, <2>1, <2>4 DEF Publish, SearchType, FilesType, RestType, Stages, files
    <3>2. StandInv' /\ CountInv'
      BY <1>0, <2>1, <2>4 DEF Publish, StandInv, CountInv, Applying
    <3>. QED  BY <1>t, <2>2, <3>1, <3>2
  <2>. QED  BY <1>22, <2>3, <2>4 DEF PairTimeout
<1>23. CASE Crash
  <2>1. /\ UNCHANGED <<chart, shown, calc, phase, target, attempt, before, sure, saved>>
        /\ crashes < MaxCrashes /\ crashes' = crashes + 1
        /\ done' \in {done, NoResults} /\ checkpoint' = done'
        /\ todo' \subseteq DOMAIN PairList /\ byPair' = NoResults
        /\ rejected' = {} /\ hung' = FALSE /\ LeavePair
    BY <1>23 DEF Crash, Pending, tab, apply
  <2>2. NoResults \in [Symbols -> Results \cup {None}]  BY DEF NoResults
  <2>3. TabType' /\ ApplyType' /\ FilesType'
    BY <1>0, <2>1, <2>2 DEF TabType, ApplyType, FilesType
  <2>4. crashes' \in 0..MaxCrashes  BY <1>0, <1>n, <2>1 DEF RestType
  <2>5. SearchType' /\ RestType'
    BY <1>n, <2>1, <2>4 DEF LeavePair, SearchType, RestType, Stages
  <2>6. StandInv' /\ CountInv'  BY <2>1 DEF LeavePair, StandInv, CountInv, Applying
  <2>. QED  BY <1>t, <2>3, <2>5, <2>6
<1>24. CASE UNCHANGED searchVars
  BY <1>0, <1>t, <1>24
  DEF searchVars, TabType, ApplyType, SearchType, FilesType, RestType, StandInv, CountInv, tab,
      apply, search, files
<1>. QED
  BY <1>1, <1>4, <1>5, <1>6, <1>7, <1>8, <1>9, <1>10, <1>11, <1>12, <1>13, <1>14, <1>15, <1>16,
     <1>17, <1>18, <1>19, <1>20, <1>21, <1>22, <1>23, <1>24
  DEF SearchNext, SearchStep, Timeout

\* Every reachable state of the tab, the search and its files is well typed: no
\* attempt, trial or failure is counted past its limit.
THEOREM SearchTypeCorrect == SearchSpec => []SearchTypeOK
<1>1. TypeInv => SearchTypeOK  BY DEF TypeInv
<1>. QED  BY TrialInit, TrialTypeStep, <1>1, PTL DEF SearchSpec
-----------------------------------------------------------------------------
(* What is read after a trial is the report of its parameters.             *)

AimedAt(c) == c = [symbol |-> pair, inputs |-> target]

\* Before the report of the trial is shown, the numbers are those of the snapshot, if
\* that could be read.
FreshInv ==
  /\ at = "dialog" \/ (at = "snapshot" /\ attempt # 1)
       => calc \in {"none", "stuck"} \/ AimedAt(chart)
  /\ at = "dialog" => before \in {None, Numbers(shown)} \/ (AimedAt(chart) /\ shown = chart)
  /\ at \in {"wait", "check"} =>
       AimedAt(chart) /\ (before \in {None, Numbers(shown)} \/ shown = chart)
  /\ at = "read" /\ phase = "trial" /\ sure => AimedAt(chart) /\ shown = chart

OwnInv == TrialIsOwn /\ (pair = None => told = {})

LEMMA FreshInit == SearchInit => FreshInv /\ OwnInv
BY DEF SearchInit, FreshInv, OwnInv, TrialIsOwn

LEMMA FreshStep ==
  ASSUME "later" \notin TrialFaults, TypeInv, FreshInv, [SearchNext]_searchVars
  PROVE  FreshInv'
<1>1. ASSUME at' \in {"idle", "load", "ask", "save", "end"} PROVE FreshInv'
  BY <1>1 DEF FreshInv
<1>2. CASE Recalculate
  <2>1. /\ UNCHANGED <<chart, pair, at, phase, target, attempt, before, sure>>
        /\ calc \in {"due", "overdue", "running"} /\ shown' \in {shown, chart}
    BY <1>2 DEF Recalculate, CalcStarts, CalcEnds, apply
  <2>2. at = "dialog" \/ (at = "snapshot" /\ attempt # 1) => AimedAt(chart)
    BY <2>1 DEF FreshInv
  <2>. QED  BY <2>1, <2>2 DEF FreshInv, AimedAt, Numbers
<1>3. ASSUME GivesUp PROVE FreshInv'
  BY <1>1, <1>3 DEF GivesUp, Reject, LeavePair
<1>4. ASSUME ApplyAgain,
             calc' \in {"none", "stuck"} \/ chart' = [symbol |-> pair, inputs |-> target]
      PROVE  FreshInv'
  <2>1. CASE Again
    <3>1. at' = "snapshot" /\ pair' = pair /\ target' = target  BY <2>1 DEF Again, Onward
    <3>. QED  BY <1>4, <3>1 DEF FreshInv, AimedAt
  <2>. QED  BY <1>3, <1>4, <2>1, RetryCases DEF TypeInv
<1>5. CASE StartPair \/ LoadFails \/ ReloadTab \/ ReadFails \/ Save \/ EndRun
           \/ TrialTimeout
           \/ PairTimeout \/ Crash
  <2>1. ReadFails => GivesUp  BY DEF ReadFails, GivesUp, FailTrial, Onward, files
  <2>2. ~ReadFails => at' \in {"idle", "load", "ask", "save", "end"}
    BY <1>5
    DEF StartPair, LoadFails, ReloadTab, Save, EndRun, TrialTimeout,
        PairTimeout, Crash, Reject,
        LeavePair, FailTrial, Publish
  <2>. QED  BY <1>1, <1>3, <2>1, <2>2
<1>6. CASE Loaded \/ Ask \/ Decide
  <2>1. at' \in {"idle", "ask"} \/ (at' = "snapshot" /\ attempt' = 1)
    BY <1>6 DEF Loaded, Ask, Decide, Apply, Reject, LeavePair
  <2>. QED  BY <1>1, <2>1 DEF FreshInv
<1>7. CASE TakeSnapshot
  <2>1. /\ UNCHANGED <<chart, shown, calc, pair, phase, target, attempt>>
        /\ at = "snapshot" /\ at' = "dialog" /\ before' \in {None, Numbers(shown)}
        /\ attempt = 1 => calc \in {"none", "stuck"}
    BY <1>7 DEF TakeSnapshot, Fingerprints, tab
  <2>2. calc \in {"none", "stuck"} \/ AimedAt(chart)  BY <2>1 DEF FreshInv
  <2>. QED  BY <2>1, <2>2 DEF FreshInv, AimedAt, Numbers
<1>8. CASE Confirm
  <2>1. /\ chart' = [symbol |-> pair, inputs |-> target] /\ UNCHANGED shown
    BY <1>8, ConfirmType DEF Confirm, Searching
  <2>2. /\ UNCHANGED <<pair, phase, target, attempt, before, sure>>
        /\ at = "dialog" /\ at' = "wait"
    BY <1>8 DEF Confirm, apply
  <2>3. before \in {None, Numbers(shown)} \/ shown = chart'  BY <2>1, <2>2 DEF FreshInv, AimedAt
  <2>. QED  BY <2>1, <2>2, <2>3 DEF FreshInv, AimedAt, Numbers
<1>9. CASE DialogFails
  <2>1. CASE UNCHANGED tab
    <3>1. calc' \in {"none", "stuck"} \/ chart' = [symbol |-> pair, inputs |-> target]
      BY <1>9, <2>1 DEF DialogFails, FreshInv, AimedAt, tab
    <3>. QED  BY <1>4, <1>9, <3>1 DEF DialogFails
  <2>2. CASE SetChart([chart EXCEPT !.inputs = target])
    BY <1>4, <1>9, <2>2, ConfirmType DEF DialogFails, Searching
  <2>. QED  BY <1>9, <2>1, <2>2 DEF DialogFails
<1>10. CASE Wait
  <2>1. /\ UNCHANGED <<chart, shown, pair, phase, target, attempt, before, sure>>
        /\ at = "wait" /\ at' = "check"
    BY <1>10 DEF Wait, apply
  <2>. QED  BY <2>1 DEF FreshInv, AimedAt, Numbers
<1>11. CASE WaitExpires
  <2>1. chart' = [symbol |-> pair, inputs |-> target]
    BY <1>11 DEF WaitExpires, FreshInv, AimedAt, tab
  <2>. QED  BY <1>4, <1>11, <2>1 DEF WaitExpires
<1>12. CASE Check
  <2>1. /\ UNCHANGED <<chart, shown, calc>> /\ at = "check"
        /\ AimedAt(chart) /\ (before \in {None, Numbers(shown)} \/ shown = chart)
    BY <1>12 DEF Check, FreshInv, tab
  <2>2. CASE ApplyAgain  BY <1>4, <2>1, <2>2 DEF AimedAt
  <2>3. ASSUME NEW now \in {None, Numbers(shown)}, IsFresh(now),
               at' = IF phase = "baseline" THEN "ask" ELSE "read",
               sure' = (None \notin {before, now}),
               UNCHANGED <<pair, phase, target>>
        PROVE  FreshInv'
    <3>1. phase = "trial" /\ sure' => shown = chart  BY <2>1, <2>3 DEF IsFresh
    <3>. QED  BY <2>1, <2>3, <3>1 DEF FreshInv, AimedAt
  <2>. QED  BY <1>12, <2>2, <2>3 DEF Check, Fingerprints
<1>13. CASE Read
  <2>1. at' \in {"ask", "save", "idle"}
    BY <1>13 DEF Read, ReadTrial, ReadReplay, Publish, Reject, LeavePair
  <2>. QED  BY <1>1, <2>1
<1>14. CASE CallHangs \/ UNCHANGED searchVars
  <2>1. UNCHANGED <<chart, shown, calc, pair, at, phase, target, attempt, before, sure>>
    BY <1>14 DEF CallHangs, searchVars, tab, apply
  <2>. QED  BY <2>1 DEF FreshInv, AimedAt, Numbers
<1>. QED
  BY <1>2, <1>5, <1>6, <1>7, <1>8, <1>9, <1>10, <1>11, <1>12, <1>13, <1>14
  DEF SearchNext, SearchStep, Timeout

\* Which steps tell the study anything.
LEMMA ToldCases ==
  ASSUME TypeInv, [SearchNext]_searchVars
  PROVE  \/ Read /\ phase = "trial" /\ pair' = pair /\ \E confirmed \in BOOLEAN : ReadTrial(confirmed)
         \/ pair' = None /\ told' = {} /\ best' = None
         \/ UNCHANGED <<pair, told>>
         \/ pair = None /\ UNCHANGED told
<1> DEFINE Forgets == pair' = None /\ told' = {} /\ best' = None
<1>1. Reject => Forgets  BY DEF Reject, LeavePair
<1>2. GivesUp => Forgets \/ UNCHANGED <<pair, told>>  BY <1>1 DEF GivesUp, Onward
<1>3. ApplyAgain => Forgets \/ UNCHANGED <<pair, told>>
  BY <1>2, RetryCases DEF Again, Onward, TypeInv
<1>4. CASE Read
  <2>1. CASE phase = "trial"
    BY <1>4, <2>1 DEF Read, ReadTrial, Confirmed
  <2>2. CASE phase # "trial"
    BY <1>1, <1>4, <2>2 DEF Read, ReadReplay, Publish
  <2>. QED  BY <2>1, <2>2
<1>5. CASE ReadFails
  BY <1>1, <1>5 DEF ReadFails, FailTrial
<1>6. CASE DialogFails \/ WaitExpires \/ Check
  BY <1>3, <1>6 DEF DialogFails, WaitExpires, Check, search
<1>7. CASE StartPair
  BY <1>7 DEF StartPair, search, TypeInv, StandInv
<1>8. CASE Save \/ Crash \/ LoadFails \/ Decide \/ PairTimeout
  BY <1>1, <1>8
  DEF Save, Crash, LoadFails, Decide, PairTimeout, LeavePair, Publish, search
<1>9. CASE Loaded \/ ReloadTab \/ Ask \/ TakeSnapshot \/ Confirm \/ Wait
           \/ EndRun \/ Recalculate
           \/ CallHangs \/ TrialTimeout \/ UNCHANGED searchVars
  BY <1>9
  DEF Loaded, ReloadTab, Ask, TakeSnapshot, Confirm, Wait, EndRun,
      Recalculate, CallHangs,
      TrialTimeout, FailTrial, searchVars, search
<1>. QED
  BY <1>4, <1>5, <1>6, <1>7, <1>8, <1>9 DEF SearchNext, SearchStep, Timeout

LEMMA OwnStep ==
  ASSUME TypeInv, FreshInv, OwnInv, [SearchNext]_searchVars
  PROVE  OwnInv'
<1>1. CASE Read /\ phase = "trial" /\ pair' = pair /\ \E confirmed \in BOOLEAN : ReadTrial(confirmed)
  <2>1. PICK confirmed \in BOOLEAN : ReadTrial(confirmed)  BY <1>1
  <2>2. pair # None /\ (sure => AimedAt(shown))
    BY <1>1 DEF Read, Searching, FreshInv, AimedAt
  <2>3. sure => Numbers(shown) = Value[pair][target]  BY <2>2 DEF AimedAt, Numbers
  <2>4. Score(confirmed) > 0 => Score(confirmed) = Numbers(shown)
    BY ScoresAreNumbers DEF TypeInv
  <2>5. told' = told \cup {[params |-> target, value |-> Numbers(shown), score |-> Score(confirmed),
                             sure |-> sure]}
    BY <2>1 DEF ReadTrial
  <2>. QED  BY <1>1, <2>2, <2>3, <2>4, <2>5 DEF OwnInv, TrialIsOwn
<1>2. CASE pair' = None /\ told' = {} /\ best' = None
  BY <1>2 DEF OwnInv, TrialIsOwn
<1>3. CASE UNCHANGED <<pair, told>>  BY <1>3 DEF OwnInv, TrialIsOwn
<1>4. CASE pair = None /\ UNCHANGED told  BY <1>4 DEF OwnInv, TrialIsOwn
<1>. QED  BY <1>1, <1>2, <1>3, <1>4, ToldCases

\* Unless a recalculation is later than the next trial, every score the study
\* learns from is that of the parameters it is told for, if the report could be read
\* before and after they were applied, whatever else hangs, fails, runs out of time or
\* crashes.
THEOREM ScoresAreOwn ==
  ASSUME "later" \notin TrialFaults
  PROVE  SearchSpec => []TrialIsOwn
<1>1. SearchInit => TypeInv /\ FreshInv /\ OwnInv  BY TrialInit, FreshInit
<1>2. TypeInv /\ FreshInv /\ OwnInv /\ [SearchNext]_searchVars => (TypeInv /\ FreshInv /\ OwnInv)'
  BY TrialTypeStep, FreshStep, OwnStep
<1>3. OwnInv => TrialIsOwn  BY DEF OwnInv
<1>. QED  BY <1>1, <1>2, <1>3, PTL DEF SearchSpec

-----------------------------------------------------------------------------
(* What is published is the best the study was told of.                    *)

\* A result for the best trial told: none if none was worth a score.
Tops(r) == \E b \in told : /\ b.params = r.params
                           /\ b.score > 0
                           /\ \A o \in told : o.score <= b.score

BestInv ==
  /\ at # "save" /\ best = None => \A r \in told : r.score = 0
  /\ at # "save" /\ best # None =>
       \E b \in told : /\ b.params = best.params /\ b.score = best.value
                       /\ b.score > 0
                       /\ \A o \in told : o.score <= b.score
  /\ phase = "replay" /\ at \in Applying => best # None /\ target = best.params
  /\ at = "save" => Tops(best)

LEMMA BestInit == SearchInit => BestInv
BY DEF SearchInit, BestInv, Applying

LEMMA BestStep ==
  ASSUME TypeInv, BestInv, [SearchNext]_searchVars
  PROVE  BestInv'
<1>0. told \subseteq Scored /\ best \in Results \cup {None} /\ None \notin Results
  BY TypeParts, TrialsAssumption DEF TypeInv, SearchType
<1>1. ASSUME LeavePair PROVE BestInv'
  BY <1>1 DEF LeavePair, BestInv, Applying
<1>2. ASSUME at # "save", at' # "save", UNCHANGED <<told, best>>,
             phase' = "replay" /\ at' \in Applying => best # None /\ target' = best.params
      PROVE  BestInv'
  BY <1>2 DEF BestInv
<1>3. ASSUME at \in Applying, GivesUp, UNCHANGED <<phase, target>> PROVE BestInv'
  <2>1. CASE Reject  BY <1>1, <2>1 DEF Reject
  <2>2. CASE ~Reject
    BY <1>2, <1>3, <2>2 DEF GivesUp, Onward, Applying
  <2>. QED  BY <2>1, <2>2
<1>4. ASSUME at \in Applying, ApplyAgain PROVE BestInv'
  <2>1. CASE Again
    <3>1. phase = "replay" => best # None /\ target = best.params  BY <1>4 DEF BestInv
    <3>. QED  BY <1>2, <1>4, <2>1, <3>1 DEF Again, Onward, Applying
  <2>2. CASE GivesUp /\ UNCHANGED <<phase, target, attempt, before, sure>>
    BY <1>3, <1>4, <2>2
  <2>. QED  BY <1>4, <2>1, <2>2, RetryCases DEF TypeInv
<1>5. CASE Recalculate \/ CallHangs \/ UNCHANGED searchVars
  BY <1>5 DEF Recalculate, CallHangs, searchVars, apply, search, BestInv, Tops
<1>6. CASE StartPair \/ Loaded \/ ReloadTab \/ Ask \/ EndRun \/ TrialTimeout
  <2>1. /\ at # "save" /\ at' # "save" /\ UNCHANGED <<told, best>>
        /\ ~(phase' = "replay" /\ at' \in Applying)
    BY <1>6
    DEF StartPair, Loaded, Apply, ReloadTab, Ask, EndRun, TrialTimeout,
        FailTrial, Applying,
        apply, search
  <2>. QED  BY <1>2, <2>1
<1>7. CASE TakeSnapshot \/ Confirm \/ Wait
  <2>1. /\ at \in Applying /\ at' \in Applying
        /\ UNCHANGED <<told, best, phase, target>>
    BY <1>7 DEF TakeSnapshot, Confirm, Wait, Applying, apply, search
  <2>. QED  BY <1>2, <2>1 DEF BestInv, Applying
<1>8. CASE DialogFails \/ WaitExpires
  BY <1>4, <1>8 DEF DialogFails, WaitExpires, Applying
<1>9. CASE Check
  <2>1. CASE ApplyAgain  BY <1>4, <1>9, <2>1 DEF Check, Applying
  <2>2. CASE at' \in {"ask", "read"} /\ UNCHANGED <<phase, target, told, best>>
    <3>1. at = "check"  BY <1>9 DEF Check
    <3>. QED  BY <1>2, <2>2, <3>1 DEF BestInv, Applying
  <2>. QED  BY <1>9, <2>1, <2>2 DEF Check, apply, search
<1>10. CASE ReadFails
  BY <1>3, <1>10 DEF ReadFails, GivesUp, FailTrial, Onward, Applying, apply, files
<1>11. CASE LoadFails \/ Decide
  <2>1. CASE Reject  BY <1>1, <2>1 DEF Reject
  <2>2. CASE ~Reject
    BY <1>2, <1>11, <2>2 DEF LoadFails, Decide, Apply, Applying, search
  <2>. QED  BY <2>1, <2>2
<1>12. CASE Save \/ Crash
  BY <1>1, <1>12 DEF Save, Crash
<1>13. CASE PairTimeout
  <2>1. CASE Reject  BY <1>1, <2>1 DEF Reject
  <2>2. CASE best # None /\ Publish(best)
    <3>1. Tops(best)  BY <1>13, <2>2 DEF PairTimeout, BestInv, Tops
    <3>2. at' = "save" /\ UNCHANGED <<told, best>>  BY <2>2 DEF Publish
    <3>. QED  BY <3>1, <3>2 DEF BestInv, Tops, Applying
  <2>. QED  BY <1>13, <2>1, <2>2 DEF PairTimeout
<1>14. CASE Read
  <2>1. PICK confirmed \in BOOLEAN :
          IF phase = "trial" THEN ReadTrial(confirmed) ELSE ReadReplay(confirmed)
    BY <1>14 DEF Read, Confirmed
  <2>2. at = "read" /\ UNCHANGED <<phase, target>>  BY <1>14 DEF Read, apply
  <2>3. CASE phase = "trial" /\ ReadTrial(confirmed)
    <3> DEFINE x == [params |-> target, value |-> Numbers(shown), score |-> Score(confirmed),
                     sure |-> sure]
               r == [params |-> target, value |-> Score(confirmed), replayed |-> FALSE]
    <3>1. Score(confirmed) \in Nat /\ Numbers(shown) \in Nat
      BY ScoresAreNumbers DEF TypeInv
    <3>2. /\ told' = told \cup {x} /\ at' = "ask"
          /\ best' = IF IsBetter(Score(confirmed)) THEN r ELSE best
      BY <2>3 DEF ReadTrial
    <3>3. target \in Settings  BY <2>2, <2>3 DEF TypeInv, CountInv, Applying
    <3>4. r \in Results  BY <3>1, <3>3 DEF Results
    <3>5. x.score = Score(confirmed) /\ x.params = target  OBVIOUS
    <3>6. \A o \in told : o.score \in Nat  BY <1>0 DEF Scored
    <3>7. best # None => best.value \in Nat  BY <1>0 DEF Results
    <3>8. CASE IsBetter(Score(confirmed))
      <4>1. best' # None /\ best'.params = target /\ best'.value = Score(confirmed)
        BY <1>0, <3>2, <3>4, <3>8
      <4>2. Score(confirmed) > 0 /\ \A o \in told : o.score <= Score(confirmed)
        <5>1. CASE best = None
          BY <2>2, <3>1, <3>6, <3>8, <5>1 DEF IsBetter, BestInv
        <5>2. CASE best # None
          <6>1. PICK b \in told : /\ b.score = best.value /\ b.score > 0
                                  /\ \A o \in told : o.score <= b.score
            BY <2>2, <5>2 DEF BestInv
          <6>2. Score(confirmed) > best.value  BY <3>8, <5>2 DEF IsBetter
          <6>3. \A o \in told : o.score <= Score(confirmed)
            BY <3>1, <3>6, <3>7, <5>2, <6>1, <6>2
          <6>. QED  BY <3>1, <3>7, <5>2, <6>1, <6>2, <6>3
        <5>. QED  BY <5>1, <5>2
      <4>3. \A o \in told' : o.score <= Score(confirmed)
        BY <3>1, <3>2, <3>5, <4>2
      <4>4. x \in told'  BY <3>2
      <4> HIDE DEF x, r
      <4>5. \E b \in told' : /\ b.params = best'.params /\ b.score = best'.value
                             /\ b.score > 0 /\ \A o \in told' : o.score <= b.score
        BY <3>5, <4>1, <4>2, <4>3, <4>4
      <4>. QED  BY <2>3, <2>2, <3>2, <4>1, <4>5 DEF BestInv
    <3>9. CASE ~IsBetter(Score(confirmed))
      <4>1. best' = best  BY <3>2, <3>9
      <4>2. CASE best = None
        <5>1. Score(confirmed) = 0  BY <3>1, <3>9, <4>2 DEF IsBetter
        <5> HIDE DEF x, r
        <5>. QED  BY <2>2, <2>3, <3>2, <3>5, <4>1, <4>2, <5>1 DEF BestInv
      <4>3. CASE best # None
        <5>1. PICK b \in told : /\ b.params = best.params /\ b.score = best.value
                                /\ b.score > 0 /\ \A o \in told : o.score <= b.score
          BY <2>2, <4>3 DEF BestInv
        <5>2. Score(confirmed) <= best.value  BY <3>1, <3>7, <3>9, <4>3 DEF IsBetter
        <5> HIDE DEF x, r
        <5>3. b \in told' /\ \A o \in told' : o.score <= b.score
          BY <3>2, <3>5, <5>1, <5>2
        <5>. QED  BY <2>2, <2>3, <3>2, <4>1, <4>3, <5>1, <5>3 DEF BestInv
      <4>. QED  BY <4>2, <4>3
    <3>. QED  BY <3>8, <3>9
  <2>4. CASE phase # "trial" /\ ReadReplay(confirmed)
    <3>1. CASE Reject  BY <1>1, <3>1 DEF Reject
    <3>2. CASE Publish([params |-> target, value |-> Score(confirmed), replayed |-> TRUE])
      <4>1. phase = "replay"  BY <2>2, <2>4 DEF TypeInv, StandInv
      <4>2. best # None /\ target = best.params  BY <2>2, <4>1 DEF BestInv, Applying
      <4>3. Tops(best)  BY <2>2, <4>2 DEF BestInv, Tops
      <4>4. best'.params = best.params /\ UNCHANGED told /\ at' = "save"
        BY <3>2, <4>2 DEF Publish
      <4>. QED  BY <4>3, <4>4 DEF BestInv, Tops, Applying
    <3>. QED  BY <2>4, <3>1, <3>2 DEF ReadReplay
  <2>. QED  BY <2>1, <2>3, <2>4
<1>. QED
  BY <1>5, <1>6, <1>7, <1>8, <1>9, <1>10, <1>11, <1>12, <1>13, <1>14
  DEF SearchNext, SearchStep, Timeout

\* However a pair comes to its end, what is published for it are the parameters of
\* the best trial the study was told of, with every fault.
THEOREM BestTrialIsPublished == SearchSpec => []BestIsPublished
<1>1. SearchInit => TypeInv /\ BestInv  BY TrialInit, BestInit
<1>2. TypeInv /\ BestInv /\ [SearchNext]_searchVars => (TypeInv /\ BestInv)'
  BY TrialTypeStep, BestStep
<1>3. BestInv => BestIsPublished  BY DEF BestInv, BestIsPublished, Tops
<1>. QED  BY <1>1, <1>2, <1>3, PTL DEF SearchSpec

-----------------------------------------------------------------------------
(* Finished pairs.                                                         *)

\* A pair that is at hand, or yet to come, is not finished, and comes once.
DoneInv ==
  /\ \A i \in todo : checkpoint[PairList[i]] = None
  /\ pair # None => checkpoint[pair] = None /\ \A i \in todo : PairList[i] # pair

PairsDiffer == \A i, j \in DOMAIN PairList : PairList[i] = PairList[j] => i = j

LEMMA DoneInit == SearchInit => DoneInv
BY PairTyped DEF SearchInit, DoneInv, NoResults

LEMMA DoneCases ==
  ASSUME TypeInv, [SearchNext]_searchVars
  PROVE  \/ StartPair \/ Save \/ Crash
         \/ UNCHANGED <<checkpoint, done, todo>> /\ pair' \in {pair, None}
<1> DEFINE Stays == UNCHANGED <<checkpoint, done>> /\ pair' \in {pair, None}
<1>1. Reject => Stays  BY DEF Reject, LeavePair
<1>2. GivesUp => Stays  BY <1>1 DEF GivesUp, Onward
<1>3. ApplyAgain => Stays  BY <1>2, RetryCases DEF Again, Onward, TypeInv
<1>4. CASE Loaded \/ ReloadTab \/ Ask \/ TakeSnapshot \/ Confirm \/ Wait
           \/ EndRun \/ Recalculate
           \/ CallHangs \/ TrialTimeout \/ UNCHANGED searchVars
  BY <1>4
  DEF Loaded, ReloadTab, Ask, TakeSnapshot, Confirm, Wait, EndRun,
      Recalculate, CallHangs,
      TrialTimeout, FailTrial, searchVars, search, files
<1>5. CASE DialogFails \/ WaitExpires \/ Check
  BY <1>3, <1>5 DEF DialogFails, WaitExpires, Check, files
<1>6. CASE ReadFails
  BY <1>1, <1>6 DEF ReadFails, FailTrial, files
<1>7. CASE LoadFails \/ Decide \/ PairTimeout
  BY <1>1, <1>7 DEF LoadFails, Decide, PairTimeout, Publish, files
<1>8. CASE Read
  BY <1>1, <1>8 DEF Read, ReadTrial, ReadReplay, Publish, files
<1>. QED  BY <1>4, <1>5, <1>6, <1>7, <1>8 DEF SearchNext, SearchStep, Timeout

LEMMA DoneStep ==
  ASSUME PairsDiffer, TypeInv, DoneInv, [SearchNext]_searchVars
  PROVE  DoneInv'
<1>0. checkpoint \in [Symbols -> Results \cup {None}] /\ todo \subseteq DOMAIN PairList
  BY TypeParts DEF TypeInv, FilesType, RestType
<1>1. CASE StartPair
  <2>1. PICK i \in todo : todo' = todo \ {i} /\ pair' = PairList[i]  BY <1>1 DEF StartPair
  <2>2. UNCHANGED checkpoint  BY <1>1 DEF StartPair, files
  <2>3. \A j \in todo' : PairList[j] # PairList[i]  BY <1>0, <2>1 DEF PairsDiffer
  <2>. QED  BY <2>1, <2>2, <2>3 DEF DoneInv
<1>2. CASE Save
  <2>1. /\ pair # None /\ pair' = None /\ todo' = todo
        /\ checkpoint' = [checkpoint EXCEPT ![pair] = best]
    BY <1>2 DEF Save, Searching, LeavePair
  <2>2. \A i \in todo : PairList[i] # pair /\ PairList[i] \in Symbols
    BY <1>0, <2>1, PairTyped DEF DoneInv
  <2>. QED  BY <1>0, <2>1, <2>2 DEF DoneInv
<1>3. CASE Crash
  <2>1. checkpoint' = done' /\ pair' = None /\ todo' = Pending(done')
    BY <1>3 DEF Crash, LeavePair
  <2>. QED  BY <2>1 DEF DoneInv, Pending
<1>4. CASE UNCHANGED <<checkpoint, todo>> /\ pair' \in {pair, None}
  BY <1>4 DEF DoneInv
<1>. QED  BY <1>1, <1>2, <1>3, <1>4, DoneCases

\* If writes do not fail, the file is what the process knows.
FileInv == done = checkpoint

LEMMA KeptStep ==
  ASSUME TrialFaults \cap {"torn", "full"} = {}, TypeInv, DoneInv, FileInv,
         [SearchNext]_searchVars
  PROVE  FileInv' /\ \A p \in Symbols : done[p] # None => done'[p] = done[p]
<1>0. checkpoint \in [Symbols -> Results \cup {None}]
  BY TypeParts DEF TypeInv, FilesType
<1>1. CASE Save
  <2>1. /\ pair # None
        /\ checkpoint' = [checkpoint EXCEPT ![pair] = best]
        /\ done' = checkpoint'
    BY <1>1 DEF Save, Searching, Written
  <2>2. \A p \in Symbols \ {pair} : done'[p] = done[p]  BY <1>0, <2>1 DEF FileInv
  <2>. QED  BY <2>1, <2>2 DEF DoneInv, FileInv
<1>2. CASE Crash
  <2>1. checkpoint' = done' /\ done' = done  BY <1>2 DEF Crash
  <2>. QED  BY <2>1 DEF FileInv
<1>3. CASE UNCHANGED <<checkpoint, done>>
  BY <1>3 DEF FileInv
<1>4. StartPair => UNCHANGED <<checkpoint, done>>  BY DEF StartPair, files
<1>. QED  BY <1>1, <1>2, <1>3, <1>4, DoneCases

\* If no pair is listed twice and no write of checkpoint.json fails or is cut off by a
\* kill, the result of a finished pair stays what it is in that file, through any
\* number of crashes and restarts.  TrialsLost shows that it does not if one fails.
THEOREM FinishedPairsStay ==
  ASSUME TrialFaults \cap {"torn", "full"} = {}, PairsDiffer
  PROVE  SearchSpec => DoneStays
<1> DEFINE Inv == TypeInv /\ DoneInv /\ FileInv
<1>1. SearchInit => Inv  BY TrialInit, DoneInit DEF SearchInit, FileInv
<1>2. Inv /\ [SearchNext]_searchVars => Inv'
  BY TrialTypeStep, DoneStep, KeptStep
<1>3. Inv /\ [SearchNext]_searchVars
        => [\A p \in Symbols : done[p] # None => done'[p] = done[p]]_searchVars
  BY KeptStep
<1> HIDE DEF Inv
<1>. QED  BY <1>1, <1>2, <1>3, PTL DEF SearchSpec, DoneStays
-----------------------------------------------------------------------------
(* The search as seen by the run that started it: PairsInTurn.             *)

\* What is about to be saved is a result.
SaveInv == at = "save" => best # None

\* No pair is left over: it is at hand, yet to come, finished or given up.
Accounted ==
  /\ \A p \in Symbols : \/ pair = p \/ checkpoint[p] # None \/ p \in rejected
                        \/ \E i \in todo : PairList[i] = p
  /\ at = "end" => todo = {}

\* Every way out of a step of the search.
LEMMA TurnCases ==
  ASSUME TypeInv, TypeInv', [SearchNext]_searchVars
  PROVE  \/ StartPair \/ Save \/ Crash \/ EndRun
         \/ pair # None /\ Reject /\ UNCHANGED todo
         \/ /\ UNCHANGED <<checkpoint, done, todo, pair, rejected>>
            /\ at = "end" <=> at' = "end"
<1> DEFINE Gone == Reject /\ UNCHANGED todo
           Stays == UNCHANGED <<checkpoint, done, todo, pair, rejected>>
<1>1. GivesUp => Reject \/ Stays \/ UNCHANGED <<checkpoint, done, pair, rejected>>
  BY DEF GivesUp, Onward
<1>2. ApplyAgain => Reject \/ UNCHANGED <<checkpoint, done, pair, rejected>>
  BY <1>1, RetryCases DEF Again, Onward, TypeInv
<1>3. pair # None /\ pair' # None => at # "end" /\ at' # "end"
  BY DEF TypeInv, StandInv
<1>4. CASE Recalculate \/ CallHangs \/ UNCHANGED searchVars
  BY <1>4 DEF Recalculate, CallHangs, searchVars, search, files
<1>5. CASE Loaded \/ ReloadTab \/ Ask \/ TakeSnapshot \/ Confirm \/ Wait \/ TrialTimeout
  <2>1. pair # None /\ Stays
    BY <1>5 DEF Loaded, ReloadTab, Ask, TakeSnapshot, Confirm, Wait, TrialTimeout,
                Searching, FailTrial, search, files
  <2> QED  BY <1>3, <2>1
<1>6. CASE DialogFails \/ WaitExpires \/ Check
  <2>1. pair # None /\ (Gone \/ Stays)
    BY <1>2, <1>6 DEF DialogFails, WaitExpires, Check, Searching, files
  <2> QED  BY <1>3, <2>1
<1>7. CASE ReadFails
  <2>1. pair # None /\ (Gone \/ Stays)
    BY <1>7 DEF ReadFails, FailTrial, Searching, files
  <2> QED  BY <1>3, <2>1
<1>8. CASE LoadFails \/ Decide \/ PairTimeout
  <2>1. pair # None /\ (Gone \/ Stays)
    BY <1>8 DEF LoadFails, Decide, PairTimeout, Searching, Publish, files
  <2> QED  BY <1>3, <2>1
<1>9. CASE Read
  <2>1. pair # None /\ (Gone \/ Stays)
    BY <1>9 DEF Read, Searching, ReadTrial, ReadReplay, Publish, files
  <2> QED  BY <1>3, <2>1
<1> QED  BY <1>4, <1>5, <1>6, <1>7, <1>8, <1>9 DEF SearchNext, SearchStep, Timeout

LEMMA SaveStep ==
  ASSUME TypeInv, SaveInv, [SearchNext]_searchVars
  PROVE  SaveInv'
<1>1. at' # "save" \/ UNCHANGED <<at, best>> \/ best' # None
  <2>1. Reject => at' # "save"  BY DEF Reject, LeavePair
  <2>2. GivesUp => at' # "save"  BY <2>1 DEF GivesUp
  <2>3. ApplyAgain => at' # "save"  BY <2>2, RetryCases DEF Again, TypeInv
  <2>4. ReadFails => at' # "save"  BY <2>1 DEF ReadFails, FailTrial
  <2>5. CASE Recalculate \/ CallHangs \/ UNCHANGED searchVars
    BY <2>5 DEF Recalculate, CallHangs, searchVars, search
  <2>6. CASE StartPair \/ Loaded \/ ReloadTab \/ Ask \/ TakeSnapshot \/ Confirm \/ Wait
             \/ TrialTimeout \/ Save \/ EndRun \/ Crash
    BY <2>6 DEF StartPair, Loaded, Apply, ReloadTab, Ask, TakeSnapshot, Confirm, Wait,
                TrialTimeout, FailTrial, Save, EndRun, Crash, LeavePair
  <2>7. CASE DialogFails \/ WaitExpires \/ Check \/ ReadFails
    BY <2>3, <2>4, <2>7 DEF DialogFails, WaitExpires, Check
  <2>8. CASE LoadFails \/ Decide
    BY <2>1, <2>8 DEF LoadFails, Decide, Apply
  <2>9. CASE PairTimeout
    BY <2>1, <2>9 DEF PairTimeout, Publish
  <2>10. CASE Read
    <3>1. PICK confirmed \in Confirmed :
            IF phase = "trial" THEN ReadTrial(confirmed) ELSE ReadReplay(confirmed)
      BY <2>10 DEF Read
    <3>2. ReadTrial(confirmed) => at' # "save"  BY DEF ReadTrial
    <3>3. ASSUME ReadReplay(confirmed), at' = "save" PROVE best' # None
      <4>1. Score(confirmed) \in Nat
        BY ScoresAreNumbers DEF TypeInv, Confirmed
      <4>2. target \in Settings
        BY <2>10, <3>1, <3>2, <3>3 DEF Read, TypeInv, CountInv, StandInv, Applying
      <4>3. [params |-> target, value |-> Score(confirmed), replayed |-> TRUE] \in Results
        BY <4>1, <4>2 DEF Results
      <4> QED  BY <2>1, <3>3, <4>3, TrialsAssumption DEF ReadReplay, Publish
    <3> QED  BY <3>1, <3>2, <3>3
  <2> QED  BY <2>5, <2>6, <2>7, <2>8, <2>9, <2>10 DEF SearchNext, SearchStep, Timeout
<1> QED  BY <1>1 DEF SaveInv

LEMMA AccountedInit == SearchInit => Accounted
BY DEF SearchInit, Accounted, Symbols, Range

LEMMA AccountedStep ==
  ASSUME TypeInv, TypeInv', SaveInv, Accounted, [SearchNext]_searchVars
  PROVE  Accounted'
<1>0. /\ \A p \in Symbols : \/ pair = p \/ checkpoint[p] # None \/ p \in rejected
                            \/ \E i \in todo : PairList[i] = p
      /\ at = "end" => todo = {} /\ pair = None
  BY DEF Accounted, TypeInv, StandInv
<1>1. CASE StartPair
  <2>1. PICK i \in todo : todo' = todo \ {i} /\ pair' = PairList[i]  BY <1>1 DEF StartPair
  <2>2. at = "idle" /\ at' = "load" /\ UNCHANGED <<checkpoint, done, rejected>>
    BY <1>1 DEF StartPair, files
  <2>3. pair = None  BY <2>2 DEF TypeInv, StandInv
  <2>4. \A p \in Symbols : p # None  BY TrialsAssumption
  <2> QED  BY <1>0, <2>1, <2>2, <2>3, <2>4 DEF Accounted
<1>2. CASE Save
  <2>1. /\ at = "save" /\ pair # None /\ UNCHANGED <<todo, rejected>> /\ at' = "idle"
        /\ checkpoint' = [checkpoint EXCEPT ![pair] = best]
    BY <1>2 DEF Save, Searching, LeavePair
  <2>2. checkpoint \in [Symbols -> Results \cup {None}] /\ pair \in Symbols /\ best # None
    BY <2>1, TypeParts DEF TypeInv, FilesType, RestType, SaveInv
  <2> QED  BY <1>0, <2>1, <2>2 DEF Accounted
<1>3. CASE Crash
  <2>1. checkpoint' = done' /\ todo' = Pending(done') /\ at' = "idle"  BY <1>3 DEF Crash, LeavePair
  <2>2. \A p \in Symbols : \E i \in DOMAIN PairList : PairList[i] = p
    BY DEF Symbols, Range
  <2> QED  BY <2>1, <2>2 DEF Accounted, Pending
<1>4. CASE EndRun
  <2>1. todo = {} /\ UNCHANGED <<todo, pair, checkpoint, done, rejected>>  BY <1>4 DEF EndRun,
                                 search
  <2> QED  BY <1>0, <2>1 DEF Accounted
<1>5. CASE pair # None /\ Reject /\ UNCHANGED todo
  BY <1>0, <1>5 DEF Reject, LeavePair, Accounted
<1>6. CASE UNCHANGED <<checkpoint, done, todo, pair, rejected>> /\ (at = "end" <=> at' = "end")
  BY <1>0, <1>6 DEF Accounted
<1> QED  BY <1>1, <1>2, <1>3, <1>4, <1>5, <1>6, TurnCases

\* The run of a process ends only when it has a result of each of its pairs or has
\* given it up, with every fault: time limits, hanging calls, crashes, a checkpoint
\* that could not be written or is torn, and lists that name a pair twice.  The file
\* may have fewer results by then (FinishedPairsStay).
THEOREM EndedRunsAccountForAll ==
  SearchSpec => [](at = "end" => \A p \in Symbols : checkpoint[p] # None \/ p \in rejected)
<1>1. SearchInit => TypeInv /\ SaveInv /\ Accounted
  BY TrialInit, AccountedInit DEF SearchInit, SaveInv
<1>2. TypeInv /\ SaveInv /\ Accounted /\ [SearchNext]_searchVars
      => (TypeInv /\ SaveInv /\ Accounted)'
  BY TrialTypeStep, SaveStep, AccountedStep
<1>3. TypeInv /\ Accounted
      => (at = "end" => \A p \in Symbols : checkpoint[p] # None \/ p \in rejected)
  <2>1. \A p \in Symbols : p # None  BY TrialsAssumption
  <2> QED  BY <2>1 DEF TypeInv, StandInv, Accounted
<1> QED  BY <1>1, <1>2, <1>3, PTL DEF SearchSpec

\* The step of PairsInTurn that a step of the search is.
LEMMA TurnStep ==
  ASSUME PairsDiffer, TypeInv, TypeInv', DoneInv, SaveInv, Accounted,
         [SearchNext]_searchVars
  PROVE  [Turns!Next]_(Turns!pvars)
<1> DEFINE Waiting == {PairList[i] : i \in todo}
           Hand == IF pair = None THEN {} ELSE {pair}
           State == IF at = "end" THEN "over" ELSE "open"
<1>0. /\ checkpoint \in [Symbols -> Results \cup {None}] /\ todo \subseteq DOMAIN PairList
      /\ pair \in Symbols \cup {None} /\ None \notin Symbols
      /\ pair = None <=> at \in {"idle", "end"}
  BY TypeParts, TrialsAssumption DEF TypeInv, FilesType, RestType, StandInv
<1>1. CASE StartPair
  <2>1. PICK i \in todo : todo' = todo \ {i} /\ pair' = PairList[i]  BY <1>1 DEF StartPair
  <2>2. at = "idle" /\ at' = "load" /\ UNCHANGED <<checkpoint, done, rejected>>
    BY <1>1 DEF StartPair, files
  <2>3. PairList[i] \in Symbols /\ PairList[i] \in Waiting  BY <1>0, <2>1, PairTyped
  <2>4. Waiting' = Waiting \ {PairList[i]}
    <3>1. \A j \in todo : PairList[j] = PairList[i] => j = i  BY <1>0 DEF PairsDiffer
    <3> QED  BY <2>1, <3>1
  <2>5. State = "open" /\ State' = "open" /\ Hand = {} /\ Hand' = {PairList[i]}
    BY <1>0, <2>1, <2>2, <2>3
  <2>6. Turns!Take  BY <2>2, <2>3, <2>4, <2>5 DEF Turns!Take
  <2> QED  BY <2>6 DEF Turns!Next
<1>2. CASE Save
  <2>1. /\ at = "save" /\ pair # None /\ UNCHANGED <<todo, rejected>> /\ at' = "idle"
        /\ pair' = None
        /\ checkpoint' = [checkpoint EXCEPT ![pair] = best] /\ done' \in Written(checkpoint')
    BY <1>2 DEF Save, Searching, LeavePair
  <2>2. pair \in Symbols /\ best \in Results /\ checkpoint[pair] = None
    BY <1>0, <2>1, TypeParts DEF TypeInv, SearchType, SaveInv, DoneInv
  <2>3. /\ checkpoint'[pair] \in Results
        /\ checkpoint' = [checkpoint EXCEPT ![pair] = checkpoint'[pair]]
    BY <1>0, <2>1, <2>2
  <2>4. Hand = {pair} /\ Hand' = {} /\ Waiting' = Waiting /\ State' = State
    BY <2>1
  <2>5. done' \in {checkpoint'} \cup Turns!OrLess({done})
    BY <2>1 DEF Written, Turns!OrLess, Turns!Nothing, NoResults
  <2>6. Turns!Keep  BY <2>1, <2>2, <2>3, <2>4, <2>5 DEF Turns!Keep
  <2> QED  BY <2>6 DEF Turns!Next
<1>3. CASE Crash
  <2>1. /\ pair # None /\ pair' = None /\ at' = "idle" /\ rejected' = {}
        /\ checkpoint' = done' /\ todo' = Pending(checkpoint')
        /\ done' \in {done} \cup IF "torn" \in TrialFaults THEN {NoResults} ELSE {}
    BY <1>3 DEF Crash, LeavePair
  <2>2. Waiting' = {p \in Symbols : checkpoint'[p] = None}
    <3>1. \A p \in Symbols : \E i \in DOMAIN PairList : PairList[i] = p
      BY DEF Symbols, Range
    <3>2. todo' = {i \in DOMAIN PairList : checkpoint'[PairList[i]] = None}
      BY <2>1 DEF Pending
    <3>3. ASSUME NEW p PROVE p \in Waiting' <=> p \in {q \in Symbols : checkpoint'[q] = None}
      BY <3>1, <3>2, PairTyped
    <3> QED  BY <3>3
  <2>3. Hand # {} /\ Hand' = {} /\ State' = State  BY <1>0, <2>1
  <2>4. done' \in {done} \cup Turns!OrLess({})
    BY <2>1 DEF Turns!OrLess, Turns!Nothing, NoResults
  <2>5. Turns!Restart  BY <2>1, <2>2, <2>3, <2>4 DEF Turns!Restart
  <2> QED  BY <2>5 DEF Turns!Next
<1>4. CASE EndRun
  <2>1. /\ at = "idle" /\ at' = "end" /\ todo = {}
        /\ UNCHANGED <<todo, pair, checkpoint, done, rejected>>
    BY <1>4 DEF EndRun, search
  <2>2. \A p \in Symbols : checkpoint[p] # None \/ p \in rejected
    BY <1>0, <2>1 DEF Accounted
  <2>3. Hand = {} /\ Hand' = Hand /\ State = "open" /\ State' = "over" /\ Waiting' = Waiting
    BY <1>0, <2>1
  <2>4. Turns!End  BY <2>1, <2>2, <2>3 DEF Turns!End
  <2> QED  BY <2>4 DEF Turns!Next
<1>5. CASE pair # None /\ Reject /\ UNCHANGED todo
  <2>1. /\ pair' = None /\ at' = "idle" /\ rejected' = rejected \cup {pair}
        /\ UNCHANGED <<todo, checkpoint, done>>
    BY <1>5 DEF Reject, LeavePair
  <2>2. Hand = {pair} /\ Hand' = {} /\ State' = State /\ Waiting' = Waiting
    BY <1>0, <1>5, <2>1
  <2>3. Turns!Refuse  BY <2>1, <2>2 DEF Turns!Refuse
  <2> QED  BY <2>3 DEF Turns!Next
<1>6. CASE UNCHANGED <<checkpoint, done, todo, pair, rejected>> /\ (at = "end" <=> at' = "end")
  BY <1>6 DEF Turns!pvars
<1> QED  BY <1>1, <1>2, <1>3, <1>4, <1>5, <1>6, TurnCases

\* If no pair is listed twice, the search of BacktestTrials is a search of pairs in
\* turn, with every fault: a pair is at hand by itself, gets one result or is given
\* up, a restart goes on with exactly the pairs whose result it does not find in
\* checkpoint.json, and the run ends when none is left over.
THEOREM SearchGoesInTurn ==
  ASSUME PairsDiffer
  PROVE  SearchSpec => ImplementsPairsInTurn
<1>1. SearchInit => Turns!Init
  <2>1. {PairList[i] : i \in DOMAIN PairList} = Symbols  BY DEF Symbols, Range
  <2> QED  BY <2>1 DEF SearchInit, Turns!Init, Turns!Nothing, NoResults
<1>2. SearchInit => TypeInv /\ SaveInv /\ DoneInv /\ Accounted
  BY TrialInit, DoneInit, AccountedInit DEF SearchInit, SaveInv
<1>3. TypeInv /\ SaveInv /\ DoneInv /\ Accounted /\ [SearchNext]_searchVars
      => (TypeInv /\ SaveInv /\ DoneInv /\ Accounted)'
  BY TrialTypeStep, SaveStep, DoneStep, AccountedStep
<1>4. TypeInv /\ TypeInv' /\ SaveInv /\ DoneInv /\ Accounted /\ [SearchNext]_searchVars
      => [Turns!Next]_(Turns!pvars)
  BY TurnStep
<1> QED  BY <1>1, <1>2, <1>3, <1>4, PTL DEF SearchSpec, ImplementsPairsInTurn, Turns!Spec
=============================================================================
