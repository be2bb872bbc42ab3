---------------------------- MODULE PairWorkers ----------------------------
(***************************************************************************)
(* One execution of the parallel optimizer: coroutines in one process take *)
(* currency pairs off a queue, try each up to 1 + MAX_PAIR_RETRIES times,  *)
(* print an event for what became of it and write all results to a file,   *)
(* from which a later execution of the same run resumes.                   *)
(* A coroutine gives way only while it optimizes and while it waits for a  *)
(* retry; what lies between two such points is one action.  A pair stands  *)
(* for a symbol and, in multi_broker_validate, a broker.                   *)
(* Source: scripts/optimizer/parallel_runner.py.                           *)
(***************************************************************************)
EXTENDS Naturals, FiniteSets

CONSTANTS
  Pairs,
  Times,          \* Times[p]: how often the list of the run names p
  Workers,
  MaxRetries,     \* MAX_PAIR_RETRIES
  MaxExecutions,  \* bound: times the process is started
  Faults

FaultKinds == {"disk_full",   \* neither the results nor the runtime state can be written
               "torn_write"}  \* the process is killed while it writes the results

ASSUME PairAssumption ==
  /\ Times \in [Pairs -> Nat \ {0}]
  /\ MaxRetries \in Nat
  /\ MaxExecutions \in Nat
  /\ Faults \subseteq FaultKinds

VARIABLES
  proc,     \* the process
  results,  \* its dictionary: the status of each pair
  disk,     \* results_file, of which torn says that it is not JSON
  queue,    \* pair_queue: queue[p] tells how often p is in it
  w,        \* w[i]: what coroutine i is at
  said,     \* the last word of this execution on each pair: its event
  runs      \* executions so far

vars == <<proc, results, disk, queue, w, said, runs>>

Outcomes == {"completed", "failed", "skipped"}
Statuses == Outcomes \cup {"none"}

Nothing == [p \in Pairs |-> "none"]
NoQueue == [p \in Pairs |-> 0]

\* pair is a set of at most one; kept tells that an earlier attempt has left a
\* result behind.
Fresh == [at |-> "ready", pair |-> {}, tries |-> 0, kept |-> FALSE]

TypeOK ==
  /\ proc \in {"off", "running", "finished"}
  /\ results \in [Pairs -> Statuses]
  /\ disk \in [torn : BOOLEAN, of : [Pairs -> Statuses]]
  /\ queue \in [Pairs -> Nat]
  /\ w \in [Workers -> [at : {"ready", "busy", "left", "dead"}, pair : SUBSET Pairs,
                        tries : 0..MaxRetries, kept : BOOLEAN]]
  /\ said \in [Pairs -> Statuses]
  /\ runs \in Nat

Init ==
  /\ proc = "off"
  /\ results = Nothing
  /\ disk = [torn |-> FALSE, of |-> Nothing]
  /\ queue = NoQueue
  /\ w = [i \in Workers |-> Fresh]
  /\ said = Nothing
  /\ runs = 0
-----------------------------------------------------------------------------
(* The coordinator, run_parallel.                                          *)

\* A file that does not parse is taken for none ("except Exception: pass"); any
\* entry counts as a pair already completed.
Load == IF disk.torn THEN Nothing ELSE disk.of

\* A pair is queued as often as the list names it: nobody removes duplicates.
\* With no pair left it returns at once, without run_finished.
Start ==
  /\ proc \in {"off", "finished"}
  /\ runs < MaxExecutions
  /\ runs' = runs + 1
  /\ results' = Load
  /\ queue' = [p \in Pairs |-> IF Load[p] = "none" THEN Times[p] ELSE 0]
  /\ proc' = IF queue' = NoQueue THEN "off" ELSE "running"
  /\ w' = [i \in Workers |-> Fresh]
  /\ said' = Nothing
  /\ UNCHANGED disk

\* Too few tabs, no TradingView: run_state failed, and the exception goes on.
PrepareFails ==
  /\ proc = "running"
  /\ \A i \in Workers : w[i] = Fresh
  /\ said = Nothing
  /\ proc' = "off"
  /\ UNCHANGED <<results, disk, queue, w, said, runs>>

\* run_finished is printed, with a status that nothing here depends on.
Finish ==
  /\ proc = "running"
  /\ \A i \in Workers : w[i].at \in {"left", "dead"}
  /\ proc' = "finished"
  /\ UNCHANGED <<results, disk, queue, w, said, runs>>

\* SIGTERM of the agent, the watchdog or the operating system.
Killed ==
  /\ proc = "running"
  /\ proc' = "off"
  /\ UNCHANGED <<results, disk, queue, w, said, runs>>
-----------------------------------------------------------------------------
(* worker_task.                                                            *)

Become(i, r) == w' = [w EXCEPT ![i] = r]

TakeShared(i) ==   \* mutant: the pair stays in the queue
  /\ proc = "running"
  /\ w[i].at = "ready"
  /\ \E p \in Pairs : queue[p] > 0 /\ Become(i, [Fresh EXCEPT !.at = "busy", !.pair = {p}])
  /\ UNCHANGED <<proc, results, disk, queue, said, runs>>

Take(i) ==
  /\ proc = "running"
  /\ w[i].at = "ready"
  /\ \E p \in Pairs :
       /\ queue[p] > 0
       /\ queue' = [queue EXCEPT ![p] = @ - 1]
       /\ Become(i, [Fresh EXCEPT !.at = "busy", !.pair = {p}])
  /\ UNCHANGED <<proc, results, disk, said, runs>>

Leave(i) ==
  /\ proc = "running"
  /\ w[i].at = "ready"
  /\ queue = NoQueue
  /\ Become(i, [Fresh EXCEPT !.at = "left"])
  /\ UNCHANGED <<proc, results, disk, queue, said, runs>>

Busy(i, p) == proc = "running" /\ w[i].at = "busy" /\ w[i].pair = {p}

StoredNowOnly(i, p, outcome) ==   \* mutant: the file holds the last pair only
  /\ results' = [results EXCEPT ![p] = outcome]
  /\ disk' = [torn |-> FALSE, of |-> [Nothing EXCEPT ![p] = outcome]]
  /\ Become(i, Fresh)
  /\ UNCHANGED proc

\* _store_pair_result and write_results_snapshot, which opens the file for
\* writing and then writes all of it.  An exception ends the coroutine: nobody
\* catches it but gather.
Stored(i, p, outcome) ==
  /\ results' = [results EXCEPT ![p] = outcome]
  /\ \/ /\ disk' = [torn |-> FALSE, of |-> results']
        /\ Become(i, Fresh)
        /\ UNCHANGED proc
     \/ /\ "disk_full" \in Faults
        /\ disk' \in {[disk EXCEPT !.torn = TRUE], [torn |-> FALSE, of |-> results']}
        /\ Become(i, [Fresh EXCEPT !.at = "dead"])
        /\ UNCHANGED proc
     \/ /\ "torn_write" \in Faults
        /\ disk' = [disk EXCEPT !.torn = TRUE]
        /\ proc' = "off"
        /\ UNCHANGED w

Says(p, event) == said' = [said EXCEPT ![p] = event]

\* The event is out before the file is written.
Succeed(i) ==
  /\ \E p \in Pairs : Busy(i, p) /\ Stored(i, p, "completed") /\ Says(p, "completed")
  /\ UNCHANGED <<queue, runs>>

\* Stored first and then recorded and said, unless one of the two fails.
StoredThenSaid(i, p, outcome, event) ==
  /\ Stored(i, p, outcome)
  /\ IF w'[i] = Fresh THEN Says(p, event) ELSE UNCHANGED said

\* NoDataForRangeError.
Skip(i) ==
  /\ \E p \in Pairs : Busy(i, p) /\ StoredThenSaid(i, p, "skipped", "skipped")
  /\ UNCHANGED <<queue, runs>>

\* What is left of a result after an attempt that failed: recording it fails when
\* it is there already; an optimizer that returns None takes it away; one that
\* raises leaves it alone.
KeptAfterwards(i) ==
  {w[i].kept, FALSE} \cup (IF "disk_full" \in Faults THEN {TRUE} ELSE {})

Retry(i) ==
  /\ \E p \in Pairs : Busy(i, p)
  /\ w[i].tries < MaxRetries
  /\ \E kept \in KeptAfterwards(i) :
       Become(i, [w[i] EXCEPT !.tries = @ + 1, !.kept = kept])
  /\ UNCHANGED <<proc, results, disk, queue, said, runs>>

GiveUpAndLeave(i) ==   \* mutant: break for continue
  /\ w[i].tries = MaxRetries
  /\ \E p \in Pairs :
       /\ Busy(i, p)
       /\ results' = [results EXCEPT ![p] = "failed"]
       /\ disk' = [torn |-> FALSE, of |-> results']
       /\ Says(p, "failed")
  /\ Become(i, [Fresh EXCEPT !.at = "left"])
  /\ UNCHANGED <<proc, queue, runs>>

\* The pair is stored as failed and said to be; a result left over from an
\* earlier attempt is then stored over it.
GiveUp(i) ==
  /\ w[i].tries = MaxRetries
  /\ \E p \in Pairs, kept \in KeptAfterwards(i) :
       Busy(i, p) /\ StoredThenSaid(i, p, IF kept THEN "completed" ELSE "failed", "failed")
  /\ UNCHANGED <<queue, runs>>
-----------------------------------------------------------------------------
Work(i) == Take(i) \/ Leave(i) \/ Succeed(i) \/ Skip(i) \/ Retry(i) \/ GiveUp(i)

Next ==
  \/ Start \/ PrepareFails \/ Finish \/ Killed
  \/ \E i \in Workers : Work(i)

Spec == Init /\ [][Next]_vars

\* asyncio lets every coroutine go on, and a tab answers or times out.  Nobody
\* has to start the process.
FairSpec == Spec /\ WF_vars(Finish) /\ \A i \in Workers : WF_vars(Work(i))
-----------------------------------------------------------------------------
\* When run_finished is printed no pair is left over: each has an entry in the
\* file, from this execution or from one before it.
AllHandled == proc = "finished" => \A p \in Pairs : disk.of[p] # "none"

\* What an execution says of a pair is what it leaves in the file.
EventMatchesFile ==
  proc # "off" => \A p \in Pairs : said[p] # "none" => ~disk.torn /\ disk.of[p] = said[p]

\* A pair that is listed once is in one pair of hands: in the queue, with one
\* worker, or stored.
OnePlace ==
  proc = "running" =>
    /\ \A i, j \in Workers : i # j => w[i].pair \cap w[j].pair = {}
    /\ \A p \in Pairs : results[p] # "none" => queue[p] = 0 /\ \A i \in Workers : p \notin w[i].pair

\* An execution ends, whatever fails in it.
Ends == proc = "running" ~> proc # "running"

\* "Write results incrementally - never lose completed work": a completed pair
\* that can be read back stays so, through retries, failures of other pairs and
\* later executions, except in a process killed while it writes.
WorkKept == [][\A p \in Pairs : ~disk.torn /\ disk.of[p] = "completed"
                  => \/ ~disk'.torn /\ disk'.of[p] = "completed"
                     \/ disk'.torn /\ proc' = "off"]_vars

\* Not even then.
NeverLost == [][\A p \in Pairs : ~disk.torn /\ disk.of[p] = "completed" => ~disk'.torn]_vars
=============================================================================
