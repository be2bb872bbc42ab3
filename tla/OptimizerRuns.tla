--------------------------- MODULE OptimizerRuns ---------------------------
(***************************************************************************)
(* Optimizer runs between the API, which keeps them in two tables, and the *)
(* agent on the machine with TradingView, which polls for a queued run,    *)
(* starts the optimizer as a child process and forwards what it prints.    *)
(* The agent knows the run only through GET and PATCH requests, and the    *)
(* API writes whatever status it is sent.  The child is PairWorkers, seen  *)
(* from outside.                                                           *)
(* Source: optimizer_run_service.py, api_optimizer_runs.py,                *)
(* scripts/optimizer/local_agent.py.                                       *)
(***************************************************************************)
EXTENDS Naturals, Sequences, FiniteSets

CONSTANTS
  Runs,         \* rows of optimizer_runs that may be created
  Rows,         \* rows of a run: one per symbol, or per symbol and broker
  SymbolOf,     \* SymbolOf[p]: the symbol of row p
  RowsNameBroker, \* whether the rows carry a broker: in the validate modes only
  Clients,      \* requests of the dashboard being served, each in its thread
  MaxRestarts,  \* bound: restarts of the API
  MaxCancels,   \* bound: cancel requests
  PipeSize,     \* lines the pipe takes before the child has to wait
  MaxLost,      \* bound: PATCH requests of the agent that fail
  NoRun

ASSUME RunsAssumption ==
  /\ DOMAIN SymbolOf = Rows
  /\ RowsNameBroker \in BOOLEAN
  /\ MaxRestarts \in Nat /\ MaxCancels \in Nat /\ MaxLost \in Nat /\ PipeSize \in Nat \ {0}
  /\ NoRun \notin Runs

VARIABLES
  status,    \* status[r] of optimizer_runs, "none" before its insert
  order,     \* the runs by created_at
  result,    \* result[r][p] of optimizer_results
  req,       \* req[c]: the request in thread c
  agent,     \* the main loop of the agent
  child,     \* the optimizer process
  pipe,      \* its standard output, as far as it is not yet read
  restarts, cancels,
  lost       \* the runs of which an update was lost, once for each (history)

runsVars == <<status, order, result, req, agent, child, pipe, restarts, cancels, lost>>

Terminal == {"completed", "failed", "cancelled", "interrupted"}
Active   == {"queued", "running"}
RowOutcomes == {"completed", "failed"}   \* "skipped" is treated as "failed" is

RunEnd(s) == [what |-> "run_finished", of |-> s]
Event(e, p) == [what |-> e, of |-> p]

NoReq   == [at |-> "idle", run |-> NoRun, todo |-> {}]
NoChild == [on |-> FALSE, todo |-> {}, busy |-> {}, good |-> FALSE, hung |-> FALSE, ok |-> FALSE]
AgentIdle == [at |-> "idle", run |-> NoRun]

RunsTypeOK ==
  /\ status \in [Runs -> {"none"} \cup Active \cup Terminal]
  /\ order \in Seq(Runs)
  /\ result \in [Runs -> [Rows -> {"none", "pending", "running", "cancelled"} \cup RowOutcomes]]
  /\ req \in [Clients -> [at : {"idle", "checked", "created", "cancel", "rows", "cancel_rows"},
                          run : Runs \cup {NoRun}, todo : SUBSET Rows]]
  /\ agent \in [at : {"idle", "picked", "marked", "stream"}, run : Runs \cup {NoRun}]
  /\ agent.at = "idle" <=> agent.run = NoRun
  /\ child.on => agent.at = "stream"
  /\ child \in [on : BOOLEAN, todo : SUBSET Rows, busy : SUBSET Rows, good : BOOLEAN,
                hung : BOOLEAN, ok : BOOLEAN]
  /\ pipe \in Seq([what : {"pair_started"} \cup RowOutcomes, of : Rows]
                   \cup [what : {"run_finished"}, of : {"completed", "failed"}])
  /\ restarts \in Nat
  /\ cancels \in Nat
  /\ lost \in Seq(Runs)

RunsInit ==
  /\ status = [r \in Runs |-> "none"]
  /\ order = <<>>
  /\ result = [r \in Runs |-> [p \in Rows |-> "none"]]
  /\ req = [c \in Clients |-> NoReq]
  /\ agent = AgentIdle
  /\ child = NoChild
  /\ pipe = <<>>
  /\ restarts = 0
  /\ cancels = 0
  /\ lost = <<>>
-----------------------------------------------------------------------------
(* The API.  Each action is one statement to the database.                 *)

\* start_run: _active_run_exists, then the insert of the run, then of its
\* results.  Nothing holds the three together.
CheckActive(c) ==
  /\ req[c] = NoReq
  /\ \A r \in Runs : status[r] \notin Active
  /\ req' = [req EXCEPT ![c].at = "checked"]
  /\ UNCHANGED <<status, order, result, agent, child, pipe, restarts, cancels, lost>>

CreateRun(c) ==
  /\ req[c].at = "checked"
  /\ \E r \in Runs :
       /\ status[r] = "none"
       /\ status' = [status EXCEPT ![r] = "queued"]
       /\ order' = Append(order, r)
       /\ req' = [req EXCEPT ![c] = [NoReq EXCEPT !.at = "created", !.run = r]]
  /\ UNCHANGED <<result, agent, child, pipe, restarts, cancels, lost>>

CreateResults(c) ==
  /\ req[c].at = "created"
  /\ result' = [result EXCEPT ![req[c].run] = [p \in Rows |-> "pending"]]
  /\ req' = [req EXCEPT ![c] = NoReq]
  /\ UNCHANGED <<status, order, agent, child, pipe, restarts, cancels, lost>>

\* cancel_run: a run that is not terminal when it is read ...
ReadCancelled(c) ==
  /\ req[c] = NoReq
  /\ cancels < MaxCancels
  /\ cancels' = cancels + 1
  /\ \E r \in Runs : /\ status[r] \in Active
                     /\ req' = [req EXCEPT ![c] = [NoReq EXCEPT !.at = "cancel", !.run = r]]
  /\ UNCHANGED <<status, order, result, agent, child, pipe, restarts, lost>>

\* ... is set to cancelled, whatever it is by then ...
SetCancelled(c) ==
  /\ req[c].at = "cancel"
  /\ status' = [status EXCEPT ![req[c].run] = "cancelled"]
  /\ req' = [req EXCEPT ![c].at = "rows"]
  /\ UNCHANGED <<order, result, agent, child, pipe, restarts, cancels, lost>>

\* ... and so are the results that are pending or running when they are listed,
\* each with the results of the same symbol at every other broker.
ListUnfinished(c) ==
  /\ req[c].at = "rows"
  /\ LET r == req[c].run
         open == {p \in Rows : result[r][p] \in {"pending", "running"}}
     IN req' = [req EXCEPT ![c] = IF open = {} THEN NoReq
                                  ELSE [@ EXCEPT !.at = "cancel_rows", !.todo = open]]
  /\ UNCHANGED <<status, order, result, agent, child, pipe, restarts, cancels, lost>>

CancelResult(c) ==
  /\ req[c].at = "cancel_rows"
  /\ \E p \in req[c].todo :
       LET rest == req[c].todo \ {p}
       IN /\ result' = [result EXCEPT ![req[c].run] =
                            [q \in Rows |-> IF SymbolOf[q] = SymbolOf[p] THEN "cancelled" ELSE @[q]]]
          /\ req' = [req EXCEPT ![c] = IF rest = {} THEN NoReq ELSE [@ EXCEPT !.todo = rest]]
  /\ UNCHANGED <<status, order, agent, child, pipe, restarts, cancels, lost>>

\* A restart of the API: requests are lost, and reconcile_incomplete_runs finds
\* no process of its own for any run.
RestartApi ==
  /\ restarts < MaxRestarts
  /\ restarts' = restarts + 1
  /\ req' = [c \in Clients |-> NoReq]
  /\ status' = [r \in Runs |-> IF status[r] \in Active THEN "interrupted" ELSE status[r]]
  /\ UNCHANGED <<order, result, agent, child, pipe, cancels, lost>>
-----------------------------------------------------------------------------
(* The agent.                                                              *)

\* A request that fails is logged: api_patch returns None and nobody looks.
Lose(r) == Len(lost) < MaxLost /\ lost' = Append(lost, r)

\* update_run_from_agent: no status is final to it.
PatchRun(r, s) ==
  \/ status' = [status EXCEPT ![r] = s] /\ UNCHANGED lost
  \/ UNCHANGED status /\ Lose(r)

\* list_runs orders by created_at descending, and the agent takes the first.
IsNewest(r, S) == \A i, j \in 1..Len(order) : order[i] = r /\ order[j] \in S => j <= i

QueuedOrCutOff == {r \in Runs : status[r] \in {"queued", "interrupted"}}   \* mutant

Queued == {r \in Runs : status[r] = "queued"}

Poll ==
  /\ agent = AgentIdle
  /\ \E r \in Queued :
       /\ IsNewest(r, Queued)
       /\ agent' = [at |-> "picked", run |-> r]
  /\ UNCHANGED <<status, order, result, req, child, pipe, restarts, cancels, lost>>

\* execute_run.  A run that cannot start is reported and stays queued.
NotReady ==
  /\ agent.at = "picked"
  /\ agent' = AgentIdle
  /\ UNCHANGED <<status, order, result, req, child, pipe, restarts, cancels, lost>>

MarkRunning ==
  /\ agent.at = "picked"
  /\ PatchRun(agent.run, "running")
  /\ agent' = [agent EXCEPT !.at = "marked"]
  /\ UNCHANGED <<order, result, req, child, pipe, restarts, cancels>>

Spawn ==
  /\ agent.at = "marked"
  /\ child' = [NoChild EXCEPT !.on = TRUE, !.todo = Rows]
  /\ pipe' = <<>>
  /\ agent' = [agent EXCEPT !.at = "stream"]
  /\ UNCHANGED <<status, order, result, req, restarts, cancels, lost>>

\* The source parameters cannot be had, or Popen raises.
SpawnFails ==
  /\ agent.at = "marked"
  /\ PatchRun(agent.run, "failed")
  /\ agent' = AgentIdle
  /\ UNCHANGED <<order, result, req, child, pipe, restarts, cancels>>

\* _process_line: a PATCH of the result.  The event names a broker in every mode
\* and update_result asks for a row of that broker: one that is not there, or
\* that was inserted without a broker, is not found and nobody is told.
PatchResult(r, p, s) ==
  \/ /\ result' = IF result[r][p] = "none" \/ ~RowsNameBroker THEN result
                   ELSE [result EXCEPT ![r][p] = s]
     /\ UNCHANGED lost
  \/ UNCHANGED result /\ Lose(r)

NewStatus(event) == IF event.what = "pair_started" THEN "running" ELSE event.what

Forward ==
  /\ agent.at = "stream"
  /\ pipe # <<>>
  /\ LET e == Head(pipe)
     IN IF e.what = "run_finished"
        THEN PatchRun(agent.run, e.of) /\ UNCHANGED result
        ELSE PatchResult(agent.run, e.of, NewStatus(e)) /\ UNCHANGED status
  /\ pipe' = Tail(pipe)
  /\ UNCHANGED <<order, req, agent, child, restarts, cancels>>

SetFinalUndrained ==   \* mutant: what the pipe still holds is not waited for
  /\ agent.at = "stream"
  /\ ~child.on
  /\ PatchRun(agent.run, IF child.ok THEN "completed" ELSE "failed")
  /\ agent' = AgentIdle
  /\ UNCHANGED <<order, result, req, child, pipe, restarts, cancels>>

SetFinalTrusting ==   \* mutant: the child is trusted to have said how it ended
  /\ agent.at = "stream"
  /\ ~child.on
  /\ pipe = <<>>
  /\ agent' = AgentIdle
  /\ UNCHANGED <<status, order, result, req, child, pipe, restarts, cancels, lost>>

\* The child is gone and its output is drained.  The agent asks for the run before
\* it sets the final status, and every few seconds while the child lives, but
\* looks for the status beside the run the answer holds, {"run": run}: it never
\* learns that a run was cancelled, nor that it has a verdict, and goes on, as it
\* does without an answer.
SetFinal ==
  /\ agent.at = "stream"
  /\ ~child.on
  /\ pipe = <<>>
  /\ PatchRun(agent.run, IF child.ok THEN "completed" ELSE "failed")
  /\ agent' = AgentIdle
  /\ UNCHANGED <<order, result, req, child, pipe, restarts, cancels>>

\* The output of the child cannot be read (an OSError): the child is terminated,
\* and what it had still to say is gone.
StreamBreaks ==
  /\ agent.at = "stream"
  /\ child' = NoChild
  /\ pipe' = <<>>
  /\ PatchRun(agent.run, "failed")
  /\ agent' = AgentIdle
  /\ UNCHANGED <<order, result, req, restarts, cancels>>
-----------------------------------------------------------------------------
(* The child.                                                              *)

Alive == child.on /\ ~child.hung

Prints(line) == Len(pipe) < PipeSize /\ pipe' = Append(pipe, line)

\* The child takes seconds to start; the insert of the results, which follows
\* that of the run at once, is over by then.
Begin(p) ==
  /\ Alive
  /\ \A c \in Clients : ~(req[c].at = "created" /\ req[c].run = agent.run)
  /\ p \in child.todo
  /\ child' = [child EXCEPT !.todo = @ \ {p}, !.busy = @ \cup {p}]
  /\ Prints(Event("pair_started", p))
  /\ UNCHANGED <<status, order, result, req, agent, restarts, cancels, lost>>

Report(p, outcome) ==
  /\ Alive
  /\ p \in child.busy
  /\ child' = [child EXCEPT !.busy = @ \ {p}, !.good = @ \/ outcome = "completed"]
  /\ Prints(Event(outcome, p))
  /\ UNCHANGED <<status, order, result, req, agent, restarts, cancels, lost>>

\* A run whose rows name brokers counts symbols rather than rows, and the brokers
\* of a symbol may differ.  The process exits well in any case.
Verdicts == IF RowsNameBroker THEN RowOutcomes
            ELSE IF child.good THEN {"completed"} ELSE {"failed"}

ExitAnnounced ==
  /\ Alive
  /\ child.todo = {} /\ child.busy = {}
  /\ child' = [child EXCEPT !.on = FALSE, !.ok = TRUE]
  /\ \E verdict \in Verdicts : Prints(RunEnd(verdict))
  /\ UNCHANGED <<status, order, result, req, agent, restarts, cancels, lost>>

\* The tabs cannot be prepared, or the process is killed.
ExitFailing ==
  /\ Alive
  /\ child' = [child EXCEPT !.on = FALSE]
  /\ UNCHANGED <<status, order, result, req, agent, pipe, restarts, cancels, lost>>

\* TradingView does not answer and no timeout helps.
Hang ==
  /\ Alive
  /\ child' = [child EXCEPT !.hung = TRUE]
  /\ UNCHANGED <<status, order, result, req, agent, pipe, restarts, cancels, lost>>
-----------------------------------------------------------------------------
Serve(c) ==
  \/ CheckActive(c) \/ CreateRun(c) \/ CreateResults(c)
  \/ ReadCancelled(c) \/ SetCancelled(c) \/ ListUnfinished(c) \/ CancelResult(c)

\* What the agent does without being asked.
AgentStep ==
  \/ Poll \/ NotReady \/ MarkRunning \/ Spawn \/ SpawnFails \/ Forward \/ SetFinal

ChildStep ==
  \/ \E p \in Rows : Begin(p) \/ \E o \in RowOutcomes : Report(p, o)
  \/ ExitAnnounced \/ ExitFailing

RunsNext ==
  \/ \E c \in Clients : Serve(c)
  \/ RestartApi
  \/ AgentStep \/ StreamBreaks
  \/ ChildStep \/ Hang

RunsSpec == RunsInit /\ [][RunsNext]_runsVars

\* The agent's loop goes on, and a child that does not hang gets on.  TradingView is
\* ready in the end for a run that is asked for again and again.  Requests may be abandoned, except that the
\* two inserts of a new run follow each other.
FairRunsSpec ==
  /\ RunsSpec
  /\ WF_runsVars(AgentStep)
  /\ SF_runsVars(MarkRunning)
  /\ WF_runsVars(ChildStep)
  /\ \A c \in Clients : WF_runsVars(CreateResults(c))
-----------------------------------------------------------------------------
Working(r) == agent.at # "idle" /\ agent.run = r

Lost(r) == \E i \in 1..Len(lost) : lost[i] = r

\* A run that is completed, and that the agent has done with, has no result that
\* is still pending or running, however its cancel requests were interleaved,
\* if none of its updates was lost.
CompletedIsComplete ==
  \A r \in Runs : status[r] = "completed" /\ ~Working(r) /\ ~Lost(r)
                    => \A p \in Rows : result[r][p] \notin {"pending", "running"}

\* Every run ends, unless a child hangs or the update that says so is lost.
RunsEnd == \A r \in Runs : status[r] \in Active ~> status[r] \notin Active \/ child.hung \/ Lost(r)

\* A run that has ended, and that the agent has done with, is not taken up again
\* by anyone, whatever restarts, cancels and polls cross.
Over(r) == status[r] \in Terminal /\ ~Working(r)
EndedStaysEnded == [][\A r \in Runs : Over(r) => Over(r)']_runsVars

\* "Mark a run as cancelled. The local agent polls for this and stops.": a run
\* that stays cancelled has its child stopped, even one that hangs.
CancelStops ==
  \A r \in Runs : <>[](status[r] = "cancelled") => <>[]~(child.on /\ agent.run = r)

\* "Check if the backend already set a terminal status (e.g. via run_finished
\* event)": when the agent leaves a run that has ended, it leaves its status alone.
VerdictStands ==
  [][\A r \in Runs : agent.at = "stream" /\ agent.run = r /\ agent' = AgentIdle
                       /\ status[r] \in Terminal => status'[r] = status[r]]_runsVars

\* "another optimizer run is already active": there is one active run.
OneActiveRun == \A r, s \in Runs : status[r] \in Active /\ status[s] \in Active => r = s
=============================================================================
