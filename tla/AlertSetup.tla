----------------------------- MODULE AlertSetup -----------------------------
(***************************************************************************)
(* Batches of TradingView alerts: the dashboard asks for an alert per pair *)
(* and may cancel; one agent on a desktop polls for batches, makes the     *)
(* alerts through the MCP or a browser and reports to the API.             *)
(* Source: services/alert_setup_service.py, scripts/optimizer/             *)
(* local_agent.py and alert_runner.py.                                     *)
(***************************************************************************)
EXTENDS Integers, FiniteSets

CONSTANTS
  Batches, Pairs,  \* every batch is for all pairs and the same timeframe
  NoPair,
  Old,             \* pairs that have an alert of another timeframe
  MaxCancels,      \* bound: requests to cancel
  MaxLosses,       \* bound: lost requests of the agent, and its deaths
  Faults

FaultKinds == {"unready",  \* neither Chrome nor a backend when a batch is taken
               "ui",       \* a step at TradingView fails, before or after its effect
               "slow",     \* the dialog stays open after the alert is made
               "blind",    \* the browser does not find the list of alerts
               "lost",     \* a request to the API fails
               "dies"}     \* the agent is terminated, and started again

ASSUME AlertAssumption ==
  /\ Pairs # {} /\ NoPair \notin Pairs   \* "pairs must not be empty"
  /\ Old \subseteq Pairs
  /\ {MaxCancels, MaxLosses} \subseteq Nat
  /\ Faults \subseteq FaultKinds

Terminal == {"completed", "failed", "cancelled"}
MaxClicks == 3   \* ways _submit_alert of the browser tries

VARIABLES
  batch,    \* status in alert_batches, "none" before there is a row
  res,      \* status in alert_batch_results, by batch and pair
  cancel,   \* a request to cancel each batch, and the pairs it has listed
  alerts,   \* alerts of the timeframe at TradingView, by pair
  agent,
  cancels, losses,
  lost,     \* batches of which the agent's report may be wrong (history)
  overruled, \* batches whose cancel the agent has written over (history)
  late      \* alerts made for a batch after it was cancelled (history)

history == <<overruled, late>>
vars == <<batch, res, cancel, alerts, agent, cancels, losses, lost, history>>

NoCancel == [at |-> "none", listed |-> {}]
Idle == [at |-> "idle"]

TypeOK ==
  /\ batch \in [Batches -> {"none", "queued", "running"} \cup Terminal]
  /\ res \in [Batches -> [Pairs -> {"none", "pending", "running", "created", "skipped", "failed",
                                    "cancelled"}]]
  /\ cancel \in [Batches -> [at : {"none", "set", "list", "each"}, listed : SUBSET Pairs]]
  /\ alerts \in [Pairs -> Nat]
  /\ agent \in {Idle} \cup
       [at : {"check", "stop", "start", "mcp", "mcp_submit", "browser", "submit", "report",
              "finish"},
        b : Batches, left : SUBSET Pairs, pair : Pairs \cup {NoPair},
        mcp : BOOLEAN, playwright : BOOLEAN, clicks : 0..MaxClicks,
        out : {"none", "created", "skipped", "failed"}, failed : BOOLEAN]
  /\ agent.at \notin {"idle", "finish"} => agent.left # {}
  /\ agent.at \notin {"idle", "check", "finish", "stop"} => agent.pair \in agent.left
  /\ cancels \in 0..MaxCancels /\ losses \in 0..MaxLosses
  /\ lost \subseteq Batches
  /\ overruled \subseteq Batches
  /\ late \in [Batches -> Nat]

Init ==
  /\ batch = [b \in Batches |-> "none"]
  /\ res = [b \in Batches |-> [p \in Pairs |-> "none"]]
  /\ cancel = [b \in Batches |-> NoCancel]
  /\ alerts = [p \in Pairs |-> 0]
  /\ agent = Idle
  /\ cancels = 0 /\ losses = 0
  /\ lost = {}
  /\ overruled = {}
  /\ late = [b \in Batches |-> 0]
-----------------------------------------------------------------------------
(* The API, asked by the dashboard.                                        *)

\* Whatever other batches there are.  The rows are there before the agent, who
\* first looks for Chrome and its backends, reports on them.
StartBatch(b) ==
  /\ batch[b] = "none"
  /\ batch' = [batch EXCEPT ![b] = "queued"]
  /\ res' = [res EXCEPT ![b] = [p \in Pairs |-> "pending"]]
  /\ UNCHANGED <<cancel, alerts, agent, cancels, losses, lost, history>>

AskCancel(b) ==
  /\ batch[b] \notin Terminal \cup {"none"}
  /\ cancel[b] = NoCancel
  /\ cancels < MaxCancels
  /\ cancels' = cancels + 1
  /\ cancel' = [cancel EXCEPT ![b].at = "set"]
  /\ UNCHANGED <<batch, res, alerts, agent, losses, lost, history>>

SetCancelled(b) ==
  /\ cancel[b].at = "set"
  /\ batch' = [batch EXCEPT ![b] = "cancelled"]
  /\ cancel' = [cancel EXCEPT ![b].at = "list"]
  /\ UNCHANGED <<res, alerts, agent, cancels, losses, lost, history>>

ListUnfinished(b) ==
  /\ cancel[b].at = "list"
  /\ cancel' = [cancel EXCEPT ![b] = [at |-> "each",
                  listed |-> {p \in Pairs : res[b][p] \in {"pending", "running"}}]]
  /\ UNCHANGED <<batch, res, alerts, agent, cancels, losses, lost, history>>

\* The row is written as it was listed, whatever has become of it.
CancelResult(b) ==
  /\ cancel[b].at = "each"
  /\ IF cancel[b].listed = {}
     THEN cancel' = [cancel EXCEPT ![b] = NoCancel] /\ UNCHANGED res
     ELSE \E p \in cancel[b].listed :
            /\ res' = [res EXCEPT ![b][p] = "cancelled"]
            /\ cancel' = [cancel EXCEPT ![b].listed = @ \ {p}]
  /\ UNCHANGED <<batch, alerts, agent, cancels, losses, lost, history>>
-----------------------------------------------------------------------------
(* The agent.  Its requests are made once; one that fails is passed over.  *)

Lose(b) ==
  /\ losses < MaxLosses
  /\ losses' = losses + 1
  /\ lost' = lost \cup {b}

AllHeard == UNCHANGED <<losses, lost>>

Patch(b, table, new) ==
  \/ table' = new /\ AllHeard
  \/ "lost" \in Faults /\ Lose(b) /\ UNCHANGED table

PatchBatch(s) == Patch(agent.b, batch, [batch EXCEPT ![agent.b] = s])
PatchResult(s) == Patch(agent.b, res, [res EXCEPT ![agent.b][agent.pair] = s])

Goes(to) == agent' = [agent EXCEPT !.at = to]
Reports(out) == agent' = [agent EXCEPT !.at = "report", !.out = out]

\* Poll: the batches are asked for before the optimizer's runs.
Poll(b) ==
  /\ agent = Idle
  /\ batch[b] = "queued"
  /\ agent' = [at |-> "check", b |-> b, left |-> Pairs, pair |-> NoPair, mcp |-> FALSE,
               playwright |-> FALSE, clicks |-> 0, out |-> "none", failed |-> FALSE]
  /\ UNCHANGED <<batch, res, cancel, alerts, cancels, losses, lost, history>>

Unready ==
  /\ agent.at = "check"
  /\ "unready" \in Faults
  /\ PatchBatch("failed")
  /\ agent' = Idle
  /\ UNCHANGED <<res, cancel, alerts, cancels, history>>

\* update_batch_from_agent takes any status in any status: a cancel that came after
\* the poll is written over, and should_stop does not see it any more.
MarkRunning ==
  /\ agent.at = "check"
  /\ PatchBatch("running")
  /\ \E m, w \in BOOLEAN :
       (m \/ w) /\ agent' = [agent EXCEPT !.at = "stop", !.mcp = m, !.playwright = w]
  /\ overruled' = IF batch[agent.b] = "cancelled" /\ batch'[agent.b] = "running"
                  THEN overruled \cup {agent.b} ELSE overruled
  /\ UNCHANGED <<res, cancel, alerts, cancels, late>>

SeenNever(b) == FALSE   \* mutant: should_stop asks for the agent's own stop only

\* should_stop asks the API.
Seen(b) == batch[b] = "cancelled"

Quit ==
  /\ PatchBatch("cancelled")
  /\ agent' = Idle
  /\ UNCHANGED <<res, cancel, alerts, cancels, history>>

\* should_stop without an answer is no.
Goon ==
  \/ ~Seen(agent.b) /\ AllHeard
  \/ "lost" \in Faults /\ Lose(agent.b)

NextPair ==
  /\ agent.at = "stop"
  /\ \/ Seen(agent.b) /\ Quit
     \/ /\ Goon
        /\ \E p \in agent.left : agent' = [agent EXCEPT !.at = "start", !.pair = p]
        /\ UNCHANGED <<batch, res, cancel, alerts, cancels, history>>

PairStarts ==
  /\ agent.at = "start"
  /\ PatchResult("running")
  /\ Goes(IF agent.mcp THEN "mcp" ELSE "browser")
  /\ UNCHANGED <<batch, cancel, alerts, cancels, history>>

Made ==
  /\ alerts' = [alerts EXCEPT ![agent.pair] = @ + 1]
  /\ late' = IF batch[agent.b] = "cancelled" \/ agent.b \in overruled
             THEN [late EXCEPT ![agent.b] = @ + 1] ELSE late
  /\ UNCHANGED overruled

NotMade == UNCHANGED <<alerts, history>>

FallBackToSubmit ==   \* mutant: the browser goes on where the MCP failed
  IF agent.playwright THEN Goes("submit") ELSE Reports("failed")

\* Any exception of the MCP's deploy_alert has the browser start over.
FallBack == IF agent.playwright THEN Goes("browser") ELSE Reports("failed")

\* TradingViewMcpAlertRunner.deploy_alert up to the dialog: pair and timeframe of
\* one alert are compared.
McpLooks ==
  /\ agent.at = "mcp"
  /\ \/ Seen(agent.b) /\ Quit
     \/ /\ Goon
        /\ \/ IF alerts[agent.pair] > 0 THEN Reports("skipped") ELSE Goes("mcp_submit")
           \/ "ui" \in Faults /\ FallBack
        /\ NotMade
        /\ UNCHANGED <<batch, res, cancel, cancels>>

McpSubmitsUnseen ==   \* mutant: nobody waits for the dialog to close
  /\ agent.at = "mcp_submit"
  /\ Reports("created") /\ (Made \/ NotMade)
  /\ UNCHANGED <<batch, res, cancel, cancels, losses, lost>>

\* The dialog closes once the alert is made; if it is late for the eight seconds
\* that the MCP waits, that is an exception.
McpSubmits ==
  /\ agent.at = "mcp_submit"
  /\ \/ Made /\ Reports("created")
     \/ "ui" \in Faults /\ FallBack /\ (Made \/ NotMade)
  /\ UNCHANGED <<batch, res, cancel, cancels, losses, lost>>

\* What the text of the panel says: the pair and the timeframe may be of two alerts.
Shows(p) == alerts[p] > 0 \/ (p \in Old /\ \E q \in Pairs : alerts[q] > 0)

BrowserLooks ==
  /\ agent.at = "browser"
  /\ \/ Seen(agent.b) /\ Quit
     \/ /\ Goon
        /\ \/ IF Shows(agent.pair) THEN Reports("skipped") ELSE Goes("submit")
           \/ "blind" \in Faults /\ Goes("submit")
           \/ "ui" \in Faults /\ Reports("failed")
        /\ NotMade
        /\ UNCHANGED <<batch, res, cancel, cancels>>

\* A dialog that is still there is submitted in another way.
BrowserSubmits ==
  /\ agent.at = "submit"
  /\ \/ Made /\ Reports("created")
     \/ "ui" \in Faults /\ Reports("failed") /\ NotMade
     \/ /\ "slow" \in Faults
        /\ Made
        /\ IF agent.clicks + 1 < MaxClicks THEN agent' = [agent EXCEPT !.clicks = @ + 1]
                                           ELSE Reports("failed")
  /\ UNCHANGED <<batch, res, cancel, cancels, losses, lost>>

ReportOnce ==   \* mutant: what counts is how the last pair went
  /\ agent.at = "report"
  /\ PatchResult(agent.out)
  /\ LET left == agent.left \ {agent.pair}
     IN agent' = [agent EXCEPT !.at = IF left = {} THEN "finish" ELSE "stop", !.left = left,
                               !.pair = NoPair, !.clicks = 0, !.out = "none",
                               !.failed = agent.out = "failed"]
  /\ UNCHANGED <<batch, cancel, alerts, cancels, history>>

Report ==
  /\ agent.at = "report"
  /\ PatchResult(agent.out)
  /\ LET left == agent.left \ {agent.pair}
     IN agent' = [agent EXCEPT !.at = IF left = {} THEN "finish" ELSE "stop", !.left = left,
                               !.pair = NoPair, !.clicks = 0, !.out = "none",
                               !.failed = @ \/ agent.out = "failed"]
  /\ UNCHANGED <<batch, cancel, alerts, cancels, history>>

FinishUntold ==   \* mutant: the event is sent, the status is not
  /\ agent.at = "finish"
  /\ agent' = Idle
  /\ UNCHANGED <<batch, res, cancel, alerts, cancels, losses, lost, history>>

\* batch_finished, over a cancel that came after the last should_stop, too.
Finish ==
  /\ agent.at = "finish"
  /\ PatchBatch(IF agent.failed THEN "failed" ELSE "completed")
  /\ agent' = Idle
  /\ UNCHANGED <<res, cancel, alerts, cancels, history>>

\* sys.exit in the handler of the signal.  No memory of the batch is kept.
Dies ==
  /\ "dies" \in Faults
  /\ agent # Idle
  /\ Lose(agent.b)
  /\ agent' = Idle
  /\ UNCHANGED <<batch, res, cancel, alerts, cancels, history>>
-----------------------------------------------------------------------------
Cancelling(b) == AskCancel(b) \/ SetCancelled(b) \/ ListUnfinished(b) \/ CancelResult(b)

AgentStep ==
  \/ \E b \in Batches : Poll(b)
  \/ Unready \/ MarkRunning \/ NextPair \/ PairStarts \/ McpLooks \/ McpSubmits
  \/ BrowserLooks \/ BrowserSubmits \/ Report \/ Finish

Next ==
  \/ \E b \in Batches : StartBatch(b) \/ Cancelling(b)
  \/ AgentStep
  \/ Dies

\* The agent's loop runs, and each of its steps has a timeout.
Spec == Init /\ [][Next]_vars /\ WF_vars(AgentStep)
-----------------------------------------------------------------------------
\* However often a batch is cut off, repeated or falls back from the MCP to the
\* browser, no pair gets two alerts, of which each signal would be traded twice.
OneAlert == \A p \in Pairs : alerts[p] <= 1

\* A pair that is reported as created or skipped has its alert (_has_existing_alert
\* compares pair and timeframe).
DoneHasAlert ==
  \A b \in Batches, p \in Pairs : res[b][p] \in {"created", "skipped"} => alerts[p] > 0

\* A batch that is completed has an alert for every pair, and no row says less of
\* it that nobody has cancelled.
CompletedIsComplete ==
  \A b \in Batches \ lost : batch[b] = "completed" =>
    \A p \in Pairs : alerts[p] > 0 /\ (res[b][p] \in {"created", "skipped"} \/ cancels > 0)

\* After a cancel that the agent has not written over, when it marked the batch as
\* running, it makes one more alert at most.
CancelStops == \A b \in Batches \ (lost \cup overruled) : late[b] <= 1

\* "assert cancelled["status"] == "cancelled"" (tests/test_alert_setup_service.py 161):
\* so it is with every cancel.
CancelObeyed == \A b \in Batches \ lost : late[b] <= 1

\* A batch that is asked for ends, unless a request of the agent or the agent is
\* lost: then another batch may stay queued and be taken again and again.
BatchEnds ==
  \A b \in Batches : batch[b] = "queued" ~> batch[b] \in Terminal \/ lost # {}
=============================================================================
