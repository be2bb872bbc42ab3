-------------------------- MODULE AlertSetupProofs --------------------------
(***************************************************************************)
(* Proofs about AlertSetup for every set of batches and pairs, any number  *)
(* of cancels and losses.                                                  *)
(***************************************************************************)
EXTENDS AlertSetup, TLAPS

USE DEF history

Places == {"check", "stop", "start", "mcp", "mcp_submit", "browser", "submit", "report", "finish"}
Outs == {"none", "created", "skipped", "failed"}
Rows == {"none", "pending", "running", "created", "skipped", "failed", "cancelled"}
States == {"none", "queued", "running"} \cup Terminal

\* The agent with a batch.
Agents == [at : Places, b : Batches, left : SUBSET Pairs, pair : Pairs \cup {NoPair},
           mcp : BOOLEAN, playwright : BOOLEAN, clicks : 0..MaxClicks, out : Outs,
           failed : BOOLEAN]

\* Where it may be with the pairs it has left.
Placed(r) ==
  /\ r.at # "finish" => r.left # {}
  /\ r.at \notin {"check", "finish", "stop"} => r.pair \in r.left

\* Tables and the agent, as the steps below change them.
Tables ==
  /\ batch \in [Batches -> States]
  /\ res \in [Batches -> [Pairs -> Rows]]
  /\ cancel \in [Batches -> [at : {"none", "set", "list", "each"}, listed : SUBSET Pairs]]
  /\ alerts \in [Pairs -> Nat]
  /\ cancels \in 0..MaxCancels /\ losses \in 0..MaxLosses
  /\ lost \subseteq Batches
  /\ overruled \subseteq Batches
  /\ late \in [Batches -> Nat]

LEMMA IdleAt == Idle.at = "idle"
BY DEF Idle

LEMMA TypeParts ==
  TypeOK <=> Tables /\ (agent = Idle \/ (agent \in Agents /\ Placed(agent)))
<1>1. ASSUME agent \in Agents PROVE agent.at # "idle"
  BY <1>1 DEF Agents, Places
<1>2. Tables /\ agent \in {Idle} \cup Agents /\ (agent.at # "idle" => Placed(agent)) <=> TypeOK
  BY DEF TypeOK, Tables, Agents, Places, Outs, Rows, States, Placed
<1>3. agent = Idle => agent.at = "idle"  BY IdleAt
<1>. QED  BY <1>1, <1>2, <1>3
-----------------------------------------------------------------------------
(* What the agent's steps do to the tables and to the agent.               *)

LEMMA WorkingAgent ==
  ASSUME TypeOK, agent.at # "idle"
  PROVE  agent \in Agents /\ Placed(agent) /\ agent.b \in Batches
BY TypeParts, IdleAt DEF Agents

\* Another place, with the same pair in hand.
LEMMA GoesWorks ==
  ASSUME agent \in Agents, agent.pair \in agent.left,
         NEW to \in Places, Goes(to)
  PROVE  /\ agent' \in Agents /\ Placed(agent')
         /\ agent'.at = to /\ agent'.b = agent.b /\ agent'.pair = agent.pair
         /\ agent'.left = agent.left /\ agent'.failed = agent.failed
BY DEF Goes, Agents, Placed

LEMMA ReportsWorks ==
  ASSUME agent \in Agents, agent.pair \in agent.left,
         NEW out \in Outs, Reports(out)
  PROVE  /\ agent' \in Agents /\ Placed(agent')
         /\ agent'.at = "report" /\ agent'.out = out /\ agent'.b = agent.b
         /\ agent'.pair = agent.pair /\ agent'.left = agent.left
         /\ agent'.failed = agent.failed
BY DEF Reports, Agents, Placed, Places

\* A request may be lost; the table is then as it was, and so is noted.
LEMMA PatchWorks ==
  ASSUME NEW b, NEW VARIABLE table, NEW new, Patch(b, table, new)
  PROVE  \/ table' = new /\ UNCHANGED <<losses, lost>>
         \/ UNCHANGED table /\ lost' = lost \cup {b}
BY DEF Patch, Lose, AllHeard

LEMMA PatchesKeep ==
  ASSUME TypeOK, agent.at # "idle"
  PROVE  /\ \A s \in States : PatchBatch(s) =>
              /\ batch' \in [Batches -> States] /\ losses' \in 0..MaxLosses
              /\ lost' \subseteq Batches
              /\ \A c \in Batches \ {agent.b} : batch'[c] = batch[c]
              /\ lost \subseteq lost'
              /\ batch'[agent.b] = s \/ (batch' = batch /\ agent.b \in lost')
         /\ \A s \in Rows : PatchResult(s) /\ agent.pair \in Pairs =>
              /\ res' \in [Batches -> [Pairs -> Rows]] /\ losses' \in 0..MaxLosses
              /\ lost' \subseteq Batches
              /\ \A c \in Batches, q \in Pairs :
                   c # agent.b \/ q # agent.pair => res'[c][q] = res[c][q]
              /\ lost \subseteq lost'
              /\ res'[agent.b][agent.pair] = s \/ (res' = res /\ agent.b \in lost')
<1>1. agent.b \in Batches  BY WorkingAgent
<1>2. Tables  BY TypeParts
<1>3. ASSUME Lose(agent.b) \/ AllHeard
      PROVE  losses' \in 0..MaxLosses /\ lost' \subseteq Batches /\ lost \subseteq lost'
  BY <1>1, <1>2, <1>3, AlertAssumption DEF Lose, AllHeard, Tables
<1>4. Lose(agent.b) => agent.b \in lost'  BY DEF Lose
<1>5. ASSUME NEW s \in States, PatchBatch(s)
      PROVE  /\ Lose(agent.b) \/ AllHeard
             /\ batch' \in [Batches -> States]
             /\ \A c \in Batches \ {agent.b} : batch'[c] = batch[c]
             /\ batch'[agent.b] = s \/ (batch' = batch /\ Lose(agent.b))
  <2>1. CASE batch' = batch /\ Lose(agent.b)  BY <1>2, <2>1 DEF Tables
  <2>2. CASE batch' = [batch EXCEPT ![agent.b] = s] /\ AllHeard
    BY <1>1, <1>2, <2>2 DEF Tables
  <2>. QED  BY <1>5, <2>1, <2>2 DEF PatchBatch, Patch
<1>6. ASSUME NEW s \in Rows, PatchResult(s), agent.pair \in Pairs
      PROVE  /\ Lose(agent.b) \/ AllHeard
             /\ res' \in [Batches -> [Pairs -> Rows]]
             /\ \A c \in Batches, q \in Pairs :
                  c # agent.b \/ q # agent.pair => res'[c][q] = res[c][q]
             /\ res'[agent.b][agent.pair] = s \/ (res' = res /\ Lose(agent.b))
  <2>1. CASE res' = res /\ Lose(agent.b)  BY <1>2, <2>1 DEF Tables
  <2>2. CASE res' = [res EXCEPT ![agent.b][agent.pair] = s] /\ AllHeard
    BY <1>1, <1>2, <1>6, <2>2 DEF Tables
  <2>. QED  BY <1>6, <2>1, <2>2 DEF PatchResult, Patch
<1>. QED  BY <1>3, <1>4, <1>5, <1>6

\* An alert is made of the pair in hand, and counted if the batch is cancelled or
\* was.
LEMMA MadeCounts ==
  ASSUME TypeOK, agent.at # "idle", agent.pair \in Pairs, Made
  PROVE  /\ alerts' \in [Pairs -> Nat] /\ late' \in [Batches -> Nat]
         /\ alerts'[agent.pair] = alerts[agent.pair] + 1
         /\ \A q \in Pairs \ {agent.pair} : alerts'[q] = alerts[q]
         /\ \A c \in Batches \ {agent.b} : late'[c] = late[c]
         /\ late'[agent.b] = IF batch[agent.b] = "cancelled" \/ agent.b \in overruled
                             THEN late[agent.b] + 1 ELSE late[agent.b]
         /\ UNCHANGED overruled
<1>1. agent.b \in Batches  BY WorkingAgent
<1>2. alerts \in [Pairs -> Nat] /\ late \in [Batches -> Nat]  BY TypeParts DEF Tables
<1>. QED  BY <1>1, <1>2 DEF Made

\* To go on is to have heard that nobody has cancelled, or not to be heard.
LEMMA GoonHears ==
  ASSUME TypeOK, agent.at # "idle", Goon
  PROVE  /\ losses' \in 0..MaxLosses /\ lost' \subseteq Batches /\ lost \subseteq lost'
         /\ agent.b \in lost' \/ batch[agent.b] # "cancelled"
<1>1. agent.b \in Batches  BY WorkingAgent
<1>2. losses \in 0..MaxLosses /\ lost \subseteq Batches  BY TypeParts DEF Tables
<1>. QED  BY <1>1, <1>2, AlertAssumption DEF Goon, AllHeard, Lose, Seen
-----------------------------------------------------------------------------
(* Types.                                                                  *)

LEMMA InitType == Init => TypeOK
<1>. SUFFICES ASSUME Init PROVE Tables /\ agent = Idle  BY TypeParts
<1>1. NoCancel \in [at : {"none", "set", "list", "each"}, listed : SUBSET Pairs]
  BY DEF NoCancel
<1>. QED  BY <1>1, AlertAssumption DEF Init, Tables, States, Rows

LEMMA NextParts ==
  ASSUME Tables', agent' = Idle \/ (agent' \in Agents /\ Placed(agent)')
  PROVE  TypeOK'
<1>1. ASSUME agent' \in Agents PROVE agent'.at # "idle"
  BY <1>1 DEF Agents, Places
<1>2. /\ Tables' /\ agent' \in {Idle} \cup Agents
      /\ agent'.at # "idle" => Placed(agent)'
      => TypeOK'
  BY DEF TypeOK, Tables, Agents, Places, Outs, Rows, States, Placed
<1>3. agent' = Idle => agent'.at = "idle"  BY IdleAt
<1>. QED  BY <1>1, <1>2, <1>3

\* The requests of the dashboard.
LEMMA DashboardType ==
  ASSUME TypeOK, NEW b \in Batches, StartBatch(b) \/ Cancelling(b)
  PROVE  Tables' /\ agent' = agent
<1>0. Tables  BY TypeParts
<1>1. CASE StartBatch(b)  BY <1>0, <1>1 DEF StartBatch, Tables, States, Rows
<1>2. CASE AskCancel(b)
  <2>0. \A r \in [at : {"none", "set", "list", "each"}, listed : SUBSET Pairs] :
          [r EXCEPT !.at = "set"]
          \in [at : {"none", "set", "list", "each"}, listed : SUBSET Pairs]
    OBVIOUS
  <2>a. /\ cancel \in [Batches -> [at : {"none", "set", "list", "each"}, listed : SUBSET Pairs]]
        /\ cancel' = [cancel EXCEPT ![b] = [cancel[b] EXCEPT !.at = "set"]]
    BY <1>0, <1>2 DEF AskCancel, Tables
  <2>1. cancel' \in [Batches -> [at : {"none", "set", "list", "each"}, listed : SUBSET Pairs]]
    BY <2>0, <2>a
  <2>2. cancels' \in 0..MaxCancels  BY <1>0, <1>2, AlertAssumption DEF AskCancel, Tables
  <2>. QED  BY <1>0, <1>2, <2>1, <2>2 DEF AskCancel, Tables
<1>3. CASE SetCancelled(b)
  <2>1. /\ batch' = [batch EXCEPT ![b] = "cancelled"]
        /\ cancel' = [cancel EXCEPT ![b] = [cancel[b] EXCEPT !.at = "list"]]
        /\ UNCHANGED <<res, alerts, agent, cancels, losses, lost, history>>
    BY <1>3 DEF SetCancelled
  <2>2. batch' \in [Batches -> States]
    BY <1>0, <2>1 DEF Tables, States, Terminal
  <2>3. \A r \in [at : {"none", "set", "list", "each"}, listed : SUBSET Pairs] :
          [r EXCEPT !.at = "list"]
          \in [at : {"none", "set", "list", "each"}, listed : SUBSET Pairs]
    OBVIOUS
  <2>4. cancel \in [Batches -> [at : {"none", "set", "list", "each"}, listed : SUBSET Pairs]]
    BY <1>0 DEF Tables
  <2>5. cancel' \in [Batches -> [at : {"none", "set", "list", "each"}, listed : SUBSET Pairs]]
    BY <2>1, <2>3, <2>4
  <2>. QED  BY <1>0, <2>1, <2>2, <2>5 DEF Tables
<1>4. CASE ListUnfinished(b)  BY <1>0, <1>4 DEF ListUnfinished, Tables
<1>5. CASE CancelResult(b)
  <2>1. CASE cancel' = [cancel EXCEPT ![b] = NoCancel] /\ res' = res
    BY <1>0, <1>5, <2>1 DEF CancelResult, Tables, NoCancel
  <2>2. ASSUME NEW p \in cancel[b].listed,
               res' = [res EXCEPT ![b][p] = "cancelled"],
               cancel' = [cancel EXCEPT ![b].listed = @ \ {p}]
        PROVE  Tables' /\ agent' = agent
    <3>1. res' \in [Batches -> [Pairs -> Rows]]  BY <1>0, <2>2 DEF Tables, Rows
    <3>. QED  BY <1>0, <1>5, <2>2, <3>1 DEF CancelResult, Tables
  <2>. QED  BY <1>5, <2>1, <2>2 DEF CancelResult
<1>. QED  BY <1>1, <1>2, <1>3, <1>4, <1>5 DEF Cancelling

\* The agent takes a batch, and a report ends a pair.
LEMMA PollWorks ==
  ASSUME TypeOK, NEW b \in Batches, Poll(b)
  PROVE  /\ agent' \in Agents /\ Placed(agent)'
         /\ agent'.at = "check" /\ agent'.b = b /\ agent'.left = Pairs
         /\ agent'.failed = FALSE
BY AlertAssumption DEF Poll, Agents, Places, Placed, Outs, MaxClicks

LEMMA MarkWorks ==
  ASSUME TypeOK, MarkRunning
  PROVE  /\ agent' \in Agents /\ Placed(agent)'
         /\ agent'.at = "stop" /\ agent'.b = agent.b /\ agent'.left = agent.left
         /\ agent'.failed = agent.failed
<1>1. agent \in Agents /\ Placed(agent) /\ agent.at = "check"
  BY WorkingAgent DEF MarkRunning
<1>2. PICK m, p \in BOOLEAN :
        agent' = [agent EXCEPT !.at = "stop", !.mcp = m, !.playwright = p]
  BY DEF MarkRunning
<1>. QED  BY <1>1, <1>2 DEF Agents, Places, Placed

LEMMA NextPairWorks ==
  ASSUME TypeOK, agent.at = "stop", NEW p \in agent.left,
         agent' = [agent EXCEPT !.at = "start", !.pair = p]
  PROVE  /\ agent' \in Agents /\ Placed(agent)'
         /\ agent'.at = "start" /\ agent'.b = agent.b /\ agent'.left = agent.left
         /\ agent'.failed = agent.failed /\ agent'.pair = p
<1>1. agent \in Agents /\ Placed(agent)  BY WorkingAgent
<1>. QED  BY <1>1 DEF Agents, Places, Placed

LEMMA ReportWorks ==
  ASSUME TypeOK, Report
  PROVE  /\ agent' \in Agents /\ Placed(agent)'
         /\ agent'.at = IF agent'.left = {} THEN "finish" ELSE "stop"
         /\ agent'.b = agent.b /\ agent'.left = agent.left \ {agent.pair}
         /\ agent'.failed = (agent.failed \/ agent.out = "failed")
<1>1. agent \in Agents /\ Placed(agent) /\ agent.at = "report"
  BY WorkingAgent DEF Report
<1> DEFINE left == agent.left \ {agent.pair}
           to == IF left = {} THEN "finish" ELSE "stop"
           failed == agent.failed \/ agent.out = "failed"
<1>2. agent' = [agent EXCEPT !.at = to, !.left = left, !.pair = NoPair, !.clicks = 0,
                             !.out = "none", !.failed = failed]
  BY DEF Report
<1>3. /\ to \in Places /\ (to = "finish" \/ (to = "stop" /\ left # {})) /\ failed \in BOOLEAN
      /\ left \in SUBSET Pairs
  BY <1>1 DEF Places, Agents
<1>4. 0 \in 0..MaxClicks  BY DEF MaxClicks
<1>5. to = IF left = {} THEN "finish" ELSE "stop"  OBVIOUS
<1> HIDE DEF left, to, failed
<1>6. agent' \in Agents  BY <1>1, <1>2, <1>3, <1>4 DEF Agents, Outs
<1>7. /\ agent'.at = to /\ agent'.left = left /\ agent'.failed = failed
      /\ agent'.b = agent.b
  BY <1>1, <1>2 DEF Agents
<1>. QED  BY <1>3, <1>5, <1>6, <1>7 DEF Placed, left, failed

LEMMA ClickWorks ==
  ASSUME TypeOK, agent.at = "submit", agent.clicks + 1 < MaxClicks,
         agent' = [agent EXCEPT !.clicks = @ + 1]
  PROVE  /\ agent' \in Agents /\ Placed(agent)'
         /\ agent'.at = agent.at /\ agent'.b = agent.b /\ agent'.pair = agent.pair
         /\ agent'.left = agent.left /\ agent'.failed = agent.failed
<1>1. agent \in Agents /\ Placed(agent)  BY WorkingAgent
<1>. QED  BY <1>1 DEF Agents, Placed, MaxClicks

\* Where the two ways of making an alert may go next.
LEMMA FallsBack ==
  ASSUME agent \in Agents, agent.pair \in agent.left, FallBack
  PROVE  \/ Goes("browser")
         \/ Reports("failed")
BY DEF FallBack

\* The agent's steps with a pair in hand: it looks, or it submits.
LEMMA LookCases ==
  ASSUME TypeOK, McpLooks \/ BrowserLooks
  PROVE  /\ agent \in Agents /\ agent.pair \in agent.left /\ agent.left \subseteq Pairs
         /\ UNCHANGED <<res, cancel, alerts, cancels, history>>
         /\ \/ PatchBatch("cancelled") /\ agent' = Idle
            \/ /\ Goon /\ UNCHANGED batch
               /\ \/ Reports("failed") \/ Goes("browser")
                  \/ /\ alerts[agent.pair] > 0 \/ (BrowserLooks /\ Shows(agent.pair))
                     /\ Reports("skipped")
                  \/ ~(alerts[agent.pair] > 0) /\ (Goes("mcp_submit") \/ Goes("submit"))
                  \/ "blind" \in Faults /\ Goes("submit")
<1>1. CASE McpLooks
  <2>1. agent \in Agents /\ Placed(agent)  BY <1>1, WorkingAgent DEF McpLooks
  <2>2. agent.pair \in agent.left  BY <1>1, <2>1 DEF McpLooks, Placed
  <2>3. agent.left \subseteq Pairs  BY <2>1 DEF Agents
  <2>. QED  BY <1>1, <2>1, <2>2, <2>3 DEF McpLooks, Quit, FallBack, NotMade
<1>2. CASE BrowserLooks
  <2>1. agent \in Agents /\ Placed(agent)  BY <1>2, WorkingAgent DEF BrowserLooks
  <2>2. agent.pair \in agent.left  BY <1>2, <2>1 DEF BrowserLooks, Placed
  <2>3. agent.left \subseteq Pairs  BY <2>1 DEF Agents
  <2>4. ~Shows(agent.pair) => ~(alerts[agent.pair] > 0)  BY DEF Shows
  <2>. QED  BY <1>2, <2>1, <2>2, <2>3, <2>4 DEF BrowserLooks, Quit, NotMade
<1>. QED  BY <1>1, <1>2

LEMMA SubmitCases ==
  ASSUME TypeOK, McpSubmits \/ BrowserSubmits
  PROVE  /\ agent \in Agents /\ agent.pair \in agent.left /\ agent.left \subseteq Pairs
         /\ agent.at \in {"mcp_submit", "submit"}
         /\ UNCHANGED <<batch, res, cancel, cancels, losses, lost>>
         /\ \/ Made /\ (Reports("created") \/ Reports("failed") \/ Goes("browser"))
            \/ NotMade /\ (Reports("failed") \/ Goes("browser"))
            \/ /\ "slow" \in Faults /\ Made
               /\ agent.at = "submit" /\ agent.clicks + 1 < MaxClicks
               /\ agent' = [agent EXCEPT !.clicks = @ + 1]
<1>1. agent.at \in {"mcp_submit", "submit"}  BY DEF McpSubmits, BrowserSubmits
<1>2. agent \in Agents /\ Placed(agent)  BY <1>1, WorkingAgent
<1>3. agent.pair \in agent.left /\ agent.left \subseteq Pairs
  BY <1>1, <1>2 DEF Placed, Agents
<1>. QED  BY <1>1, <1>2, <1>3 DEF McpSubmits, BrowserSubmits, FallBack

LEMMA TypeStep == ASSUME TypeOK, [Next]_vars PROVE TypeOK'
<1>0. Tables /\ (agent = Idle \/ (agent \in Agents /\ Placed(agent)))  BY TypeParts
<1>1. ASSUME NEW b \in Batches, StartBatch(b) \/ Cancelling(b) PROVE TypeOK'
  BY <1>0, <1>1, DashboardType, NextParts DEF Placed
<1>2. ASSUME NEW b \in Batches, Poll(b) PROVE TypeOK'
  <2>1. Tables'  BY <1>0, <1>2 DEF Poll, Tables
  <2>. QED  BY <1>2, <2>1, PollWorks, NextParts
<1>3. CASE Unready
  <2>1. agent.at # "idle" /\ "failed" \in States  BY <1>3 DEF Unready, States, Terminal
  <2>2. Tables'  BY <1>0, <1>3, <2>1, PatchesKeep DEF Unready, Tables
  <2>. QED  BY <1>3, <2>2, NextParts DEF Unready
<1>4. CASE MarkRunning
  <2>1. agent.at # "idle" /\ "running" \in States /\ agent.b \in Batches
    BY <1>4, WorkingAgent DEF MarkRunning, States
  <2>2. Tables'  BY <1>0, <1>4, <2>1, PatchesKeep DEF MarkRunning, Tables
  <2>. QED  BY <1>4, <2>2, MarkWorks, NextParts
<1>5. CASE NextPair
  <2>1. agent.at = "stop" /\ "cancelled" \in States
    BY <1>5 DEF NextPair, States, Terminal
  <2>2. CASE PatchBatch("cancelled") /\ agent' = Idle /\ UNCHANGED <<res, cancel, alerts, cancels, history>>
    <3>1. Tables'  BY <1>0, <2>1, <2>2, PatchesKeep DEF Tables
    <3>. QED  BY <2>2, <3>1, NextParts
  <2>3. ASSUME NEW p \in agent.left, Goon, UNCHANGED <<batch, res, cancel, alerts, cancels, history>>,
               agent' = [agent EXCEPT !.at = "start", !.pair = p]
        PROVE  TypeOK'
    <3>1. Tables'  BY <1>0, <2>1, <2>3, GoonHears DEF Tables
    <3>. QED  BY <2>1, <2>3, <3>1, NextPairWorks, NextParts
  <2>. QED  BY <1>5, <2>2, <2>3 DEF NextPair, Quit
<1>6. CASE PairStarts
  <2>1. agent.at # "idle" /\ "running" \in Rows  BY <1>6 DEF PairStarts, Rows
  <2>2. agent \in Agents /\ agent.pair \in agent.left /\ agent.pair \in Pairs
    BY <1>6, <2>1, WorkingAgent DEF PairStarts, Placed, Agents
  <2>3. Tables'  BY <1>0, <1>6, <2>1, <2>2, PatchesKeep DEF PairStarts, Tables
  <2>4. agent' \in Agents /\ Placed(agent')
    BY <1>6, <2>2, GoesWorks DEF PairStarts, Places
  <2>. QED  BY <2>3, <2>4, NextParts DEF Placed
<1>7. CASE McpLooks \/ BrowserLooks
  <2>1. agent.at # "idle" /\ "cancelled" \in States
    BY <1>7 DEF McpLooks, BrowserLooks, States, Terminal
  <2>2. CASE PatchBatch("cancelled") /\ agent' = Idle
    <3>1. Tables'  BY <1>0, <1>7, <2>1, <2>2, LookCases, PatchesKeep DEF Tables
    <3>. QED  BY <2>2, <3>1, NextParts
  <2>3. CASE Goon /\ UNCHANGED batch /\ agent' # Idle
    <3>1. Tables'  BY <1>0, <1>7, <2>1, <2>3, LookCases, GoonHears DEF Tables
    <3>2. agent' \in Agents /\ Placed(agent')
      BY <1>7, <2>3, LookCases, GoesWorks, ReportsWorks DEF Places, Outs
    <3>. QED  BY <3>1, <3>2, NextParts DEF Placed
  <2>. QED  BY <1>7, <2>2, <2>3, LookCases, GoesWorks, ReportsWorks, IdleAt DEF Places, Outs, Agents
<1>8. CASE McpSubmits \/ BrowserSubmits
  <2>1. Tables'
    <3>1. CASE Made  BY <1>0, <1>8, <3>1, SubmitCases, MadeCounts DEF Tables
    <3>2. CASE NotMade  BY <1>0, <1>8, <3>2, SubmitCases DEF Tables, NotMade
    <3>. QED  BY <1>8, <3>1, <3>2, SubmitCases
  <2>2. agent' \in Agents /\ Placed(agent')
    BY <1>8, SubmitCases, GoesWorks, ReportsWorks, ClickWorks DEF Places, Outs, Placed
  <2>. QED  BY <2>1, <2>2, NextParts DEF Placed
<1>9. CASE Report
  <2>1. agent.at = "report"  BY <1>9 DEF Report
  <2>2. agent.pair \in Pairs /\ agent.out \in Rows
    BY <2>1, WorkingAgent DEF Placed, Agents, Outs, Rows
  <2>3. Tables'  BY <1>0, <1>9, <2>1, <2>2, PatchesKeep DEF Report, Tables
  <2>. QED  BY <1>9, <2>3, ReportWorks, NextParts
<1>10. CASE Finish
  <2>1. agent.at # "idle"  BY <1>10 DEF Finish
  <2>2. PICK s \in States : PatchBatch(s)  BY <1>10 DEF Finish, States, Terminal
  <2>3. Tables'  BY <1>0, <1>10, <2>1, <2>2, PatchesKeep DEF Finish, Tables
  <2>. QED  BY <1>10, <2>3, NextParts DEF Finish
<1>11. CASE Dies
  <2>1. agent.at # "idle"  BY <1>0, <1>11 DEF Dies, Agents, Places
  <2>2. agent.b \in Batches  BY <2>1, WorkingAgent
  <2>3. Tables'  BY <1>0, <1>11, <2>2, AlertAssumption DEF Dies, Lose, Tables
  <2>. QED  BY <1>11, <2>3, NextParts DEF Dies
<1>12. CASE UNCHANGED vars  BY <1>12 DEF vars, TypeOK
<1>. QED  BY <1>1, <1>2, <1>3, <1>4, <1>5, <1>6, <1>7, <1>8, <1>9, <1>10, <1>11, <1>12
          DEF Next, AgentStep

\* Every variable keeps its type, and the agent never looks for a pair that it does
\* not have left.
THEOREM TypeCorrect == Spec => []TypeOK
BY InitType, TypeStep, PTL DEF Spec
-----------------------------------------------------------------------------
(* No pair gets two alerts.                                                *)

\* An agent that is about to submit has seen that there is no alert, and nobody
\* else makes one.
OneInv ==
  /\ OneAlert
  /\ agent.at \in {"mcp_submit", "submit"} => alerts[agent.pair] = 0

LEMMA OneInit == Init => OneInv
BY IdleAt DEF Init, OneInv, OneAlert

\* Who makes alerts.
LEMMA AlertsKept ==
  ASSUME TypeOK, [Next]_vars, ~(McpSubmits \/ BrowserSubmits)
  PROVE  UNCHANGED alerts
<1>1. McpLooks \/ BrowserLooks => UNCHANGED alerts  BY LookCases
<1>2. NextPair => UNCHANGED alerts  BY DEF NextPair, Quit
<1>3. \A b \in Batches : StartBatch(b) \/ Cancelling(b) => UNCHANGED alerts
  BY DEF StartBatch, Cancelling, AskCancel, SetCancelled, ListUnfinished, CancelResult
<1>4. \A b \in Batches : Poll(b) => UNCHANGED alerts  BY DEF Poll
<1>5. /\ Unready \/ MarkRunning \/ PairStarts \/ Report \/ Finish \/ Dies => UNCHANGED alerts
      /\ UNCHANGED vars => UNCHANGED alerts
  BY DEF Unready, MarkRunning, PairStarts, Report, Finish, Dies, vars
<1>. QED  BY <1>1, <1>2, <1>3, <1>4, <1>5 DEF Next, AgentStep

\* Who may be about to submit after a step: one who has looked, or was and is still.
LEMMA SubmitsNext ==
  ASSUME TypeOK, [Next]_vars, ~(McpSubmits \/ BrowserSubmits),
         agent'.at \in {"mcp_submit", "submit"}
  PROVE  agent' = agent \/ McpLooks \/ BrowserLooks
<1>1. \A b \in Batches : StartBatch(b) \/ Cancelling(b) => UNCHANGED agent
  BY DEF StartBatch, Cancelling, AskCancel, SetCancelled, ListUnfinished, CancelResult
<1>2. \A b \in Batches : Poll(b) => agent'.at = "check"  BY PollWorks
<1>3. Unready \/ Finish \/ Dies => agent'.at = "idle"
  BY IdleAt DEF Unready, Finish, Dies
<1>4. MarkRunning => agent'.at = "stop"  BY MarkWorks
<1>5. NextPair => agent'.at \in {"idle", "start"}
  BY NextPairWorks, IdleAt DEF NextPair, Quit
<1>6. PairStarts => agent'.at \in {"mcp", "browser"}
  <2>1. PairStarts => agent \in Agents /\ agent.pair \in agent.left
    BY WorkingAgent DEF PairStarts, Placed
  <2>. QED  BY <2>1, GoesWorks DEF PairStarts, Places
<1>7. Report => agent'.at \in {"finish", "stop"}  BY ReportWorks
<1>8. UNCHANGED vars => agent' = agent  BY DEF vars
<1>. QED  BY <1>1, <1>2, <1>3, <1>4, <1>5, <1>6, <1>7, <1>8 DEF Next, AgentStep

LEMMA OneStep ==
  ASSUME TypeOK, OneInv, {"slow", "blind"} \cap Faults = {}, [Next]_vars
  PROVE  OneInv'
<1>0. alerts \in [Pairs -> Nat]  BY TypeParts DEF Tables
<1>1. CASE McpSubmits \/ BrowserSubmits
  <2>1. /\ agent.pair \in Pairs /\ agent.at # "idle" /\ alerts[agent.pair] = 0
        /\ \/ Made \/ NotMade
        /\ Reports("created") \/ Reports("failed") \/ Goes("browser")
    BY <1>1, SubmitCases DEF OneInv
  <2>2. \A q \in Pairs : alerts'[q] <= 1
    BY <1>0, <2>1, MadeCounts DEF OneInv, OneAlert, NotMade
  <2>3. agent'.at \in {"report", "browser"}
    BY <1>1, <2>1, SubmitCases, GoesWorks, ReportsWorks DEF Places, Outs
  <2>. QED  BY <2>2, <2>3 DEF OneInv, OneAlert
<1>2. CASE ~(McpSubmits \/ BrowserSubmits)
  <2>1. alerts' = alerts  BY <1>2, AlertsKept
  <2>2. ASSUME McpLooks \/ BrowserLooks, agent'.at \in {"mcp_submit", "submit"}
        PROVE  alerts[agent'.pair] = 0
    <3>1. ~(alerts[agent.pair] > 0) /\ agent'.pair = agent.pair
      BY <2>2, LookCases, GoesWorks, ReportsWorks, IdleAt DEF Places, Outs
    <3>2. agent.pair \in Pairs  BY <2>2, LookCases
    <3>. QED  BY <1>0, <3>1, <3>2
  <2>. QED  BY <1>2, <2>1, <2>2, SubmitsNext DEF OneInv, OneAlert
<1>. QED  BY <1>1, <1>2

\* OneAlert: while the dialog closes once the alert is made and the browser finds
\* the list of alerts, no pair gets a second alert, however often a batch is cut
\* off, repeated or falls back from the MCP to the browser.
THEOREM PairsHaveOneAlert ==
  ASSUME {"slow", "blind"} \cap Faults = {}
  PROVE  Spec => []OneAlert
<1>1. OneInv => OneAlert  BY DEF OneInv
<1>. QED  BY InitType, TypeStep, OneInit, OneStep, <1>1, PTL DEF Spec
-----------------------------------------------------------------------------
(* What is reported as done has its alert.                                 *)

Done == {"created", "skipped"}

DoneInv ==
  /\ \A b \in Batches, p \in Pairs : res[b][p] \in Done => alerts[p] > 0
  /\ agent.at = "report" => agent.out # "none" /\ (agent.out \in Done => alerts[agent.pair] > 0)

LEMMA DoneInit == Init => DoneInv
BY IdleAt DEF Init, DoneInv, Done

LEMMA AlertsGrow ==
  ASSUME TypeOK, [Next]_vars, NEW p \in Pairs, alerts[p] > 0
  PROVE  alerts'[p] > 0
<1>1. alerts \in [Pairs -> Nat]  BY TypeParts DEF Tables
<1>2. CASE McpSubmits \/ BrowserSubmits
  <2>1. agent.pair \in Pairs /\ agent.at # "idle" /\ (Made \/ NotMade)
    BY <1>2, SubmitCases
  <2>. QED  BY <1>1, <2>1, MadeCounts DEF NotMade
<1>. QED  BY <1>2, AlertsKept

\* Only a report says of a row that it is done.
LEMMA RowsNext ==
  ASSUME TypeOK, [Next]_vars, NEW b \in Batches, NEW p \in Pairs, res'[b][p] # res[b][p]
  PROVE  \/ Report /\ b = agent.b /\ p = agent.pair /\ res'[b][p] = agent.out
         \/ PairStarts /\ b = agent.b /\ p = agent.pair
         \/ batch[b] = "none"
         \/ cancel[b].at = "each"
<1>0. res \in [Batches -> [Pairs -> Rows]]  BY TypeParts DEF Tables
<1>1. ASSUME NEW c \in Batches, StartBatch(c) PROVE b = c /\ batch[b] = "none"
  BY <1>0, <1>1 DEF StartBatch
<1>2. ASSUME NEW c \in Batches, Cancelling(c) PROVE b = c /\ cancel[b].at = "each"
  BY <1>0, <1>2 DEF Cancelling, AskCancel, SetCancelled, ListUnfinished, CancelResult
<1>3. CASE PairStarts
  <2>1. agent.at # "idle" /\ agent.pair \in Pairs /\ "running" \in Rows
    BY <1>3, WorkingAgent DEF PairStarts, Placed, Agents, Rows
  <2>. QED  BY <1>3, <2>1, PatchesKeep DEF PairStarts
<1>4. CASE Report
  <2>1. agent.at # "idle" /\ agent.pair \in Pairs /\ agent.out \in Rows
    BY <1>4, WorkingAgent DEF Report, Placed, Agents, Rows, Outs
  <2>. QED  BY <1>4, <2>1, PatchesKeep DEF Report
<1>5. ~(McpLooks \/ BrowserLooks \/ McpSubmits \/ BrowserSubmits)
  BY LookCases, SubmitCases
<1>6. ~(Unready \/ MarkRunning \/ NextPair \/ Finish \/ Dies \/ UNCHANGED vars)
  BY DEF Unready, MarkRunning, NextPair, Quit, Finish, Dies, vars
<1>7. \A c \in Batches : ~Poll(c)  BY DEF Poll
<1>. QED  BY <1>1, <1>2, <1>3, <1>4, <1>5, <1>6, <1>7 DEF Next, AgentStep

\* Who is about to report after a step, and what.
LEMMA ReportsNext ==
  ASSUME TypeOK, [Next]_vars, agent'.at = "report", Old = {}
  PROVE  \/ agent' = agent
         \/ /\ agent'.out # "none" /\ agent'.pair \in Pairs
            /\ agent'.out \in Done => alerts'[agent'.pair] > 0
<1>0. alerts \in [Pairs -> Nat]  BY TypeParts DEF Tables
<1>1. ASSUME NEW c \in Batches PROVE ~Poll(c)  BY <1>1, PollWorks
<1>2. \A c \in Batches : StartBatch(c) \/ Cancelling(c) => UNCHANGED agent
  BY DEF StartBatch, Cancelling, AskCancel, SetCancelled, ListUnfinished, CancelResult
<1>3. ~(Unready \/ Finish \/ Dies)  BY IdleAt DEF Unready, Finish, Dies
<1>4. ~MarkRunning  BY MarkWorks
<1>5. ~NextPair  BY NextPairWorks, IdleAt DEF NextPair, Quit
<1>6. ~PairStarts
  <2>1. PairStarts => agent \in Agents /\ agent.pair \in agent.left
    BY WorkingAgent DEF PairStarts, Placed
  <2>. QED  BY <2>1, GoesWorks DEF PairStarts, Places
<1>7. ~Report  BY ReportWorks
<1>8. CASE McpLooks \/ BrowserLooks
  <2>1. agent.pair \in Pairs /\ alerts' = alerts  BY <1>8, LookCases
  <2>2. Shows(agent.pair) <=> alerts[agent.pair] > 0  BY DEF Shows
  <2>3. Reports("failed") \/ (alerts[agent.pair] > 0 /\ Reports("skipped"))
    BY <1>8, <2>2, LookCases, GoesWorks, IdleAt DEF Places
  <2>. QED  BY <1>8, <2>1, <2>3, LookCases, ReportsWorks DEF Done, Outs
<1>9. CASE McpSubmits \/ BrowserSubmits
  <2>1. agent.pair \in Pairs /\ agent.at # "idle" /\ agent.at # "report"
    BY <1>9, SubmitCases
  <2>2. Reports("failed") \/ (Made /\ Reports("created"))
    BY <1>9, <2>1, SubmitCases, GoesWorks, ClickWorks DEF Places
  <2>. QED  BY <1>0, <1>9, <2>1, <2>2, SubmitCases, ReportsWorks, MadeCounts DEF Done, Outs
<1>10. UNCHANGED vars => agent' = agent  BY DEF vars
<1>. QED  BY <1>1, <1>2, <1>3, <1>4, <1>5, <1>6, <1>7, <1>8, <1>9, <1>10 DEF Next, AgentStep

LEMMA DoneStep ==
  ASSUME TypeOK, DoneInv, Old = {}, [Next]_vars
  PROVE  DoneInv'
<1>1. ASSUME NEW b \in Batches, NEW p \in Pairs, res'[b][p] \in Done PROVE alerts'[p] > 0
  <2>1. CASE res'[b][p] = res[b][p]  BY <1>1, <2>1, AlertsGrow DEF DoneInv
  <2>2. CASE res'[b][p] # res[b][p] /\ Report
    <3>1. agent.at = "report" /\ agent.pair \in Pairs /\ agent.out \in Rows
      BY <2>2, WorkingAgent DEF Report, Placed, Agents, Rows, Outs
    <3>2. p = agent.pair /\ res'[b][p] = agent.out
      BY <2>2, <3>1, PatchesKeep DEF Report
    <3>. QED  BY <1>1, <3>1, <3>2, AlertsGrow DEF DoneInv
  <2>3. CASE res'[b][p] # res[b][p] /\ ~Report
    <3>0. res \in [Batches -> [Pairs -> Rows]]  BY TypeParts DEF Tables
    <3>1. CASE PairStarts
      <4>1. agent.at # "idle" /\ agent.pair \in Pairs /\ "running" \in Rows
        BY <3>1, WorkingAgent DEF PairStarts, Placed, Agents, Rows
      <4>. QED  BY <1>1, <2>3, <3>1, <4>1, PatchesKeep DEF PairStarts, Done
    <3>2. CASE ~PairStarts
      <4>1. \A c \in Batches, q \in Pairs : StartBatch(c) =>
              res'[c][q] = "pending" /\ \A d \in Batches \ {c} : res'[d][q] = res[d][q]
        BY <3>0 DEF StartBatch
      <4>2. ASSUME NEW c \in Batches, NEW q \in Pairs, Cancelling(c), res'[b][q] # res[b][q]
            PROVE  res'[b][q] = "cancelled"
        BY <3>0, <4>2 DEF Cancelling, AskCancel, SetCancelled, ListUnfinished, CancelResult
      <4>3. AgentStep => UNCHANGED res \/ Report \/ PairStarts
        BY LookCases, SubmitCases
           DEF AgentStep, Poll, Unready, MarkRunning, NextPair, Quit, Finish
      <4>4. Dies \/ UNCHANGED vars => UNCHANGED res  BY DEF Dies, vars
      <4>. QED  BY <1>1, <2>3, <3>2, <4>1, <4>2, <4>3, <4>4 DEF Next, Done
    <3>. QED  BY <3>1, <3>2
  <2>. QED  BY <2>1, <2>2, <2>3
<1>2. ASSUME agent'.at = "report"
      PROVE  agent'.out # "none" /\ (agent'.out \in Done => alerts'[agent'.pair] > 0)
  <2>1. CASE agent' = agent
    <3>1. agent.pair \in Pairs  BY <1>2, <2>1, WorkingAgent DEF Placed, Agents
    <3>. QED  BY <1>2, <2>1, <3>1, AlertsGrow DEF DoneInv
  <2>. QED  BY <1>2, <2>1, ReportsNext
<1>. QED  BY <1>1, <1>2 DEF DoneInv

\* DoneHasAlert: where no alert of another timeframe is left over, a pair that is
\* reported as created or skipped has its alert, whatever was lost or cancelled.
THEOREM DoneRowsHaveAlerts == ASSUME Old = {} PROVE Spec => []DoneHasAlert
<1>1. DoneInv => DoneHasAlert  BY DEF DoneInv, DoneHasAlert, Done
<1>. QED  BY InitType, TypeStep, DoneInit, DoneStep, <1>1, PTL DEF Spec
-----------------------------------------------------------------------------
(* How a step changes the agent, a batch and the history of losses.        *)

Dashboard == \E b \in Batches : StartBatch(b) \/ Cancelling(b)

LEMMA DashboardKeeps == ASSUME Dashboard PROVE UNCHANGED <<agent, alerts, losses, lost, history>>
BY DEF Dashboard, StartBatch, Cancelling, AskCancel, SetCancelled, ListUnfinished, CancelResult

\* An agent that is at work after a step has the batch it had, or has just polled.
LEMMA AgentNext ==
  ASSUME TypeOK, [Next]_vars, agent'.at # "idle"
  PROVE  \/ agent' = agent
         \/ \E b \in Batches : Poll(b)
         \/ Report
         \/ /\ AgentStep /\ agent.at \notin {"idle", "report", "finish"}
            /\ agent'.at \notin {"check", "finish"}
            /\ agent'.b = agent.b /\ agent'.left = agent.left /\ agent'.failed = agent.failed
<1>1. Dashboard \/ UNCHANGED vars => agent' = agent  BY DashboardKeeps DEF vars
<1>2. ~(Unready \/ Finish \/ Dies)  BY IdleAt DEF Unready, Finish, Dies
<1>3. MarkRunning => /\ agent.at = "check" /\ agent'.at = "stop"
                     /\ agent'.b = agent.b /\ agent'.left = agent.left
                     /\ agent'.failed = agent.failed
  BY MarkWorks DEF MarkRunning
<1>4. NextPair => /\ agent.at = "stop" /\ agent'.at = "start"
                  /\ agent'.b = agent.b /\ agent'.left = agent.left
                  /\ agent'.failed = agent.failed
  BY NextPairWorks, IdleAt DEF NextPair, Quit
<1>5. PairStarts => /\ agent.at = "start" /\ agent'.at \in {"mcp", "browser"}
                    /\ agent'.b = agent.b /\ agent'.left = agent.left
                    /\ agent'.failed = agent.failed
  <2>1. PairStarts => agent \in Agents /\ agent.pair \in agent.left
    BY WorkingAgent DEF PairStarts, Placed
  <2>. QED  BY <2>1, GoesWorks DEF PairStarts, Places
<1>6. McpLooks \/ BrowserLooks =>
        /\ agent.at \in {"mcp", "browser"} /\ agent'.at \notin {"check", "finish"}
        /\ agent'.b = agent.b /\ agent'.left = agent.left /\ agent'.failed = agent.failed
  <2>. SUFFICES ASSUME McpLooks \/ BrowserLooks
                PROVE  /\ agent'.at \notin {"check", "finish"}
                       /\ agent'.b = agent.b /\ agent'.left = agent.left
                       /\ agent'.failed = agent.failed
    BY DEF McpLooks, BrowserLooks
  <2>. QED  BY LookCases, GoesWorks, ReportsWorks, IdleAt DEF Places, Outs
<1>7. McpSubmits \/ BrowserSubmits =>
        /\ agent.at \in {"mcp_submit", "submit"} /\ agent'.at \notin {"check", "finish"}
        /\ agent'.b = agent.b /\ agent'.left = agent.left /\ agent'.failed = agent.failed
  BY SubmitCases, GoesWorks, ReportsWorks, ClickWorks DEF Places, Outs
<1>. QED  BY <1>1, <1>2, <1>3, <1>4, <1>5, <1>6, <1>7 DEF Next, AgentStep, Dashboard

\* What may become of a batch.
LEMMA BatchNext ==
  ASSUME TypeOK, [Next]_vars, NEW b \in Batches, batch'[b] # batch[b]
  PROVE  \/ batch[b] = "none" /\ batch'[b] = "queued"
         \/ batch'[b] = "cancelled" /\ (cancel[b].at = "set" \/ (b = agent.b /\ agent' = Idle))
         \/ /\ b = agent.b /\ agent.at = "check"
            /\ (MarkRunning /\ batch'[b] = "running") \/ batch'[b] = "failed"
         \/ /\ b = agent.b /\ Finish
            /\ batch'[b] = IF agent.failed THEN "failed" ELSE "completed"
<1>0. batch \in [Batches -> States]  BY TypeParts DEF Tables
<1>s. {"running", "failed", "cancelled", "completed"} \subseteq States  BY DEF States, Terminal
<1>1. ASSUME NEW c \in Batches, StartBatch(c)
      PROVE  batch[b] = "none" /\ batch'[b] = "queued"
  BY <1>0, <1>1 DEF StartBatch
<1>2. ASSUME NEW c \in Batches, Cancelling(c)
      PROVE  batch'[b] = "cancelled" /\ cancel[b].at = "set"
  BY <1>0, <1>2 DEF Cancelling, AskCancel, SetCancelled, ListUnfinished, CancelResult
<1>3. CASE Unready
  <2>1. agent.at = "check" /\ PatchBatch("failed")  BY <1>3 DEF Unready
  <2>. QED  BY <1>s, <2>1, PatchesKeep
<1>4. CASE MarkRunning
  <2>1. agent.at = "check" /\ PatchBatch("running")  BY <1>4 DEF MarkRunning
  <2>. QED  BY <1>s, <1>4, <2>1, PatchesKeep
<1>5. CASE NextPair \/ McpLooks \/ BrowserLooks
  <2>1. agent.at # "idle" /\ PatchBatch("cancelled") /\ agent' = Idle
    BY <1>5, LookCases DEF NextPair, Quit, McpLooks, BrowserLooks
  <2>. QED  BY <1>s, <2>1, PatchesKeep
<1>6. CASE Finish
  <2>1. agent.at # "idle" /\ PatchBatch(IF agent.failed THEN "failed" ELSE "completed")
    BY <1>6 DEF Finish
  <2>. QED  BY <1>s, <1>6, <2>1, PatchesKeep
<1>7. ~(McpSubmits \/ BrowserSubmits)  BY SubmitCases
<1>8. /\ ~(PairStarts \/ Report \/ Dies \/ UNCHANGED vars)
      /\ \A c \in Batches : ~Poll(c)
  BY DEF PairStarts, Report, Dies, vars, Poll
<1>. QED  BY <1>1, <1>2, <1>3, <1>4, <1>5, <1>6, <1>7, <1>8 DEF Next, AgentStep

LEMMA LostGrows == ASSUME TypeOK, [Next]_vars PROVE lost \subseteq lost'
<1>1. CASE Dashboard \/ UNCHANGED vars  BY <1>1, DashboardKeeps DEF vars
<1>2. CASE \E b \in Batches : Poll(b)  BY <1>2 DEF Poll
<1>3. CASE Unready \/ MarkRunning \/ NextPair \/ Finish
  <2>1. \A s : PatchBatch(s) => lost \subseteq lost'
    BY DEF PatchBatch, Patch, Lose, AllHeard
  <2>. QED  BY <1>3, <2>1 DEF Unready, MarkRunning, NextPair, Quit, Finish, Goon, Lose, AllHeard
<1>4. CASE PairStarts \/ Report
  BY <1>4 DEF PairStarts, Report, PatchResult, Patch, Lose, AllHeard
<1>5. CASE McpLooks \/ BrowserLooks
  BY <1>5, LookCases DEF PatchBatch, Patch, Goon, Lose, AllHeard
<1>6. CASE McpSubmits \/ BrowserSubmits  BY <1>6, SubmitCases
<1>7. CASE Dies  BY <1>7 DEF Dies, Lose
<1>. QED  BY <1>1, <1>2, <1>3, <1>4, <1>5, <1>6, <1>7 DEF Next, AgentStep, Dashboard

\* Requests to cancel are counted, and only a counted one is under way.
LEMMA CancelsNext ==
  ASSUME TypeOK, [Next]_vars
  PROVE  /\ cancels > 0 => cancels' > 0
         /\ \A b \in Batches : cancel'[b].at # "none" => cancel[b].at # "none" \/ cancels' > 0
<1>0. /\ cancels \in Nat
      /\ cancel \in [Batches -> [at : {"none", "set", "list", "each"}, listed : SUBSET Pairs]]
  BY TypeParts, AlertAssumption DEF Tables
<1>1. ASSUME NEW c \in Batches, AskCancel(c) PROVE cancels' > 0
  BY <1>0, <1>1 DEF AskCancel
<1>2. ASSUME NEW c \in Batches, StartBatch(c) \/ SetCancelled(c) \/ ListUnfinished(c) \/ CancelResult(c)
      PROVE  /\ cancels' = cancels
             /\ \A b \in Batches : cancel'[b].at # "none" => cancel[b].at # "none"
  <2>1. CASE StartBatch(c) \/ SetCancelled(c) \/ ListUnfinished(c)
    BY <1>0, <2>1 DEF StartBatch, SetCancelled, ListUnfinished
  <2>2. CASE CancelResult(c)
    BY <1>0, <2>2 DEF CancelResult, NoCancel
  <2>. QED  BY <1>2, <2>1, <2>2
<1>3. CASE ~Dashboard
  <2>1. UNCHANGED <<cancel, cancels>>
    BY <1>3, LookCases, SubmitCases
       DEF Next, AgentStep, Dashboard, Poll, Unready, MarkRunning, NextPair, Quit, PairStarts,
           Report, Finish, Dies, vars
  <2>. QED  BY <2>1
<1>. QED  BY <1>1, <1>2, <1>3 DEF Dashboard, Cancelling
-----------------------------------------------------------------------------
(* A completed batch is complete.                                          *)

RowDone(b, p) == alerts[p] > 0 /\ (res[b][p] \in Done \/ cancels > 0)

\* The batch at work is not over yet; the pairs that the agent has left behind have
\* their alerts unless one has failed; and nobody but the agent and a cancel writes
\* rows.
CompleteInv ==
  /\ \A b \in Batches : cancel[b].at # "none" => cancels > 0
  /\ agent.at # "idle" => batch[agent.b] \notin {"none", "completed"}
  /\ agent.at = "finish" => agent.left = {}
  /\ agent.at # "idle" /\ agent.b \notin lost /\ ~agent.failed =>
       \A p \in Pairs \ agent.left : RowDone(agent.b, p)
  /\ \A b \in Batches \ lost : batch[b] = "completed" => \A p \in Pairs : RowDone(b, p)

LEMMA CompleteInit == Init => CompleteInv
BY IdleAt DEF Init, CompleteInv, NoCancel

\* A row that is done stays so until the agent has the pair in hand again.
LEMMA RowDoneKept ==
  ASSUME TypeOK, CompleteInv, [Next]_vars, NEW b \in Batches, NEW p \in Pairs,
         batch[b] # "none", RowDone(b, p),
         Report \/ PairStarts => b # agent.b \/ p # agent.pair
  PROVE  RowDone(b, p)'
<1>1. alerts'[p] > 0  BY AlertsGrow DEF RowDone
<1>2. CASE cancels > 0  BY <1>1, <1>2, CancelsNext DEF RowDone
<1>3. CASE ~(cancels > 0)
  <2>1. cancel[b].at = "none"  BY <1>3 DEF CompleteInv
  <2>2. res'[b][p] = res[b][p]  BY <2>1, RowsNext
  <2>. QED  BY <1>1, <1>3, <2>2 DEF RowDone
<1>. QED  BY <1>2, <1>3

\* A report: the pair in hand is done, or has failed, or the report is lost.
LEMMA ReportDone ==
  ASSUME TypeOK, DoneInv, CompleteInv, Report, agent.b \notin lost', ~agent'.failed,
         NEW b, b = agent.b, NEW p, p = agent.pair
  PROVE  RowDone(b, p)'
<1>1. agent.at = "report" /\ agent.pair \in Pairs /\ agent.out \in Outs /\ agent.b \in Batches
  BY WorkingAgent DEF Report, Placed, Agents
<1>2. agent.out \in Done
  BY <1>1, ReportWorks DEF DoneInv, Outs, Done
<1>3. alerts'[agent.pair] > 0  BY <1>1, <1>2 DEF DoneInv, Report
<1>4. res'[agent.b][agent.pair] = agent.out
  BY <1>1, PatchesKeep DEF Report, Outs, Rows
<1>. QED  BY <1>2, <1>3, <1>4 DEF RowDone

LEMMA CompleteStep ==
  ASSUME TypeOK, DoneInv, CompleteInv, [Next]_vars
  PROVE  CompleteInv'
<1>0. agent.at # "idle" => agent.b \in Batches /\ agent.left \subseteq Pairs
  BY WorkingAgent DEF Agents
<1>1. \A b \in Batches : cancel'[b].at # "none" => cancels' > 0
  BY CancelsNext DEF CompleteInv
<1>2. ASSUME agent'.at # "idle" PROVE batch'[agent'.b] \notin {"none", "completed"}
  <2>1. CASE \E b \in Batches : Poll(b)
    <3>1. PICK b \in Batches : Poll(b)  BY <2>1
    <3>. QED  BY <3>1, PollWorks DEF Poll
  <2>2. CASE ~(\E b \in Batches : Poll(b))
    <3>1. agent'.b = agent.b /\ agent.at # "idle" /\ agent.b \in Batches
      BY <1>0, <1>2, <2>2, AgentNext, ReportWorks DEF Report
    <3>2. ~Finish  BY <1>2, IdleAt DEF Finish
    <3>. QED  BY <3>1, <3>2, BatchNext DEF CompleteInv
  <2>. QED  BY <2>1, <2>2
<1>3. agent'.at = "finish" => agent'.left = {}
  BY AgentNext, ReportWorks, PollWorks DEF CompleteInv
<1>4. ASSUME agent'.at # "idle", agent'.b \notin lost', ~agent'.failed,
             NEW p \in Pairs \ agent'.left, NEW b, b = agent'.b
      PROVE  RowDone(b, p)'
  <2>1. CASE \E c \in Batches : Poll(c)
    BY <1>4, <2>1, PollWorks
  <2>2. CASE ~(\E c \in Batches : Poll(c)) /\ Report
    <3>1. /\ agent'.b = agent.b /\ agent'.left = agent.left \ {agent.pair}
          /\ agent.at = "report" /\ ~agent.failed
      BY <1>4, <2>2, ReportWorks DEF Report
    <3>2. CASE p = agent.pair  BY <1>4, <2>2, <3>1, <3>2, ReportDone
    <3>3. CASE p # agent.pair
      <4>1. batch[agent.b] # "none" /\ agent.b \notin lost /\ agent.b \in Batches
        BY <1>0, <1>4, <3>1, LostGrows DEF CompleteInv
      <4>2. RowDone(agent.b, p)  BY <1>4, <3>1, <3>3, <4>1 DEF CompleteInv
      <4>. QED  BY <1>4, <3>1, <3>3, <4>1, <4>2, RowDoneKept
    <3>. QED  BY <3>2, <3>3
  <2>3. CASE ~(\E c \in Batches : Poll(c)) /\ ~Report
    <3>1. /\ agent'.b = agent.b /\ agent'.left = agent.left /\ agent'.failed = agent.failed
          /\ agent.at # "idle"
      BY <1>4, <2>3, AgentNext
    <3>2. batch[agent.b] # "none" /\ agent.b \notin lost /\ agent.b \in Batches
      BY <1>0, <1>4, <3>1, LostGrows DEF CompleteInv
    <3>3. RowDone(agent.b, p)  BY <1>4, <3>1, <3>2 DEF CompleteInv
    <3>4. PairStarts => agent.pair \in agent.left
      BY WorkingAgent DEF PairStarts, Placed
    <3>. QED  BY <1>4, <2>3, <3>1, <3>2, <3>3, <3>4, RowDoneKept
  <2>. QED  BY <2>1, <2>2, <2>3
<1>5. ASSUME NEW b \in Batches \ lost', batch'[b] = "completed", NEW p \in Pairs
      PROVE  RowDone(b, p)'
  <2>0. b \notin lost  BY LostGrows
  <2>1. CASE batch[b] = "completed"
    <3>1. agent.at # "idle" => agent.b # b  BY <2>1 DEF CompleteInv
    <3>2. RowDone(b, p)  BY <2>0, <2>1 DEF CompleteInv
    <3>. QED  BY <2>1, <3>1, <3>2, RowDoneKept DEF Report, PairStarts
  <2>2. CASE batch[b] # "completed"
    <3>1. Finish /\ b = agent.b /\ ~agent.failed
      BY <1>5, <2>2, BatchNext
    <3>2. agent.at = "finish" /\ agent.left = {} /\ batch[b] # "none"
      BY <3>1 DEF Finish, CompleteInv
    <3>3. RowDone(b, p)  BY <2>0, <3>1, <3>2 DEF CompleteInv
    <3>. QED  BY <3>2, <3>3, RowDoneKept DEF Report, PairStarts
  <2>. QED  BY <2>1, <2>2
<1>6. ASSUME agent'.at # "idle", agent'.b \notin lost', ~agent'.failed
      PROVE  \A p \in Pairs \ agent'.left :
               alerts'[p] > 0 /\ (res'[agent'.b][p] \in Done \/ cancels' > 0)
  BY <1>4, <1>6 DEF RowDone
<1>. QED  BY <1>1, <1>2, <1>3, <1>5, <1>6 DEF CompleteInv, RowDone

\* CompletedIsComplete: a batch whose reports all arrived is only called completed
\* with an alert for every pair, and then no row says less but one that was
\* cancelled.
THEOREM CompletedBatchesAreComplete == ASSUME Old = {} PROVE Spec => []CompletedIsComplete
<1>1. CompleteInv => CompletedIsComplete
  BY DEF CompleteInv, CompletedIsComplete, RowDone, Done
<1>. QED  BY InitType, TypeStep, DoneInit, DoneStep, CompleteInit, CompleteStep, <1>1, PTL DEF Spec
-----------------------------------------------------------------------------
(* A cancel stops the agent.                                               *)

\* Only MarkRunning writes over a cancel.
LEMMA OverruledNext ==
  ASSUME TypeOK, [Next]_vars
  PROVE  overruled \subseteq overruled' /\ (~MarkRunning => UNCHANGED overruled)
<1>1. MarkRunning => overruled \subseteq overruled'  BY DEF MarkRunning
<1>2. McpSubmits \/ BrowserSubmits => UNCHANGED overruled
  BY SubmitCases DEF Made, NotMade
<1>3. McpLooks \/ BrowserLooks => UNCHANGED overruled  BY LookCases
<1>. QED
  BY <1>1, <1>2, <1>3, DashboardKeeps
  DEF Next, AgentStep, Dashboard, Poll, Unready, NextPair, Quit, PairStarts, Report, Finish,
      Dies, vars

\* Before the agent has marked a batch as running no alert is late.  Past that, one
\* that came after the cancel leaves the batch cancelled under the agent's hands, so
\* that it does not submit another.
LateInv ==
  /\ CancelStops
  /\ \A b \in Batches \ overruled : batch[b] \in {"none", "queued"} => late[b] = 0
  /\ agent.at # "idle" /\ agent.b \notin lost \cup overruled =>
       /\ late[agent.b] = 0 \/ batch[agent.b] = "cancelled"
       /\ agent.at \in {"check", "mcp_submit", "submit"} => late[agent.b] = 0

LEMMA LateInit == Init => LateInv
BY IdleAt DEF Init, LateInv, CancelStops

LEMMA LateStep ==
  ASSUME TypeOK, LateInv, "slow" \notin Faults, [Next]_vars
  PROVE  LateInv'
<1>0. late \in [Batches -> Nat] /\ batch \in [Batches -> States]  BY TypeParts DEF Tables
<1>a. agent.at # "idle" => agent.b \in Batches /\ agent.pair \in Pairs \cup {NoPair}
  BY WorkingAgent DEF Agents
<1>1. CASE McpSubmits \/ BrowserSubmits
  <2>1. /\ agent.at \in {"mcp_submit", "submit"} /\ agent.pair \in Pairs /\ agent.b \in Batches
        /\ UNCHANGED <<batch, lost>> /\ (Made \/ NotMade)
        /\ Reports("created") \/ Reports("failed") \/ Goes("browser")
    BY <1>1, <1>a, SubmitCases
  <2>2. agent'.b = agent.b /\ agent'.at \in {"report", "browser"}
    BY <1>1, <2>1, SubmitCases, GoesWorks, ReportsWorks DEF Places, Outs
  <2>3. /\ \A c \in Batches \ {agent.b} : late'[c] = late[c]
        /\ late'[agent.b] = late[agent.b]
           \/ (late'[agent.b] = late[agent.b] + 1
               /\ (batch[agent.b] = "cancelled" \/ agent.b \in overruled))
        /\ UNCHANGED overruled
    BY <2>1, MadeCounts DEF NotMade
  <2>. QED  BY <1>0, <2>1, <2>2, <2>3 DEF LateInv, CancelStops
<1>2. CASE ~(McpSubmits \/ BrowserSubmits)
  <2>1. late' = late
    <3>1. McpLooks \/ BrowserLooks => UNCHANGED late  BY LookCases
    <3>. QED  BY <1>2, <3>1, DashboardKeeps
              DEF Next, AgentStep, Dashboard, Poll, Unready, MarkRunning, NextPair, Quit,
                  PairStarts, Report, Finish, Dies, vars
  <2>2. CancelStops'  BY <2>1, LostGrows, OverruledNext DEF LateInv, CancelStops
  <2>3. ASSUME NEW b \in Batches \ overruled', batch'[b] \in {"none", "queued"}
        PROVE  late'[b] = 0
    <3>1. batch[b] \in {"none", "queued"}  BY <2>3, BatchNext
    <3>. QED  BY <2>1, <2>3, <3>1, OverruledNext DEF LateInv
  <2>4. CASE \E b \in Batches : Poll(b)
    <3>1. PICK b \in Batches : Poll(b)  BY <2>4
    <3>2. agent'.b = b /\ batch[b] = "queued" /\ UNCHANGED overruled
      BY <3>1, PollWorks DEF Poll
    <3>3. b \notin overruled => late'[b] = 0  BY <2>1, <3>2 DEF LateInv
    <3>. QED  BY <2>2, <2>3, <3>2, <3>3 DEF LateInv
  <2>5. ASSUME ~(\E b \in Batches : Poll(b)),
               agent'.at # "idle", agent'.b \notin lost' \cup overruled'
        PROVE  /\ late'[agent'.b] = 0 \/ batch'[agent'.b] = "cancelled"
               /\ agent'.at \in {"check", "mcp_submit", "submit"} => late'[agent'.b] = 0
    <3>1. /\ agent'.b = agent.b /\ agent.at # "idle" /\ agent.b \in Batches
          /\ agent.b \notin lost \cup overruled
      BY <1>a, <2>5, AgentNext, ReportWorks, LostGrows, OverruledNext DEF Report
    <3>2. CASE agent.at = "check"  BY <2>1, <3>1, <3>2 DEF LateInv
    <3>3. CASE agent.at # "check"
      <4>1. late[agent.b] = 0 \/ batch[agent.b] = "cancelled"  BY <3>1 DEF LateInv
      <4>2. ~Finish  BY <2>5, IdleAt DEF Finish
      <4>3. batch'[agent.b] = batch[agent.b] \/ batch[agent.b] # "cancelled"
            \/ batch'[agent.b] = "cancelled"
        BY <3>1, <3>3, <4>2, BatchNext
      <4>4. ASSUME agent'.at \in {"mcp_submit", "submit"} PROVE late[agent.b] = 0
        <5>1. CASE agent' = agent  BY <3>1, <4>4, <5>1 DEF LateInv
        <5>2. CASE McpLooks \/ BrowserLooks
          <6>1. Goon  BY <4>4, <5>2, LookCases, IdleAt
          <6>2. batch[agent.b] # "cancelled"  BY <2>5, <3>1, <6>1, GoonHears
          <6>. QED  BY <4>1, <6>2
        <5>. QED  BY <1>2, <4>4, <5>1, <5>2, SubmitsNext
      <4>5. agent'.at # "check"
        BY <2>5, <3>3, AgentNext, ReportWorks
      <4>. QED  BY <2>1, <3>1, <4>1, <4>3, <4>4, <4>5
    <3>. QED  BY <3>2, <3>3
  <2>. QED  BY <2>2, <2>3, <2>4, <2>5 DEF LateInv
<1>. QED  BY <1>1, <1>2

\* CancelStops: where the dialog closes once the alert is made, the agent makes one
\* alert at most after the batch was cancelled, unless its requests are lost or it has
\* written over the cancel, as it does to one between the poll and MarkRunning.
THEOREM CancelStopsTheAgent == ASSUME "slow" \notin Faults PROVE Spec => []CancelStops
<1>1. LateInv => CancelStops  BY DEF LateInv
<1>. QED  BY InitType, TypeStep, LateInit, LateStep, <1>1, PTL DEF Spec
=============================================================================
