---------------------------- MODULE SignalQueue ----------------------------
(***************************************************************************)
(* The way of a message from the webhook to the worker: the Redis list     *)
(* signals:default, the dead letters, the worker loop that pops, validates *)
(* and processes, and the admin endpoints that retry and discard dead      *)
(* letters.  Source: api.py, transport.py, redis_queue.py, worker.py,      *)
(* consumer_validator.py, api_admin.py.                                    *)
(***************************************************************************)
EXTENDS Naturals, Sequences, SequencesExt

CONSTANTS
  Messages,
  Malformed,  \* messages that are not JSON; they never come from the webhook
  Invalid,    \* messages that fail the schema; nor do these
  ExitOf,     \* ExitOf[m]: the entry message that exit m closes, or m itself
  Admins,     \* dead-letter requests that may be open at once
  MaxRetries, \* bound: retries of dead letters
  MaxClock,   \* bound: milliseconds the run may last
  Faults,
  Nobody      \* no message

FaultKinds == {"push",      \* rpush fails, and the list is unchanged
               "ambiguous", \* rpush fails although the list took the message
               "dead",      \* a push to the dead letters fails
               "error",     \* processing raises
               "conn",      \* processing raises a ConnectionError or OSError
               "crash"}     \* the worker process dies

ASSUME ConstantsAssumption ==
  /\ Malformed \subseteq Messages
  /\ Invalid \subseteq Messages
  /\ ExitOf \in [Messages -> Messages]
  /\ MaxRetries \in Nat
  /\ MaxClock \in Nat
  /\ Faults \subseteq FaultKinds
  /\ Nobody \notin Messages

VARIABLES
  answer,    \* answer[m]: what its sender was told: "none", "200" or "503"
  queue,     \* signals:default
  dead,      \* trading_dead_letter: a list of different letters, in order of `at'
  clock,     \* time.time() in milliseconds
  pushes,    \* pushes to the dead letters so far; makes failed_at distinct
  retries,   \* retries so far
  held,      \* the message the worker has popped
  stage,     \* what the worker is doing with it
  admin,     \* admin[c]: the dead-letter request c
  applied,   \* history: messages process_signal returned for, in order
  discarded, \* history: messages whose letter an admin discarded or cleared
  everDead,  \* history: messages that were dead letters at some time
  lost,      \* history: messages let go with nothing left of them
  doubled    \* history: messages put in a second place by a push or a retry

past == <<applied, discarded, everDead, lost, doubled>>

vars == <<answer, queue, dead, clock, pushes, retries, held, stage, admin, past>>

Letter == [id : 0..MaxClock, msg : Messages, at : Nat]

Idle == [op |-> "none"]

Request == {Idle}
  \cup [op : {"retry", "discard"}, step : {"read", "removed"}, item : Letter]

TypeOK ==
  /\ answer \in [Messages -> {"none", "200", "503"}]
  /\ queue \in Seq(Messages)
  /\ dead \subseteq Letter
  /\ clock \in 0..MaxClock
  /\ pushes \in Nat
  /\ retries \in 0..MaxRetries
  /\ held \in Messages \cup {Nobody}
  /\ stage \in {"idle", "popped", "processing"}
  /\ admin \in [Admins -> Request]
  /\ applied \in Seq(Messages)
  /\ discarded \subseteq Messages
  /\ everDead \cup lost \cup doubled \subseteq Messages

Init ==
  /\ answer = [m \in Messages |-> "none"]
  /\ queue = <<>>
  /\ dead = {}
  /\ clock = 0
  /\ pushes = 0
  /\ retries = 0
  /\ held = Nobody
  /\ stage = "idle"
  /\ admin = [c \in Admins |-> Idle]
  /\ applied = <<>>
  /\ discarded = {}
  /\ everDead = {}
  /\ lost = {}
  /\ doubled = {}
-----------------------------------------------------------------------------
(* Pushing.                                                                *)

\* push_dead_letter: the envelope holds the parsed payload, so a message that
\* is not JSON cannot get in.  The id is the current millisecond.
PushDeadUnlogged(m) ==   \* mutant: the envelope is built and not pushed
  /\ m \notin Malformed
  /\ UNCHANGED <<dead, pushes, everDead>>

PushDead(m) ==
  /\ m \notin Malformed
  /\ pushes' = pushes + 1
  /\ dead' = dead \cup {[id |-> clock, msg |-> m, at |-> pushes + 1]}
  /\ everDead' = everDead \cup {m}

DeadFails(m) == /\ m \in Malformed \/ "dead" \in Faults
                /\ UNCHANGED <<dead, pushes, everDead>>

\* rpush to the queue.  Bound: one push of a run is ambiguous.
PushOk(m) == queue' = Append(queue, m)

PushFails(m) == \/ "push" \in Faults /\ UNCHANGED queue
                \/ "ambiguous" \in Faults /\ doubled = {} /\ PushOk(m)

\* mutant: the fallback always runs
PushBoth(m) == PushOk(m) /\ PushDead(m) /\ UNCHANGED doubled

\* push_payload returns: queued, or in the dead letters instead.
PushReturns(m) ==
  \/ PushOk(m) /\ UNCHANGED <<dead, pushes, everDead, doubled>>
  \/ /\ PushFails(m)
     /\ PushDead(m)
     /\ doubled' = IF queue' = queue THEN doubled ELSE doubled \cup {m}

\* push_payload raises: the dead letters failed as well.
PushRaises(m) == PushFails(m) /\ DeadFails(m) /\ UNCHANGED doubled

\* POST /webhook.  The exit of a trade is sent after its entry.
Webhook(m) ==
  /\ m \notin Malformed \cup Invalid
  /\ answer[m] = "none"
  /\ ExitOf[m] # m => answer[ExitOf[m]] # "none"
  /\ \/ PushReturns(m) /\ answer' = [answer EXCEPT ![m] = "200"]
     \/ PushRaises(m) /\ answer' = [answer EXCEPT ![m] = "503"]
  /\ UNCHANGED <<clock, retries, held, stage, admin, applied, discarded, lost>>

\* A message that bypassed the API.
PushByHand(m) ==
  /\ m \in Malformed \cup Invalid
  /\ answer[m] = "none"
  /\ PushOk(m)
  /\ answer' = [answer EXCEPT ![m] = "200"]
  /\ UNCHANGED <<dead, clock, pushes, retries, held, stage, admin, past>>
-----------------------------------------------------------------------------
(* The worker loop.                                                        *)

\* BLPOP: the message is off the list before anything is done with it.
PopNewest ==   \* mutant: rpush with brpop
  /\ stage = "idle"
  /\ queue # <<>>
  /\ held' = Last(queue)
  /\ queue' = Front(queue)
  /\ stage' = "popped"
  /\ UNCHANGED <<answer, dead, clock, pushes, retries, admin, past>>

Pop ==
  /\ stage = "idle"
  /\ queue # <<>>
  /\ held' = Head(queue)
  /\ queue' = Tail(queue)
  /\ stage' = "popped"
  /\ UNCHANGED <<answer, dead, clock, pushes, retries, admin, past>>

Release == held' = Nobody /\ stage' = "idle"

\* The worker lets go of its message: into the dead letters, or for good.
DeadLetter == \/ PushDead(held) /\ UNCHANGED lost
              \/ DeadFails(held) /\ lost' = lost \cup {held}

Drop == lost' = lost \cup {held} /\ UNCHANGED <<dead, pushes, everDead>>

RejectOrRaise ==   \* mutant: a failing dead letter stops the loop
  /\ stage = "popped"
  /\ held \in Malformed \cup Invalid
  /\ \/ PushDead(held) /\ Release
     \/ DeadFails(held) /\ held' = held /\ stage' = "raised"
  /\ UNCHANGED <<answer, queue, clock, retries, admin, applied, discarded, lost, doubled>>

\* validate_dequeued_message: _reject dead-letters and never raises.
Reject ==
  /\ stage = "popped"
  /\ held \in Malformed \cup Invalid
  /\ DeadLetter
  /\ Release
  /\ UNCHANGED <<answer, queue, clock, retries, admin, applied, discarded, doubled>>

Validate ==
  /\ stage = "popped"
  /\ held \notin Malformed \cup Invalid
  /\ stage' = "processing"
  /\ UNCHANGED <<answer, queue, dead, clock, pushes, retries, held, admin, past>>

\* subject.process_signal returns.
Process ==
  /\ stage = "processing"
  /\ applied' = Append(applied, held)
  /\ Release
  /\ UNCHANGED <<answer, queue, dead, clock, pushes, retries, admin, discarded, everDead,
                 lost, doubled>>

\* It raises: the message is dead-lettered, if that works ...
ProcessError ==
  /\ "error" \in Faults
  /\ stage = "processing"
  /\ DeadLetter
  /\ Release
  /\ UNCHANGED <<answer, queue, clock, retries, admin, applied, discarded, doubled>>

\* ... unless it raises a connection error, which only resets the transport.
ProcessConnError ==
  /\ "conn" \in Faults
  /\ stage = "processing"
  /\ Drop
  /\ Release
  /\ UNCHANGED <<answer, queue, clock, retries, admin, applied, discarded, doubled>>

Crash ==
  /\ "crash" \in Faults
  /\ stage # "idle"
  /\ Drop
  /\ Release
  /\ UNCHANGED <<answer, queue, clock, retries, admin, applied, discarded, doubled>>
-----------------------------------------------------------------------------
(* The admin endpoints.  They run in a thread pool, and each Redis command *)
(* of pop_dead_letter_by_id and push_payload is a step.                    *)

\* lrange: a letter is found by its id, and is the first that has it.
FirstWithId == {l \in dead : \A k \in dead : k.id = l.id => l.at <= k.at}

FindLetter(c, op) ==
  /\ admin[c] = Idle
  /\ op = "retry" => retries < MaxRetries
  /\ retries' = IF op = "retry" THEN retries + 1 ELSE retries
  /\ \E l \in FirstWithId :
       admin' = [admin EXCEPT ![c] = [op |-> op, step |-> "read", item |-> l]]
  /\ UNCHANGED <<answer, queue, dead, clock, pushes, held, stage, past>>

\* lrem, whose count is not looked at: the letter may be gone already.
RemoveLetter(c) ==
  /\ admin[c] # Idle
  /\ admin[c].step = "read"
  /\ dead' = dead \ {admin[c].item}
  /\ LET m == admin[c].item.msg IN
     IF admin[c].op = "retry"
     THEN /\ admin' = [admin EXCEPT ![c].step = "removed"]
          /\ doubled' = IF dead' = dead THEN doubled \cup {m} ELSE doubled
          /\ UNCHANGED discarded
     ELSE /\ admin' = [admin EXCEPT ![c] = Idle]
          /\ discarded' = discarded \cup {m}
          /\ UNCHANGED doubled
  /\ UNCHANGED <<answer, queue, clock, pushes, retries, held, stage, applied, everDead,
                 lost>>

\* push_payload of the letter's payload; if it raises the letter is gone.
Requeue(c) ==
  /\ admin[c] # Idle
  /\ admin[c].step = "removed"
  /\ LET m == admin[c].item.msg IN
     \/ PushReturns(m) /\ UNCHANGED lost
     \/ PushRaises(m) /\ lost' = IF queue' = queue THEN lost \cup {m} ELSE lost
  /\ admin' = [admin EXCEPT ![c] = Idle]
  /\ UNCHANGED <<answer, clock, retries, held, stage, applied, discarded>>

\* clear_all_dead_letters.
Clear ==
  /\ dead # {}
  /\ dead' = {}
  /\ discarded' = discarded \cup {l.msg : l \in dead}
  /\ UNCHANGED <<answer, queue, clock, pushes, retries, held, stage, admin, applied,
                 everDead, lost, doubled>>

Tick ==
  /\ clock < MaxClock
  /\ clock' = clock + 1
  /\ UNCHANGED <<answer, queue, dead, pushes, retries, held, stage, admin, past>>
-----------------------------------------------------------------------------
WorkerStep == Pop \/ Reject \/ Validate \/ Process \/ ProcessError
              \/ ProcessConnError

AdminStep(c) == \/ \E op \in {"retry", "discard"} : FindLetter(c, op)
                \/ RemoveLetter(c)
                \/ Requeue(c)

Next ==
  \/ \E m \in Messages : Webhook(m) \/ PushByHand(m)
  \/ WorkerStep
  \/ Crash
  \/ \E c \in Admins : AdminStep(c)
  \/ Clear
  \/ Tick

Spec == Init /\ [][Next]_vars

\* The worker loop never rests while the list holds a message.
FairSpec == Spec /\ WF_vars(WorkerStep)
-----------------------------------------------------------------------------
(* Properties.                                                             *)

Requeues(c, m) ==
  admin[c] # Idle /\ admin[c].step = "removed" /\ admin[c].item.msg = m

InHands(m) == \E c \in Admins : Requeues(c, m)

IsDead(m) == \E l \in dead : l.msg = m

Somewhere(m) == \/ m \in Range(queue) \cup Range(applied) \cup discarded
                \/ IsDead(m)
                \/ held = m
                \/ InHands(m)

\* A webhook that was answered 200 is accounted for: it waits, it is being
\* processed, it was processed, or it is a dead letter until an admin drops it
\* ("so it's not lost", redis_queue.py 45).  What `lost' names is all the code
\* lets go of: a crash, a connection error, a dead letter that cannot be pushed.
NothingLost == \A m \in Messages : answer[m] = "200" => Somewhere(m) \/ m \in lost

\* A message exists once: what it is retried from is gone before it is back.
\* What `doubled' names is all the code lets exist twice: a push that failed
\* after it took effect, and a retry whose letter another retry had removed.
Copies(m) ==
  {<<"queue", i>> : i \in {j \in 1..Len(queue) : queue[j] = m}}
  \cup {<<"dead", l>> : l \in {k \in dead : k.msg = m}}
  \cup (IF held = m THEN {<<"worker", m>>} ELSE {})
  \cup {<<"admin", c>> : c \in {d \in Admins : Requeues(d, m)}}
  \cup {<<"applied", i>> : i \in {j \in 1..Len(applied) : applied[j] = m}}

OneCopy == \A m \in Messages \ doubled : \A a, b \in Copies(m) : a = b

\* An exit is processed before its entry only if the entry was a dead letter
\* for a while: the list and the single worker keep the order of the webhooks.
EntryFirst ==
  \A i, j \in 1..Len(applied) :
     i < j /\ applied[i] # applied[j] /\ ExitOf[applied[i]] = applied[j]
     => applied[j] \in everDead

\* "On failure - Dead-letters the raw message" (consumer_validator.py 10).
RejectedIsDead == [][Reject => \E l \in dead' : l.msg = held]_vars

\* A queued message is taken up: it does not wait for ever.
QueueDrains == \A m \in Messages : m \in Range(queue) ~> m \notin Range(queue)
=============================================================================
