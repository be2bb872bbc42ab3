--------------------------- MODULE BacktestTrials ---------------------------
(***************************************************************************)
(* The Bayesian search of the optimizer on one TradingView tab: run() takes *)
(* the pairs one after another, each trial applies sampled settings, waits *)
(* for the Strategy Report to be recalculated and reads it, the best trial *)
(* is replayed and published, and finished pairs go into checkpoint.json.  *)
(* TradingView is the environment: it recalculates in its own time.        *)
(* Source: scripts/optimizer: optimizer.py, tab_worker.py, result_truth.py. *)
(***************************************************************************)
EXTENDS Naturals, Sequences, Functions

CONSTANTS
  PairList,       \* self.pairs, in their order
  Settings,       \* the parameter sets the study may sample
  Found,          \* the inputs the chart had before the run
  Baseline,       \* these with the risk reset to 0.5
  Value,          \* Value[p][s]: what the report of s on p shows, as a score
  Gate,           \* the least score that may be deployed
  BacktestRange,  \* "preset" or "custom"
  Trials,         \* n_trials
  MaxFailures,    \* _MAX_CONSECUTIVE_FAILURES
  MaxAttempts,    \* _MAX_RETRIES, the attempts at one set of parameters
  MaxCrashes,     \* bound: crashes of the process
  TrialFaults,
  None

TrialFaultKinds == {
  "late",    \* a recalculation starts after the wait for it has ended
  "later",   \* ... and may be due yet when the next trial starts
  "stuck",   \* a recalculation never finishes
  "dialog",  \* the settings dialog fails an attempt
  "unread",  \* the report cannot be read or confirmed
  "blind",   \* nor its fingerprint, before or after the settings are applied
  "range",   \* the symbol or the range cannot be confirmed
  "hang",    \* a call to the page never returns
  "slow",    \* a time limit passes
  "crash",   \* the process dies and is started again
  "torn",    \* ... while it writes checkpoint.json
  "full"}    \* a write of checkpoint.json fails, which is only printed

Symbols == Range(PairList)
Inputs == Settings \cup {Found, Baseline}

Results == [params : Settings, value : Nat, replayed : BOOLEAN]

ASSUME TrialsAssumption ==
  /\ PairList \in Seq(Symbols) \ {<<>>}
  /\ Value \in [Symbols -> [Inputs -> Nat]]
  /\ Gate \in Nat \ {0}
  /\ BacktestRange \in {"preset", "custom"}
  /\ {Trials, MaxFailures, MaxAttempts} \subseteq Nat \ {0}
  /\ MaxCrashes \in Nat
  /\ TrialFaults \subseteq TrialFaultKinds
  /\ None \notin Symbols \cup Inputs \cup Results \cup Nat

VARIABLES
  chart,    \* the symbol and the inputs the tab is set to
  shown,    \* those of the report it shows
  calc,     \* the recalculation that makes the two agree
  todo,     \* positions in PairList that this process has yet to come to
  pair,     \* the pair at hand, or None
  at,       \* what its search is doing
  phase,    \* what the settings are applied for
  target,   \* the settings being applied
  attempt,  \* the attempt at them
  before,   \* results_hash_before: of the numbers, so equal numbers look the same
  sure,     \* history: the numbers could be read before and after (of "read" on)
  hung,     \* a call to the page does not return
  trial,    \* trials asked for
  fails,    \* consecutive_failures
  told,     \* what the study was told about this pair
  best,     \* best_compliant, then the result to publish; None if there is none
  checkpoint, \* the pairs that are done: checkpoint[p] is the result of p, or None
  done,     \* what a start would find of it in checkpoint.json
  byPair,   \* best_per_pair, in memory
  saved,    \* best_settings_<time>.json, written when the run is over
  rejected, \* history: pairs given up by this process
  crashes   \* crashes so far

tab == <<chart, shown, calc>>
apply == <<phase, target, attempt, before, sure>>
search == <<trial, fails, told, best>>
files == <<checkpoint, done, byPair, saved, rejected>>
searchVars == <<tab, todo, pair, at, apply, hung, search, files, crashes>>

Charts == [symbol : Symbols, inputs : Inputs]
NoResults == [p \in Symbols |-> None]

SearchTypeOK ==
  /\ chart \in Charts
  /\ shown \in Charts
  /\ calc \in {"none", "due", "overdue", "running", "stuck"}
  /\ todo \subseteq DOMAIN PairList
  /\ pair \in Symbols \cup {None}
  /\ at \in {"idle", "load", "ask", "snapshot", "dialog", "wait", "check", "read", "save",
             "end"}
  /\ phase \in {"baseline", "trial", "replay"}
  /\ target \in Inputs
  /\ attempt \in 0..MaxAttempts
  /\ before \in Nat \cup {None}
  /\ sure \in BOOLEAN
  /\ hung \in BOOLEAN
  /\ trial \in 0..Trials
  /\ fails \in 0..Trials
  /\ told \subseteq [params : Settings, value : Nat, score : Nat, sure : BOOLEAN]
  /\ best \in Results \cup {None}
  /\ {checkpoint, done, byPair, saved} \subseteq [Symbols -> Results \cup {None}]
  /\ rejected \subseteq Symbols
  /\ crashes \in 0..MaxCrashes

SearchInit ==
  /\ chart = [symbol |-> PairList[1], inputs |-> Found]
  /\ shown = chart
  /\ calc = "none"
  /\ todo = DOMAIN PairList
  /\ pair = None
  /\ at = "idle"
  /\ phase = "baseline"
  /\ target = Baseline
  /\ attempt = 0
  /\ before = None
  /\ sure = FALSE
  /\ hung = FALSE
  /\ trial = 0
  /\ fails = 0
  /\ told = {}
  /\ best = None
  /\ checkpoint = NoResults
  /\ done = NoResults
  /\ byPair = NoResults
  /\ saved = NoResults
  /\ rejected = {}
  /\ crashes = 0
-----------------------------------------------------------------------------
(* TradingView.  It recalculates from the symbol and the inputs it has when *)
(* it is finished: a change of either starts the recalculation anew.        *)

Numbers(c) == Value[c.symbol][c.inputs]

SetChart(c) == /\ chart' = c
               /\ calc' = IF c = chart THEN calc ELSE "due"
               /\ UNCHANGED shown

CalcStarts == /\ calc \in {"due", "overdue"}
              /\ calc' = "running"
              /\ UNCHANGED <<chart, shown>>

CalcEnds == /\ calc = "running"
            /\ \/ calc' = "none" /\ shown' = chart
               \/ "stuck" \in TrialFaults /\ calc' = "stuck" /\ UNCHANGED shown
            /\ UNCHANGED chart

Recalculate == /\ CalcStarts \/ CalcEnds
               /\ UNCHANGED <<todo, pair, at, apply, hung, search, files, crashes>>
-----------------------------------------------------------------------------
(* The end of a pair.                                                      *)

Searching == pair # None /\ ~hung

LeavePair == /\ at' = "idle"
             /\ pair' = None
             /\ trial' = 0
             /\ fails' = 0
             /\ told' = {}
             /\ best' = None

\* An exception out of the search: run() goes on with the next pair.
Reject == /\ LeavePair
          /\ rejected' = rejected \cup {pair}
          /\ UNCHANGED <<checkpoint, done, byPair, saved>>

\* The result is kept, and written down in the step Save.  Every sampled parameter
\* set passes the prop safety gate, whose limits the fixed defaults keep.
Publish(r) == /\ best' = r
              /\ at' = "save"
              /\ UNCHANGED <<pair, trial, fails, told, files>>
-----------------------------------------------------------------------------
(* Applying settings: _apply_params.  It counts its attempts, and gives up *)
(* differently for the baseline, a trial and the final replay.             *)

Apply(why, settings) ==
  /\ phase' = why
  /\ target' = settings
  /\ attempt' = 1
  /\ at' = "snapshot"
  /\ sure' = FALSE
  /\ UNCHANGED before

\* The study is told that the trial failed.
FailTrial == /\ at' = "ask"
             /\ fails' = fails + 1
             /\ UNCHANGED <<pair, trial, told, best, files>>

GiveUpApply ==
  CASE phase = "baseline" -> at' = "ask" /\ UNCHANGED <<pair, search, files>>
    [] phase = "trial" -> FailTrial
    [] phase = "replay" -> Reject

ApplyAgain ==
  IF attempt < MaxAttempts
  THEN /\ attempt' = attempt + 1
       /\ at' = "snapshot"
       /\ UNCHANGED <<phase, target, before, sure, pair, search, files>>
  ELSE GiveUpApply /\ UNCHANGED apply

\* _get_results_hash: a report that cannot be read has the hash of no text, which
\* is as good as any other and differs from that of all numbers.
Fingerprints == {Numbers(shown)} \cup IF "blind" \in TrialFaults THEN {None} ELSE {}

\* A recalculation that is late is over when the next trial starts, unless it
\* is later than that.
TakeSnapshot ==
  /\ Searching
  /\ at = "snapshot"
  /\ attempt = 1 => calc \in {"none", "stuck"} \/ "later" \in TrialFaults
  /\ before' \in Fingerprints
  /\ at' = "dialog"
  /\ UNCHANGED <<tab, todo, pair, phase, target, attempt, sure, hung, search, files,
                 crashes>>

\* The inputs are set and verified in the dialog; they count from Ok on.
Confirm ==
  /\ Searching
  /\ at = "dialog"
  /\ SetChart([chart EXCEPT !.inputs = target])
  /\ at' = "wait"
  /\ UNCHANGED <<todo, pair, apply, hung, search, files, crashes>>

\* It does not open, an input is not taken, or it is seen open after Ok.
DialogFails ==
  /\ "dialog" \in TrialFaults
  /\ Searching
  /\ at = "dialog"
  /\ UNCHANGED tab \/ SetChart([chart EXCEPT !.inputs = target])
  /\ ApplyAgain
  /\ UNCHANGED <<todo, hung, crashes>>

\* _wait_for_update_complete: the report stands still.  It also does while the
\* recalculation has not begun.
Wait ==
  /\ Searching
  /\ at = "wait"
  /\ \/ calc = "none" /\ UNCHANGED calc
     \/ "late" \in TrialFaults /\ calc = "due" /\ calc' = "overdue"
  /\ at' = "check"
  /\ UNCHANGED <<chart, shown, todo, pair, apply, hung, search, files, crashes>>

\* The recalculation does not end, or its report cannot be seen to stand still.
WaitExpires ==
  /\ Searching
  /\ at = "wait"
  /\ calc = "stuck" \/ "blind" \in TrialFaults
  /\ ApplyAgain
  /\ UNCHANGED <<tab, todo, hung, crashes>>

\* mutant: a report that stands still is taken to be new
IsFreshAlways(now) == TRUE

\* The numbers must have changed; the replay need not change them.
IsFresh(now) == now # before \/ phase = "replay"

Check ==
  /\ Searching
  /\ at = "check"
  /\ \E now \in Fingerprints :
       IF ~IsFresh(now)
       THEN ApplyAgain
       ELSE /\ at' = IF phase = "baseline" THEN "ask" ELSE "read"
            /\ sure' = (None \notin {before, now})
            /\ UNCHANGED <<pair, phase, target, attempt, before, search, files>>
  /\ UNCHANGED <<tab, todo, hung, crashes>>
-----------------------------------------------------------------------------
(* The search: optimize_pair_bayesian.                                     *)

StartPair ==
  /\ at = "idle"
  /\ \E i \in todo :
       /\ \A j \in todo : i <= j
       /\ todo' = todo \ {i}
       /\ pair' = PairList[i]
       /\ SetChart([chart EXCEPT !.symbol = PairList[i]])
  /\ at' = "load"
  /\ phase' = "baseline"
  /\ UNCHANGED <<target, attempt, before, sure, hung, search, files, crashes>>

\* _switch_symbol and the range: the chart is ready, or its report still loads
\* when the patience ends.  The risk is only reset if it is not the baseline's,
\* which every sampled parameter set has.
Loaded ==
  /\ Searching
  /\ at = "load"
  /\ calc \in {"none", "stuck"}
  /\ IF phase = "baseline" /\ chart.inputs = Found
     THEN Apply("baseline", Baseline)
     ELSE at' = "ask" /\ UNCHANGED apply
  /\ UNCHANGED <<tab, todo, pair, hung, search, files, crashes>>

\* At the start the pair is given up; a failed reload is only printed.
LoadFails ==
  /\ "range" \in TrialFaults
  /\ Searching
  /\ at = "load"
  /\ IF phase = "baseline"
     THEN Reject
     ELSE at' = "ask" /\ UNCHANGED <<pair, search, files>>
  /\ UNCHANGED <<tab, todo, apply, hung, crashes>>

ReloadTab ==
  /\ Searching
  /\ at = "ask"
  /\ trial < Trials
  /\ fails >= MaxFailures
  /\ fails' = 0
  /\ calc' = "due"
  /\ phase' = "trial"
  /\ at' = "load"
  /\ UNCHANGED <<chart, shown, todo, pair, target, attempt, before, sure, hung, trial,
                 told, best, files, crashes>>

Ask ==
  /\ Searching
  /\ at = "ask"
  /\ trial < Trials
  /\ fails < MaxFailures
  /\ trial' = trial + 1
  /\ \E s \in Settings : Apply("trial", s)
  /\ UNCHANGED <<tab, todo, pair, hung, fails, told, best, files, crashes>>

\* The trials are over.
Decide ==
  /\ Searching
  /\ at = "ask"
  /\ trial = Trials
  /\ IF best = None
     THEN Reject /\ UNCHANGED apply
     ELSE /\ Apply("replay", best.params)
          /\ UNCHANGED <<pair, search, files>>
  /\ UNCHANGED <<tab, todo, hung, crashes>>

\* finalize and deployment_candidate_score.  For a custom range finalize asks
\* for trade_coverage_verified, which _read_results puts down as not_applicable.
Score(confirmed) ==
  IF confirmed /\ BacktestRange = "preset" /\ Numbers(shown) >= Gate
  THEN Numbers(shown) ELSE 0

Confirmed == {TRUE} \cup IF "unread" \in TrialFaults THEN {FALSE} ELSE {}

\* mutant: the newest candidate replaces the best
IsBetterAlways(score) == score > 0

IsBetter(score) == score > IF best = None THEN 0 ELSE best.value

ReadTrial(confirmed) ==
  LET score == Score(confirmed) IN
  /\ told' = told \cup {[params |-> target, value |-> Numbers(shown), score |-> score,
                         sure |-> sure]}
  /\ best' = IF IsBetter(score)
             THEN [params |-> target, value |-> score, replayed |-> FALSE]
             ELSE best
  /\ fails' = 0
  /\ at' = "ask"
  /\ UNCHANGED <<pair, trial, files>>

\* The replay's numbers replace the trial's.
ReadReplay(confirmed) ==
  IF Score(confirmed) > 0
  THEN Publish([params |-> target, value |-> Score(confirmed), replayed |-> TRUE])
  ELSE Reject

Read ==
  /\ Searching
  /\ at = "read"
  /\ \E confirmed \in Confirmed :
       IF phase = "trial" THEN ReadTrial(confirmed) ELSE ReadReplay(confirmed)
  /\ UNCHANGED <<tab, todo, apply, hung, crashes>>

\* The symbol or the broker is not the expected one, a RuntimeError: the trial has
\* failed, and so has the replay.  Any other exception gives up the pair.
ReadFails ==
  /\ "unread" \in TrialFaults
  /\ Searching
  /\ at = "read"
  /\ (phase = "trial" /\ FailTrial) \/ Reject
  /\ UNCHANGED <<tab, todo, apply, hung, crashes>>

\* What a write of checkpoint.json leaves of it: the file is opened for writing,
\* which empties it.  run() goes on in any case.
Written(now) == {now} \cup IF "full" \in TrialFaults THEN {done, NoResults} ELSE {}

Save ==
  /\ Searching
  /\ at = "save"
  /\ checkpoint' = [checkpoint EXCEPT ![pair] = best]
  /\ done' \in Written(checkpoint')
  /\ byPair' = [byPair EXCEPT ![pair] = best]
  /\ LeavePair
  /\ UNCHANGED <<tab, todo, apply, hung, saved, rejected, crashes>>

\* save_results, and the run has ended, by an exception if it cannot write.
EndRun ==
  /\ at = "idle"
  /\ todo = {}
  /\ at' = "end"
  /\ saved' \in {byPair} \cup IF "full" \in TrialFaults THEN {saved} ELSE {}
  /\ UNCHANGED <<tab, todo, pair, apply, hung, search, checkpoint, done, byPair, rejected,
                 crashes>>
-----------------------------------------------------------------------------
(* Time limits and crashes.                                                *)

CallHangs ==
  /\ "hang" \in TrialFaults
  /\ Searching
  /\ at # "save"
  /\ hung' = TRUE
  /\ UNCHANGED <<tab, todo, pair, at, apply, search, files, crashes>>

Expired == hung \/ "slow" \in TrialFaults

\* _TRIAL_HARD_TIMEOUT, which does not cover the loading and the baseline.
TrialTimeout ==
  /\ Expired
  /\ pair # None
  /\ phase = "trial"
  /\ at \in {"snapshot", "dialog", "wait", "check", "read"}
  /\ FailTrial
  /\ hung' = FALSE
  /\ UNCHANGED <<tab, todo, apply, crashes>>

\* mutant: a limit for the trials only
InTrials == phase = "trial"

\* The steps of a pair that its limit covers: all.
InPair == at # "save"

\* n_trials * 120 s for the pair.  The best trial is published as it is; so it is
\* when _FINAL_REPLAY_TIMEOUT_SECS passes, whose TimeoutError ends up here.
PairTimeout ==
  /\ Expired
  /\ pair # None
  /\ InPair
  /\ at # "save"
  /\ IF best = None THEN Reject ELSE Publish(best)
  /\ hung' = FALSE
  /\ UNCHANGED <<tab, todo, apply, crashes>>

\* mutant: all pairs are run again
PendingAll(file) == DOMAIN PairList

\* The pairs that checkpoint.json, if it can be read, does not hold.
Pending(file) == {i \in DOMAIN PairList : file[PairList[i]] = None}

\* The tab outlives the process.
Crash ==
  /\ "crash" \in TrialFaults
  /\ crashes < MaxCrashes
  /\ pair # None
  /\ crashes' = crashes + 1
  /\ done' \in {done} \cup IF "torn" \in TrialFaults /\ at = "save" THEN {NoResults} ELSE {}
  /\ checkpoint' = done'
  /\ todo' = Pending(done')
  /\ byPair' = NoResults
  /\ rejected' = {}
  /\ hung' = FALSE
  /\ LeavePair
  /\ UNCHANGED <<tab, apply, saved>>
-----------------------------------------------------------------------------
SearchStep == \/ StartPair \/ Loaded \/ LoadFails \/ ReloadTab \/ Ask \/ Decide
              \/ TakeSnapshot \/ Confirm \/ DialogFails \/ Wait \/ WaitExpires \/ Check
              \/ Read \/ ReadFails \/ Save \/ EndRun

Timeout == TrialTimeout \/ PairTimeout

SearchNext == SearchStep \/ Recalculate \/ CallHangs \/ Timeout \/ Crash

SearchSpec == SearchInit /\ [][SearchNext]_searchVars

\* The search goes on unless a call hangs, which a limit ends, and TradingView
\* recalculates.
FairSearchSpec == /\ SearchSpec
                  /\ WF_searchVars(SearchStep)
                  /\ WF_searchVars(Recalculate)
                  /\ WF_searchVars(hung /\ Timeout)
-----------------------------------------------------------------------------
(* Properties.                                                             *)

\* Every score the study learns from is that of the parameters it is told for, if
\* the numbers could be read before and after these were applied.
TrialIsOwn == \A r \in told : r.sure /\ r.score > 0 => r.score = Value[pair][r.params]

\* "after every param application so we never read stale results" (tab_worker.py 6):
\* without that condition.
NeverStale == \A r \in told : r.score > 0 => r.score = Value[pair][r.params]

\* What is published are the parameters of the best trial the study was told of,
\* however the search of the pair came to its end.
BestIsPublished ==
  at = "save" =>
    \E b \in told : /\ b.params = best.params
                    /\ b.score > 0
                    /\ \A r \in told : r.score <= b.score

\* "Append one completed pair to checkpoint.json immediately" (optimizer.py 340):
\* the result of a finished pair stays there, and a restart does not run the pair
\* once more.
DoneStays == [][\A p \in Symbols : done[p] # None => done'[p] = done[p]]_searchVars

\* The order of things that the search keeps to.
Turns == INSTANCE PairsInTurn WITH
  Pairs   <- Symbols,
  Lossy   <- TrialFaults \cap {"torn", "full"} # {},
  result  <- checkpoint,
  kept    <- done,
  waiting <- {PairList[i] : i \in todo},
  hand    <- IF pair = None THEN {} ELSE {pair},
  refused <- rejected,
  state   <- IF at = "end" THEN "over" ELSE "open"

\* Seen from outside the pairs are searched in turn: through time limits, hanging
\* calls and restarts each is at hand by itself, has one result or is given up, a
\* restart goes on with the pairs its file does not have, and none is left over when
\* the run ends ("per-pair optimization with checkpoint/resume", optimizer.py 3).
ImplementsPairsInTurn == Turns!Spec

\* The run comes to its end although a call to the page may never return.
SearchEnds == <>(at = "end")

\* The numbers published are those of the parameters they are published with
\* (optimizer.py 790).  A late recalculation breaks it: the replay accepts numbers
\* that have not changed.
PublishedIsMeasured ==
  at = "save" => best.value = Value[pair][best.params]

\* Nothing is published that was not replayed.  A replay that takes too long is.
PublishedIsReplayed == at = "save" => best.replayed

\* A pair is given up only if no trial of it showed a deployable report.  A custom
\* range breaks it: no trial is ever trusted.
RejectedForCause ==
  [][\A p \in rejected' \ rejected : \A r \in told : r.value < Gate]_searchVars

\* What the checkpoint holds is in the settings that are written at the end.  A
\* crash breaks it: best_per_pair is not read back.
DoneIsSaved == at = "end" => \A p \in Symbols : done[p] # None => saved[p] = done[p]
=============================================================================
