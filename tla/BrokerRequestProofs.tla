------------------------ MODULE BrokerRequestProofs ------------------------
(***************************************************************************)
(* Proofs about BrokerRequest for every set of clients and accounts, any   *)
(* numbers of attempts and all faults.                                     *)
(***************************************************************************)
EXTENDS BrokerRequest, TLAPS

Calls == [at : {"idle", "ask", "send", "limited", "ended"}, n : 0..MaxRetries,
          d : 0..MaxDisconnect, exc : BOOLEAN, mixed : BOOLEAN, blind : BOOLEAN,
          res : {"none", "answer", "skipped", "alerted", "unanswered"}]

\* What is true of every call's record beyond the types of its fields.
Sound(r) == r \in Calls /\ r.d <= r.n /\ (r.at = "ended" <=> r.res # "none")

Results == {"answer", "skipped", "alerted", "unanswered"}

LEMMA CallSound == TypeOK <=>
  /\ open \subseteq KeyNames
  /\ call \in [Clients -> Calls] /\ \A c \in Clients : Sound(call[c])
  /\ blamed \subseteq Accounts
  /\ late \in [Clients -> Nat]
BY DEF TypeOK, Sound, Calls

LEMMA QuietSound ==
  /\ Quiet \in Calls /\ Sound(Quiet)
  /\ Quiet.at = "idle" /\ Quiet.n = 0 /\ Quiet.d = 0 /\ Quiet.res = "none"
  /\ Quiet.exc = FALSE /\ Quiet.mixed = FALSE /\ Quiet.blind = FALSE
<1>1. 0 \in 0..MaxRetries /\ 0 \in 0..MaxDisconnect  BY RequestAssumption
<1>2. Quiet \in Calls  BY <1>1 DEF Quiet, Calls
<1>3. /\ Quiet.at = "idle" /\ Quiet.n = 0 /\ Quiet.d = 0 /\ Quiet.res = "none"
      /\ Quiet.exc = FALSE /\ Quiet.mixed = FALSE /\ Quiet.blind = FALSE
  BY DEF Quiet
<1>. QED  BY <1>2, <1>3 DEF Sound

\* A step of client c leaves the calls of the others alone.
Moved(c) ==
  /\ call' \in [Clients -> Calls] /\ Sound(call'[c])
  /\ \A e \in Clients \ {c} : call'[e] = call[e]

\* The ways in which a call goes on: it is at another place, with the same counts;
\* it is over; or it makes another attempt, and has noted why.
Placed(c, place) ==
  /\ call'[c].at = place /\ call'[c].res = "none"
  /\ call'[c].n = call[c].n /\ call'[c].d = call[c].d
  /\ call'[c].exc = call[c].exc /\ call'[c].mixed = call[c].mixed

Over(c, res) ==
  /\ call'[c].at = "ended" /\ call'[c].res = res
  /\ call'[c].n = 0 /\ call'[c].d = 0
  /\ call'[c].mixed <=> (res = "unanswered" /\ call[c].mixed)

Again(c) ==
  /\ call'[c].at = "send" /\ call'[c].res = "none"
  /\ call'[c].n = call[c].n + 1
  /\ \/ call'[c].exc
     \/ call'[c].mixed
     \/ /\ call'[c].d = call[c].d + 1
        /\ call'[c].exc = call[c].exc /\ call'[c].mixed = call[c].mixed

LEMMA PlacedSound ==
  ASSUME TypeOK, NEW c \in Clients, NEW place \in {"ask", "send", "limited"},
         call[c].at # "ended", call' = [call EXCEPT ![c].at = place]
  PROVE  Moved(c) /\ Placed(c, place) /\ call'[c].blind = call[c].blind
<1>1. call \in [Clients -> Calls] /\ call[c] \in Calls /\ Sound(call[c])  BY CallSound
<1>2. [call[c] EXCEPT !.at = place] \in Calls  BY <1>1 DEF Calls
<1>3. /\ call'[c] = [call[c] EXCEPT !.at = place] /\ call' \in [Clients -> Calls]
      /\ \A e \in Clients \ {c} : call'[e] = call[e]
  BY <1>1, <1>2
<1>4. call[c].res = "none"  BY <1>1 DEF Sound
<1>5. Placed(c, place) /\ call'[c].blind = call[c].blind
  BY <1>1, <1>3, <1>4 DEF Calls, Placed
<1>. QED  BY <1>1, <1>2, <1>3, <1>5 DEF Moved, Sound, Placed

LEMMA OverSound ==
  ASSUME TypeOK, NEW c \in Clients, NEW res \in Results, Ends(c, res)
  PROVE  Moved(c) /\ Over(c, res)
<1> DEFINE m == res = "unanswered" /\ call[c].mixed
           r == [Quiet EXCEPT !.at = "ended", !.res = res, !.mixed = m]
<1>1. m \in BOOLEAN  OBVIOUS
<1>2. call \in [Clients -> Calls]  BY CallSound
<1>3. call' = [call EXCEPT ![c] = r]  BY DEF Ends
<1> HIDE DEF m
<1>4. /\ r \in Calls
      /\ r.at = "ended" /\ r.res = res /\ r.mixed = m /\ r.d = 0 /\ r.n = 0
  BY <1>1, QuietSound DEF Calls, Results
<1>5. Sound(r)  BY <1>4 DEF Sound, Results
<1>6. /\ call' \in [Clients -> Calls] /\ call'[c] = r
      /\ \A e \in Clients \ {c} : call'[e] = call[e]
  BY <1>2, <1>3, <1>4
<1>. QED  BY <1>4, <1>5, <1>6 DEF Moved, Over, m

\* A failed attempt that is not the last one.
LEMMA AgainSound ==
  ASSUME TypeOK, NEW c \in Clients, call[c].at = "send", call[c].n # MaxRetries,
         \/ call' = [call EXCEPT ![c].n = @ + 1, ![c].exc = TRUE]
         \/ call' = [call EXCEPT ![c].n = @ + 1, ![c].mixed = TRUE]
         \/ /\ call[c].d # MaxDisconnect
            /\ call' = [call EXCEPT ![c].n = @ + 1, ![c].d = @ + 1]
  PROVE  Moved(c) /\ Again(c)
<1>1. call \in [Clients -> Calls] /\ call[c] \in Calls /\ Sound(call[c])  BY CallSound
<1>a. call[c].n \in 0..MaxRetries /\ call[c].d \in 0..MaxDisconnect
  BY <1>1 DEF Calls
<1>2. call[c].n + 1 \in 0..MaxRetries  BY <1>a, RequestAssumption
<1>3. call[c].d # MaxDisconnect => call[c].d + 1 \in 0..MaxDisconnect
  BY <1>a, RequestAssumption
<1>4. PICK r \in {[call[c] EXCEPT !.n = @ + 1, !.exc = TRUE],
                  [call[c] EXCEPT !.n = @ + 1, !.mixed = TRUE],
                  [call[c] EXCEPT !.n = @ + 1, !.d = @ + 1]} :
        /\ call' = [call EXCEPT ![c] = r]
        /\ r.d # call[c].d => call[c].d # MaxDisconnect
  BY <1>1 DEF Calls
<1>5. r \in Calls  BY <1>1, <1>2, <1>3, <1>4 DEF Calls
<1>6. /\ call'[c] = r /\ call' \in [Clients -> Calls]
      /\ \A e \in Clients \ {c} : call'[e] = call[e]
  BY <1>1, <1>4, <1>5
<1>7. call[c].res = "none"  BY <1>1 DEF Sound
<1>8. r.at = "send" /\ r.res = "none" /\ r.n = call[c].n + 1 /\ r.d \in {call[c].d, call[c].d + 1}
  BY <1>1, <1>4, <1>7 DEF Calls
<1>9. \/ r.exc
      \/ r.mixed
      \/ r.d = call[c].d + 1 /\ r.exc = call[c].exc /\ r.mixed = call[c].mixed
  BY <1>1, <1>4 DEF Calls
<1>10. r.d <= r.n  BY <1>1, <1>8, RequestAssumption DEF Sound, Calls
<1>. QED  BY <1>5, <1>6, <1>8, <1>9, <1>10 DEF Moved, Sound, Again
-----------------------------------------------------------------------------
(* The steps, in these terms.                                              *)

LEMMA BeginCases ==
  ASSUME TypeOK, NEW c \in Clients, Begin(c)
  PROVE  /\ Moved(c) /\ call[c].at = "idle"
         /\ Placed(c, IF c \in Asking THEN "ask" ELSE "send")
         /\ UNCHANGED <<open, blamed, late>>
BY PlacedSound DEF Begin

LEMMA AskCases ==
  ASSUME TypeOK, NEW c \in Clients, Ask(c)
  PROVE  /\ Moved(c) /\ UNCHANGED <<open, blamed, late>>
         /\ \/ Over(c, "skipped") /\ {KeyOf(c), Global} \cap open # {}
            \/ Placed(c, "send") /\ (KeyOf(c) \notin open \/ call'[c].blind)
<1>1. CASE {KeyOf(c), Global} \cap open # {} /\ Ends(c, "skipped")
  BY <1>1, OverSound DEF Ask, Results
<1>2. CASE {KeyOf(c), Global} \cap open = {} /\ call' = [call EXCEPT ![c].at = "send"]
  BY <1>2, PlacedSound DEF Ask
<1>3. CASE call' = [call EXCEPT ![c].at = "send", ![c].blind = TRUE]
  <2>1. call \in [Clients -> Calls] /\ call[c] \in Calls /\ Sound(call[c])  BY CallSound
  <2>2. [call[c] EXCEPT !.at = "send", !.blind = TRUE] \in Calls  BY <2>1 DEF Calls
  <2>3. /\ call'[c] = [call[c] EXCEPT !.at = "send", !.blind = TRUE]
        /\ call' \in [Clients -> Calls]
        /\ \A e \in Clients \ {c} : call'[e] = call[e]
    BY <1>3, <2>1, <2>2
  <2>4. call[c].res = "none"  BY <2>1 DEF Sound, Ask
  <2>5. Placed(c, "send") /\ call'[c].blind  BY <2>1, <2>3, <2>4 DEF Calls, Placed
  <2>. QED  BY <2>1, <2>3, <2>5 DEF Moved, Sound, Placed, Ask
<1>. QED  BY <1>1, <1>2, <1>3 DEF Ask

LEMMA AttemptCases ==
  ASSUME TypeOK, NEW c \in Clients, Attempt(c)
  PROVE  /\ Moved(c) /\ call[c].at = "send"
         /\ \/ /\ Counted(c) /\ UNCHANGED <<open, blamed>>
               /\ \/ Over(c, "answer") \/ Over(c, "alerted") \/ Again(c)
                  \/ /\ Over(c, "unanswered") /\ ~call[c].exc
                     /\ call[c].n = MaxRetries /\ call[c].d # MaxDisconnect
            \/ SetOpen(c) /\ (Placed(c, "limited") \/ Over(c, "answer"))
<1>0. call[c].at = "send"  BY DEF Attempt
<1>1. CASE Answered(c)  BY <1>0, <1>1, OverSound DEF Answered, Results
<1>2. CASE TimesOut(c)
  BY <1>0, <1>2, OverSound, AgainSound DEF TimesOut, Exhausted, Results
<1>3. CASE Limited(c)  BY <1>0, <1>3, PlacedSound DEF Limited
<1>4. CASE Disconnected(c)
  <2>1. CASE call[c].d = MaxDisconnect
    BY <1>0, <1>4, <2>1, OverSound DEF Disconnected, Results
  <2>2. CASE call[c].d # MaxDisconnect /\ call[c].n = MaxRetries
    BY <1>0, <1>4, <2>2, OverSound DEF Disconnected, Exhausted, Results
  <2>3. CASE call[c].d # MaxDisconnect /\ call[c].n # MaxRetries
    BY <1>0, <1>4, <2>3, AgainSound DEF Disconnected
  <2>. QED  BY <2>1, <2>2, <2>3
<1>5. CASE ServerError(c)
  BY <1>0, <1>5, OverSound, AgainSound DEF ServerError, Results
<1>. QED  BY <1>1, <1>2, <1>3, <1>4, <1>5 DEF Attempt

LEMMA WakesUpCases ==
  ASSUME TypeOK, NEW c \in Clients, WakesUp(c)
  PROVE  Moved(c) /\ Over(c, "answer") /\ UNCHANGED <<open, blamed, late>>
BY OverSound DEF WakesUp, Results

LEMMA ReturnCases ==
  ASSUME TypeOK, NEW c \in Clients, Return(c)
  PROVE  Moved(c) /\ call'[c] = Quiet /\ UNCHANGED <<open, blamed, late>>
<1>1. call \in [Clients -> Calls]  BY CallSound
<1>. QED  BY <1>1, QuietSound DEF Return, Moved

LEMMA KeyName == ASSUME NEW c \in Clients PROVE KeyOf(c) \in KeyNames
BY DEF KeyNames

\* The counters of late calls stay numbers.
LEMMA LateType ==
  ASSUME TypeOK, NEW c \in Clients, Counted(c) \/ SetOpen(c)
  PROVE  late' \in [Clients -> Nat]
<1>1. late \in [Clients -> Nat]  BY CallSound
<1>2. CASE Counted(c)  BY <1>1, <1>2 DEF Counted
<1>3. CASE SetOpen(c) /\ ~Counted(c)  BY <1>1, <1>3 DEF SetOpen
<1>. QED  BY <1>2, <1>3

LEMMA TypeStep == ASSUME TypeOK, [Next]_vars PROVE TypeOK'
<1>0. /\ open \subseteq KeyNames /\ blamed \subseteq Accounts /\ late \in [Clients -> Nat]
      /\ call \in [Clients -> Calls] /\ \A c \in Clients : Sound(call[c])
  BY CallSound
<1>. SUFFICES /\ open' \subseteq KeyNames /\ blamed' \subseteq Accounts
              /\ late' \in [Clients -> Nat] /\ call' \in [Clients -> Calls]
              /\ \A c \in Clients : Sound(call'[c])
  BY DEF TypeOK, Sound, Calls
<1>1. ASSUME NEW c \in Clients, Step(c)
      PROVE  /\ Moved(c)
             /\ open' \subseteq KeyNames /\ blamed' \subseteq Accounts
             /\ late' \in [Clients -> Nat]
  <2>1. CASE Begin(c)  BY <1>0, <2>1, BeginCases
  <2>2. CASE Ask(c)  BY <1>0, <2>2, AskCases
  <2>3. CASE Attempt(c)
    <3>1. Moved(c)  BY <2>3, AttemptCases
    <3>2. late' \in [Clients -> Nat]  BY <2>3, AttemptCases, LateType
    <3>3. SetOpen(c) \/ UNCHANGED <<open, blamed>>  BY <2>3, AttemptCases
    <3>. QED  BY <1>0, <3>1, <3>2, <3>3, KeyName DEF SetOpen, Accounts
  <2>4. CASE WakesUp(c)  BY <1>0, <2>4, WakesUpCases
  <2>5. CASE Return(c)  BY <1>0, <2>5, ReturnCases
  <2>. QED  BY <1>1, <2>1, <2>2, <2>3, <2>4, <2>5 DEF Step
<1>2. ASSUME NEW k \in KeyNames, Close(k)
      PROVE  open' \subseteq open /\ UNCHANGED <<call, blamed, late>>
  BY <1>2 DEF Close
<1>3. CASE UNCHANGED vars  BY <1>0, <1>3 DEF vars
<1>. QED  BY <1>0, <1>1, <1>2, <1>3 DEF Next, Moved

LEMMA InitType == Init => TypeOK
<1>. SUFFICES ASSUME Init PROVE TypeOK  OBVIOUS
<1>1. call \in [Clients -> Calls] /\ \A c \in Clients : Sound(call[c])
  BY QuietSound DEF Init
<1>. QED  BY <1>1, CallSound DEF Init

\* Every variable keeps its type: no call counts past MAX_RETRIES, and none is over
\* without a result.
THEOREM TypeCorrect == Spec => []TypeOK
BY InitType, TypeStep, PTL DEF Spec
-----------------------------------------------------------------------------
(* Who is turned away.                                                     *)

\* No two accounts share a key, and no account is called as the legacy key is.
SeparateKeys ==
  \A c, e \in Clients :
    KeyOf(c) # Global /\ (KeyOf(c) = KeyOf(e) => AccountOf[c] = AccountOf[e])

\* A key is open because somebody's account was limited.
BlamedInv ==
  /\ \A k \in open : \E e \in Clients : KeyOf(e) = k /\ AccountOf[e] \in blamed
  /\ Isolated

LEMMA BlamedInit == Init => BlamedInv
BY QuietSound DEF Init, BlamedInv, Isolated

LEMMA BlamedStep ==
  ASSUME TypeOK, BlamedInv, SeparateKeys, [Next]_vars
  PROVE  BlamedInv'
<1>1. ASSUME NEW c \in Clients, Step(c) PROVE BlamedInv'
  <2>1. CASE UNCHANGED <<open, blamed>> /\ Moved(c) /\ call'[c].res # "skipped"
    BY <2>1 DEF BlamedInv, Isolated, Moved
  <2>2. CASE SetOpen(c) /\ Moved(c) /\ call'[c].res # "skipped"
    BY <2>2 DEF SetOpen, BlamedInv, Isolated, Moved
  <2>3. CASE /\ Ask(c) /\ {KeyOf(c), Global} \cap open # {}
             /\ Moved(c) /\ UNCHANGED <<open, blamed>>
    <3>1. PICK k \in open : k = KeyOf(c) \/ k = Global  BY <2>3
    <3>2. PICK e \in Clients : KeyOf(e) = k /\ AccountOf[e] \in blamed
      BY DEF BlamedInv
    <3>3. AccountOf[c] \in blamed  BY <3>1, <3>2 DEF SeparateKeys
    <3>. QED  BY <2>3, <3>3 DEF BlamedInv, Isolated, Moved
  <2>4. Begin(c) => UNCHANGED <<open, blamed>> /\ Moved(c) /\ call'[c].res # "skipped"
    BY BeginCases DEF Placed
  <2>5. Ask(c) => /\ UNCHANGED <<open, blamed>> /\ Moved(c)
                  /\ call'[c].res # "skipped" \/ {KeyOf(c), Global} \cap open # {}
    BY AskCases DEF Placed
  <2>6. Attempt(c) => /\ UNCHANGED <<open, blamed>> \/ SetOpen(c)
                      /\ Moved(c) /\ call'[c].res # "skipped"
    BY AttemptCases DEF Placed, Over, Again
  <2>7. WakesUp(c) => UNCHANGED <<open, blamed>> /\ Moved(c) /\ call'[c].res # "skipped"
    BY WakesUpCases DEF Over
  <2>8. Return(c) => UNCHANGED <<open, blamed>> /\ Moved(c) /\ call'[c].res # "skipped"
    BY ReturnCases, QuietSound
  <2>. QED  BY <1>1, <2>1, <2>2, <2>3, <2>4, <2>5, <2>6, <2>7, <2>8 DEF Step
<1>2. ASSUME NEW k \in KeyNames, Close(k) PROVE BlamedInv'
  BY <1>2 DEF Close, BlamedInv, Isolated
<1>3. CASE UNCHANGED vars  BY <1>3 DEF vars, BlamedInv, Isolated
<1>. QED  BY <1>1, <1>2, <1>3 DEF Next

\* Isolated: where each account has a key of its own, a client is turned away only
\* if its own account was limited or stayed disconnected.
THEOREM BreakersAreIsolated == ASSUME SeparateKeys PROVE Spec => []Isolated
<1>1. BlamedInv => Isolated  BY DEF BlamedInv
<1>. QED  BY InitType, TypeStep, BlamedInit, BlamedStep, <1>1, PTL DEF Spec
-----------------------------------------------------------------------------
(* Calls that come late.                                                   *)

\* A client that has asked and not yet sent, while its key is open, has begun no
\* call since the key was opened: whoever asks now is turned away.
LateInv ==
  \A c \in Asking :
    /\ late[c] <= 1
    /\ KeyOf(c) \in open /\ call[c].at = "send" /\ call[c].n = 0 /\ ~call[c].blind
         => late[c] = 0

LEMMA LateInit == Init => LateInv
<1>. SUFFICES ASSUME Init, NEW c \in Asking PROVE late[c] <= 1 /\ late[c] = 0
  BY DEF LateInv
<1>1. c \in Clients  BY RequestAssumption
<1>2. late[c] = 0  BY <1>1 DEF Init
<1>. QED  BY <1>2

\* A step that leaves alone the breaker and the counters, and does not bring c
\* from asking to sending with the key open.
LEMMA LateQuiet ==
  ASSUME TypeOK, LateInv, NEW c \in Clients, Moved(c), UNCHANGED <<open, late>>,
         c \in Asking =>
           call'[c].at # "send" \/ KeyOf(c) \notin open \/ call'[c].blind
  PROVE  LateInv'
BY RequestAssumption DEF LateInv, Moved

LEMMA LateAttempt ==
  ASSUME TypeOK, LateInv, NEW c \in Clients, Attempt(c)
  PROVE  LateInv'
<1>1. Moved(c) /\ call[c].at = "send"  BY AttemptCases
<1>2. late \in [Clients -> Nat] /\ Asking \subseteq Clients
  BY CallSound, RequestAssumption
<1>3. call[c] \in Calls /\ call[c].n \in Nat
  BY CallSound, RequestAssumption DEF Calls
<1>4. call'[c].at # "send" \/ call'[c].n # 0
  BY <1>3, AttemptCases DEF Over, Placed, Again
<1>5. ASSUME Counted(c), NEW e \in Asking
      PROVE  /\ late'[e] <= 1 /\ (e # c => late'[e] = late[e])
  <2>1. CASE e # c  BY <1>2, <1>5, <2>1 DEF Counted, LateInv
  <2>2. CASE e = c
    <3>1. late'[c] = late[c] \/ (late'[c] = late[c] + 1 /\ late[c] = 0)
      BY <1>1, <1>2, <1>5, <2>2 DEF Counted, LateInv
    <3>. QED  BY <1>2, <2>2, <3>1 DEF LateInv
  <2>. QED  BY <2>1, <2>2
<1>6. CASE Counted(c) /\ open' = open
  BY <1>1, <1>2, <1>4, <1>5, <1>6 DEF LateInv, Moved
<1>7. CASE SetOpen(c) /\ KeyOf(c) \in open
  <2>1. Counted(c) /\ open' = open  BY <1>7 DEF SetOpen
  <2>. QED  BY <1>6, <2>1
<1>8. CASE SetOpen(c) /\ KeyOf(c) \notin open
  <2>1. \A e \in Clients : late'[e] = IF KeyOf(e) = KeyOf(c) THEN 0 ELSE late[e]
    BY <1>8 DEF SetOpen
  <2>2. open' \subseteq open \cup {KeyOf(c)}  BY <1>8 DEF SetOpen
  <2>. QED  BY <1>1, <1>2, <1>4, <2>1, <2>2 DEF LateInv, Moved
<1>. QED  BY <1>6, <1>7, <1>8, AttemptCases

LEMMA LateStep == ASSUME TypeOK, LateInv, [Next]_vars PROVE LateInv'
<1>1. ASSUME NEW c \in Clients, Step(c) PROVE LateInv'
  <2>1. CASE Begin(c)  BY <2>1, BeginCases, LateQuiet DEF Placed
  <2>2. CASE Ask(c)  BY <2>2, AskCases, LateQuiet DEF Over
  <2>3. CASE WakesUp(c)  BY <2>3, WakesUpCases, LateQuiet DEF Over
  <2>4. CASE Return(c)  BY <2>4, ReturnCases, LateQuiet, QuietSound
  <2>. QED  BY <1>1, <2>1, <2>2, <2>3, <2>4, LateAttempt DEF Step
<1>2. ASSUME NEW k \in KeyNames, Close(k) PROVE LateInv'
  BY <1>2 DEF Close, LateInv
<1>3. CASE UNCHANGED vars  BY <1>3 DEF vars, LateInv
<1>. QED  BY <1>1, <1>2, <1>3 DEF Next

\* NothingLate: whoever asks for a key begins one call at most after it was
\* opened, whichever client opened it and however often it was opened again.
THEOREM OneLateCall == Spec => []NothingLate
<1>1. LateInv => NothingLate  BY DEF LateInv, NothingLate
<1>. QED  BY InitType, TypeStep, LateInit, LateStep, <1>1, PTL DEF Spec
-----------------------------------------------------------------------------
(* Calls that fail in silence.                                             *)

\* Each attempt so far has raised, was a 5xx, or was one of the 504s.
CountInv ==
  /\ \A c \in Clients : ~call[c].exc /\ ~call[c].mixed => call[c].n = call[c].d
  /\ NoSilentFailure

LEMMA CountInit == Init => CountInv
BY QuietSound DEF Init, CountInv, NoSilentFailure

LEMMA CountMoved ==
  ASSUME TypeOK, CountInv, NEW c \in Clients, Moved(c),
         ~call'[c].exc /\ ~call'[c].mixed => call'[c].n = call'[c].d,
         call'[c].res = "unanswered" => call'[c].mixed
  PROVE  CountInv'
BY DEF CountInv, NoSilentFailure, Moved

LEMMA CountStep ==
  ASSUME TypeOK, CountInv, MaxDisconnect <= MaxRetries, [Next]_vars
  PROVE  CountInv'
<1>1. ASSUME NEW c \in Clients, Step(c) PROVE CountInv'
  <2>0. /\ call[c].n \in Nat /\ call[c].d \in Nat /\ call[c].d <= MaxDisconnect
        /\ {MaxRetries, MaxDisconnect} \subseteq Nat
    BY CallSound, RequestAssumption DEF Calls
  <2>1. ASSUME NEW place, Placed(c, place), Moved(c) PROVE CountInv'
    BY <2>1, CountMoved DEF Placed, CountInv
  <2>2. ASSUME NEW res \in Results, Over(c, res), Moved(c), res # "unanswered" \/ call[c].mixed
        PROVE  CountInv'
    BY <2>2, CountMoved DEF Over
  <2>3. ASSUME Again(c), Moved(c) PROVE CountInv'
    BY <2>0, <2>3, CountMoved DEF Again, CountInv
  <2>4. CASE Begin(c)  BY <2>1, <2>4, BeginCases
  <2>5. CASE Ask(c)  BY <2>1, <2>2, <2>5, AskCases DEF Results
  <2>6. CASE Attempt(c)
    <3>1. /\ ~call[c].exc /\ call[c].n = MaxRetries /\ call[c].d # MaxDisconnect
          => call[c].mixed
      BY <2>0 DEF CountInv
    <3>. QED  BY <2>1, <2>2, <2>3, <2>6, <3>1, AttemptCases DEF Results
  <2>7. CASE WakesUp(c)  BY <2>2, <2>7, WakesUpCases DEF Results
  <2>8. CASE Return(c)  BY <2>8, ReturnCases, QuietSound, CountMoved
  <2>. QED  BY <1>1, <2>4, <2>5, <2>6, <2>7, <2>8 DEF Step
<1>2. ASSUME NEW k \in KeyNames, Close(k) PROVE CountInv'
  BY <1>2 DEF Close, CountInv, NoSilentFailure
<1>3. CASE UNCHANGED vars  BY <1>3 DEF vars, CountInv, NoSilentFailure
<1>. QED  BY <1>1, <1>2, <1>3 DEF Next

\* NoSilentFailure: with no more attempts for 504s than there are in all, as in the
\* code, a call that is given up without an answer has sent its alert, unless a 5xx
\* of the other kind was among its attempts.
THEOREM FailuresAreHeard ==
  ASSUME MaxDisconnect <= MaxRetries
  PROVE  Spec => []NoSilentFailure
<1>1. CountInv => NoSilentFailure  BY DEF CountInv
<1>. QED  BY InitType, TypeStep, CountInit, CountStep, <1>1, PTL DEF Spec
=============================================================================
