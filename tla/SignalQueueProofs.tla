------------------------- MODULE SignalQueueProofs -------------------------
(***************************************************************************)
(* Proofs about SignalQueue for every set of messages and of dead-letter   *)
(* requests, any number of retries and all faults.                         *)
(***************************************************************************)
EXTENDS SignalQueue, SequenceTheorems, TLAPS

In(s, m) == \E i \in 1..Len(s) : s[i] = m
Once(s, m) == \A i, j \in 1..Len(s) : s[i] = m /\ s[j] = m => i = j

\* The worker holds a message exactly while it works.
HeldInv == stage = "idle" <=> held = Nobody
-----------------------------------------------------------------------------
(* Lists.                                                                  *)

\* What is in a list after an append, and that it is then there once.
LEMMA AppendIn ==
  ASSUME NEW S, NEW s \in Seq(S), NEW x \in S, NEW m
  PROVE  /\ In(Append(s, x), m) <=> In(s, m) \/ x = m
         /\ Once(s, m) /\ (x = m => ~In(s, m)) => Once(Append(s, x), m)
         /\ Append(s, x) # s
<1>1. /\ Append(s, x) \in Seq(S)
      /\ Len(Append(s, x)) = Len(s) + 1
      /\ \A i \in 1..Len(s) : Append(s, x)[i] = s[i]
      /\ Append(s, x)[Len(s) + 1] = x
  BY AppendProperties
<1>2. Len(s) \in Nat  BY LenProperties
<1> DEFINE t == Append(s, x)
<1>3. \A i \in 1..Len(t) : i \in 1..Len(s) \/ i = Len(s) + 1  BY <1>1, <1>2
<1>4. \A i \in 1..Len(s) : i \in 1..Len(t)  BY <1>1, <1>2
<1>5. Len(s) + 1 \in 1..Len(t)  BY <1>1, <1>2
<1>6. \A i \in 1..Len(s) : t[i] = s[i]  BY <1>1
<1>7. t[Len(s) + 1] = x  BY <1>1
<1>8. Len(t) # Len(s)  BY <1>1, <1>2
<1> HIDE DEF t
<1>9. In(t, m) <=> In(s, m) \/ x = m
  BY <1>3, <1>4, <1>5, <1>6, <1>7 DEF In
<1>10. ASSUME Once(s, m), x = m => ~In(s, m) PROVE Once(t, m)
  <2>1. \A i \in 1..Len(s) : t[i] = m /\ x = m => FALSE  BY <1>6, <1>10 DEF In
  <2>2. \A i, j \in 1..Len(s) : t[i] = m /\ t[j] = m => i = j
    BY <1>6, <1>10 DEF Once
  <2>3. ASSUME NEW i \in 1..Len(t), NEW j \in 1..Len(t), t[i] = m, t[j] = m
        PROVE  i = j
    BY <1>3, <1>7, <2>1, <2>2, <2>3
  <2>. QED  BY <2>3 DEF Once
<1>11. t # s  BY <1>8
<1> QED  BY <1>9, <1>10, <1>11 DEF t

\* What the head was is gone from the tail, if it was in the list once.
LEMMA TailIn ==
  ASSUME NEW S, NEW s \in Seq(S), s # <<>>, NEW m
  PROVE  /\ In(s, m) <=> In(Tail(s), m) \/ Head(s) = m
         /\ Once(s, m) => Once(Tail(s), m) /\ (Head(s) = m => ~In(Tail(s), m))
<1>1. /\ Tail(s) \in Seq(S)
      /\ Len(Tail(s)) = Len(s) - 1
      /\ \A i \in 1..Len(Tail(s)) : Tail(s)[i] = s[i + 1]
  BY HeadTailProperties
<1>2. Len(s) \in Nat \ {0}  BY EmptySeq, Zenon
<1>3. Head(s) = s[1]  BY <1>2
<1> DEFINE t == Tail(s)
           n == Len(s)
<1>4. /\ n \in Nat \ {0}
      /\ Len(t) = n - 1
      /\ \A i \in 1..(n - 1) : t[i] = s[i + 1]
  BY <1>1, <1>2
<1> HIDE DEF t, n
<1>5. \A i \in 1..n : i = 1 \/ (i - 1 \in 1..(n - 1) /\ t[i - 1] = s[i])
  <2> TAKE i \in 1..n
  <2>1. i = 1 \/ i - 1 \in 1..(n - 1)  BY <1>4
  <2>2. i - 1 \in 1..(n - 1) => t[i - 1] = s[(i - 1) + 1]  BY <1>4
  <2>3. (i - 1) + 1 = i  OBVIOUS
  <2> QED  BY <2>1, <2>2, <2>3
<1>6. In(s, m) <=> In(t, m) \/ s[1] = m
  <2>1. In(s, m) <=> \E i \in 1..n : s[i] = m  BY DEF In, n
  <2>2. In(t, m) <=> \E i \in 1..(n - 1) : t[i] = m  BY <1>4 DEF In
  <2>3. ASSUME NEW i \in 1..(n - 1), t[i] = m
        PROVE  i + 1 \in 1..n /\ s[i + 1] = m
    BY <1>4, <2>3
  <2>4. 1 \in 1..n  BY <1>4
  <2> QED  BY <1>5, <2>1, <2>2, <2>3, <2>4
<1>7. ASSUME Once(s, m) PROVE Once(t, m) /\ (s[1] = m => ~In(t, m))
  <2>1. \A i, j \in 1..n : s[i] = m /\ s[j] = m => i = j  BY <1>7 DEF Once, n
  <2>2. \A i \in 1..(n - 1) : i + 1 \in 1..n /\ t[i] = s[i + 1] /\ i + 1 # 1
    BY <1>4
  <2>3. Once(t, m)
    <3>1. SUFFICES ASSUME NEW i \in 1..(n - 1), NEW j \in 1..(n - 1), t[i] = m, t[j] = m
                   PROVE  i = j
      BY <1>4 DEF Once
    <3>2. i + 1 = j + 1  BY <2>1, <2>2, <3>1
    <3> QED  BY <3>2
  <2>4. 1 \in 1..n  BY <1>4
  <2>5. s[1] = m => ~In(t, m)  BY <1>4, <2>1, <2>2, <2>4 DEF In
  <2> QED  BY <2>3, <2>5
<1> QED  BY <1>3, <1>6, <1>7 DEF t

LEMMA InRange ==
  ASSUME NEW S, NEW s \in Seq(S), NEW m
  PROVE  m \in Range(s) <=> In(s, m)
BY LenProperties DEF Range, In

LEMMA EmptyIn == \A m : ~In(<<>>, m) /\ Once(<<>>, m)
BY EmptySeq DEF In, Once
-----------------------------------------------------------------------------
(* Types.                                                                  *)

LEMMA LetterFields ==
  ASSUME NEW l \in Letter
  PROVE  l.id \in 0..MaxClock /\ l.msg \in Messages /\ l.at \in Nat
BY DEF Letter

LEMMA RequestFields ==
  ASSUME NEW r \in Request, r # Idle
  PROVE  /\ r.op \in {"retry", "discard"}
         /\ r.step \in {"read", "removed"}
         /\ r.item \in Letter
         /\ r = [op |-> r.op, step |-> r.step, item |-> r.item]
BY DEF Request

LEMMA HeldMessage ==
  ASSUME TypeOK, stage # "idle", stage = "idle" <=> held = Nobody
  PROVE  held \in Messages
BY DEF TypeOK

LEMMA PushDeadType ==
  ASSUME TypeOK, NEW m \in Messages, PushDead(m)
  PROVE  dead' \subseteq Letter /\ pushes' \in Nat /\ everDead' \subseteq Messages
<1>1. [id |-> clock, msg |-> m, at |-> pushes + 1] \in Letter
  BY DEF TypeOK, Letter
<1> QED  BY <1>1 DEF TypeOK, PushDead

LEMMA PushOkType ==
  ASSUME TypeOK, NEW m \in Messages, PushOk(m)
  PROVE  queue' \in Seq(Messages)
BY AppendProperties DEF TypeOK, PushOk

LEMMA PushReturnsType ==
  ASSUME TypeOK, NEW m \in Messages, PushReturns(m)
  PROVE  /\ queue' \in Seq(Messages) /\ dead' \subseteq Letter /\ pushes' \in Nat
         /\ everDead' \subseteq Messages /\ doubled' \subseteq Messages
<1>1. CASE PushOk(m) /\ UNCHANGED <<dead, pushes, everDead, doubled>>
  BY <1>1, PushOkType DEF TypeOK
<1>2. CASE /\ PushFails(m) /\ PushDead(m)
           /\ doubled' = IF queue' = queue THEN doubled ELSE doubled \cup {m}
  <2>1. queue' \in Seq(Messages)  BY <1>2, PushOkType DEF TypeOK, PushFails
  <2>2. doubled' \subseteq Messages  BY <1>2 DEF TypeOK
  <2> QED  BY <1>2, <2>1, <2>2, PushDeadType
<1> QED  BY <1>1, <1>2 DEF PushReturns

LEMMA PushRaisesType ==
  ASSUME TypeOK, NEW m \in Messages, PushRaises(m)
  PROVE  /\ queue' \in Seq(Messages) /\ dead' \subseteq Letter /\ pushes' \in Nat
         /\ everDead' \subseteq Messages /\ doubled' \subseteq Messages
BY PushOkType DEF TypeOK, PushRaises, PushFails, DeadFails

LEMMA DeadLetterType ==
  ASSUME TypeOK, held \in Messages, DeadLetter
  PROVE  /\ dead' \subseteq Letter /\ pushes' \in Nat
         /\ everDead' \subseteq Messages /\ lost' \subseteq Messages
BY PushDeadType DEF TypeOK, DeadLetter, DeadFails

\* A held message is let go, wherever it goes to.
LEMMA ReleaseType ==
  ASSUME TypeOK, held \in Messages, Release, DeadLetter \/ Drop,
         UNCHANGED <<answer, queue, clock, retries, admin, applied, discarded, doubled>>
  PROVE  TypeOK'
<1>1. /\ dead' \subseteq Letter /\ pushes' \in Nat
      /\ everDead' \subseteq Messages /\ lost' \subseteq Messages
  BY DeadLetterType DEF Drop, TypeOK
<1> QED  BY <1>1 DEF TypeOK, Release

LEMMA TypeStep ==
  ASSUME TypeOK, HeldInv, [Next]_vars
  PROVE  TypeOK'
<1> USE DEF HeldInv
<1>1. ASSUME NEW m \in Messages, Webhook(m) PROVE TypeOK'
  <2>1. /\ queue' \in Seq(Messages) /\ dead' \subseteq Letter /\ pushes' \in Nat
        /\ everDead' \subseteq Messages /\ doubled' \subseteq Messages
    BY <1>1, PushReturnsType, PushRaisesType DEF Webhook
  <2>2. answer' \in [Messages -> {"none", "200", "503"}]
    BY <1>1 DEF Webhook, TypeOK
  <2> QED  BY <1>1, <2>1, <2>2 DEF Webhook, TypeOK
<1>2. ASSUME NEW m \in Messages, PushByHand(m) PROVE TypeOK'
  <2>1. queue' \in Seq(Messages)  BY <1>2, PushOkType DEF PushByHand
  <2> QED  BY <1>2, <2>1 DEF PushByHand, TypeOK, past
<1>3. CASE Pop
  <2>1. Head(queue) \in Messages /\ Tail(queue) \in Seq(Messages)
    BY <1>3, HeadTailProperties DEF Pop, TypeOK
  <2> QED  BY <1>3, <2>1 DEF Pop, TypeOK, past
<1>4. CASE Reject
  BY <1>4, ReleaseType, HeldMessage DEF Reject
<1>5. CASE Validate
  BY <1>5 DEF Validate, TypeOK, past
<1>6. CASE Process
  <2>1. held \in Messages  BY <1>6, HeldMessage DEF Process
  <2>2. applied' \in Seq(Messages)  BY <1>6, <2>1, AppendProperties DEF Process, TypeOK
  <2> QED  BY <1>6, <2>2 DEF Process, Release, TypeOK
<1>7. CASE ProcessError
  BY <1>7, ReleaseType, HeldMessage DEF ProcessError
<1>8. CASE ProcessConnError
  BY <1>8, ReleaseType, HeldMessage DEF ProcessConnError
<1>9. CASE Crash
  BY <1>9, ReleaseType, HeldMessage DEF Crash
<1>10. ASSUME NEW c \in Admins, NEW op \in {"retry", "discard"}, FindLetter(c, op)
       PROVE  TypeOK'
  <2>1. PICK l \in dead : admin' = [admin EXCEPT ![c] = [op |-> op, step |-> "read", item |-> l]]
    BY <1>10 DEF FindLetter, FirstWithId
  <2>2. [op |-> op, step |-> "read", item |-> l] \in Request
    BY DEF Request, TypeOK
  <2>3. admin' \in [Admins -> Request]  BY <2>1, <2>2 DEF TypeOK
  <2>4. retries' \in 0..MaxRetries
    BY <1>10, ConstantsAssumption DEF FindLetter, TypeOK
  <2> QED  BY <1>10, <2>3, <2>4 DEF FindLetter, TypeOK, past
<1>11. ASSUME NEW c \in Admins, RemoveLetter(c) PROVE TypeOK'
  <2>1. admin[c] \in Request /\ admin[c] # Idle  BY <1>11 DEF RemoveLetter, TypeOK
  <2>2. admin[c].item.msg \in Messages  BY <2>1, RequestFields, LetterFields
  <2>3. [admin[c] EXCEPT !.step = "removed"] \in Request
    <3>1. [admin[c] EXCEPT !.step = "removed"]
            = [op |-> admin[c].op, step |-> "removed", item |-> admin[c].item]
      BY <2>1, RequestFields
    <3> QED  BY <2>1, <3>1, RequestFields DEF Request
  <2>4. admin' \in [Admins -> Request]
    <3>1. CASE admin[c].op = "retry"
      BY <1>11, <2>3, <3>1 DEF RemoveLetter, TypeOK
    <3>2. CASE admin[c].op # "retry"
      BY <1>11, <3>2 DEF RemoveLetter, TypeOK, Request
    <3> QED  BY <3>1, <3>2
  <2>5. dead' \subseteq Letter /\ discarded' \subseteq Messages /\ doubled' \subseteq Messages
    BY <1>11, <2>2 DEF RemoveLetter, TypeOK
  <2> QED  BY <1>11, <2>4, <2>5 DEF RemoveLetter, TypeOK
<1>12. ASSUME NEW c \in Admins, Requeue(c) PROVE TypeOK'
  <2>1. admin[c] \in Request /\ admin[c] # Idle  BY <1>12 DEF Requeue, TypeOK
  <2>2. admin[c].item.msg \in Messages  BY <2>1, RequestFields, LetterFields
  <2>3. /\ queue' \in Seq(Messages) /\ dead' \subseteq Letter /\ pushes' \in Nat
        /\ everDead' \subseteq Messages /\ doubled' \subseteq Messages
    BY <1>12, <2>2, PushReturnsType, PushRaisesType DEF Requeue
  <2>4. lost' \subseteq Messages  BY <1>12, <2>2 DEF Requeue, TypeOK
  <2>5. admin' \in [Admins -> Request]  BY <1>12 DEF Requeue, TypeOK, Request
  <2> QED  BY <1>12, <2>3, <2>4, <2>5 DEF Requeue, TypeOK
<1>13. CASE Clear
  <2>1. {l.msg : l \in dead} \subseteq Messages  BY LetterFields DEF TypeOK
  <2> QED  BY <1>13, <2>1 DEF Clear, TypeOK
<1>14. CASE Tick
  BY <1>14, ConstantsAssumption DEF Tick, TypeOK, past
<1>15. CASE UNCHANGED vars
  BY <1>15 DEF vars, past, TypeOK
<1> QED  BY <1>1, <1>2, <1>3, <1>4, <1>5, <1>6, <1>7, <1>8, <1>9, <1>10, <1>11, <1>12,
            <1>13, <1>14, <1>15 DEF Next, WorkerStep, AdminStep

LEMMA HeldStep ==
  ASSUME TypeOK, HeldInv, [Next]_vars
  PROVE  HeldInv'
<1>1. CASE Pop
  <2>1. Head(queue) \in Messages  BY <1>1, HeadTailProperties DEF Pop, TypeOK
  <2> QED  BY <1>1, <2>1, ConstantsAssumption DEF Pop, HeldInv
<1>2. CASE Release
  BY <1>2 DEF Release, HeldInv
<1>3. CASE Validate
  BY <1>3 DEF Validate, HeldInv
<1>4. CASE UNCHANGED <<held, stage>>
  BY <1>4 DEF HeldInv
<1>5. Pop \/ Release \/ Validate \/ UNCHANGED <<held, stage>>
  BY DEF Next, WorkerStep, AdminStep, Webhook, PushByHand, Reject, Process, ProcessError,
         ProcessConnError, Crash, FindLetter, RemoveLetter, Requeue, Clear, Tick, vars
<1> QED  BY <1>1, <1>2, <1>3, <1>4, <1>5

LEMMA TypeInit ==
  ASSUME Init
  PROVE  TypeOK /\ HeldInv
BY ConstantsAssumption, EmptySeq DEF Init, TypeOK, HeldInv, Request

\* Every variable keeps its type; the worker holds a message exactly while it
\* works on one, so what it lets go of is always a message.
THEOREM TypeCorrect == Spec => [](TypeOK /\ HeldInv)
BY TypeInit, TypeStep, HeldStep, PTL DEF Spec
-----------------------------------------------------------------------------
(* Nothing is lost but what `lost' names.                                  *)

LEMMA PushDeadIn ==
  ASSUME NEW m, PushDead(m)
  PROVE  dead \subseteq dead' /\ \E l \in dead' : l.msg = m
<1> DEFINE l == [id |-> clock, msg |-> m, at |-> pushes + 1]
<1>1. dead' = dead \cup {l}  BY DEF PushDead
<1>2. l.msg = m  OBVIOUS
<1> QED  BY <1>1, <1>2

\* A push, whether it returns or raises, takes nothing away.
LEMMA PushKeeps ==
  ASSUME TypeOK, NEW m \in Messages, PushReturns(m) \/ PushRaises(m)
  PROVE  /\ \A x : In(queue, x) => In(queue', x)
         /\ dead \subseteq dead'
         /\ PushReturns(m) => In(queue', m) \/ \E l \in dead' : l.msg = m
         /\ queue' # queue => In(queue', m)
<1>1. PushOk(m) => (\A x : In(queue', x) <=> In(queue, x) \/ m = x)
  BY AppendIn DEF PushOk, TypeOK
<1>2. PushDead(m) => dead \subseteq dead' /\ \E l \in dead' : l.msg = m
  BY PushDeadIn
<1>3. queue' = queue \/ PushOk(m)
  BY DEF PushReturns, PushRaises, PushFails
<1>4. dead' = dead \/ PushDead(m)
  BY DEF PushReturns, PushRaises, DeadFails
<1>5. PushReturns(m) => PushOk(m) \/ PushDead(m)
  BY DEF PushReturns
<1> QED  BY <1>1, <1>2, <1>3, <1>4, <1>5

\* Where a message may be.
Kept(m) == \/ In(queue, m) \/ In(applied, m) \/ m \in discarded
           \/ IsDead(m) \/ held = m \/ InHands(m) \/ m \in lost

KeptInv == \A m \in Messages : answer[m] = "200" => Kept(m)

LEMMA KeptIsNothingLost ==
  ASSUME TypeOK
  PROVE  KeptInv <=> NothingLost
BY InRange DEF TypeOK, KeptInv, Kept, NothingLost, Somewhere

\* The worker lets go of its message: it is a dead letter, or lost.
LEMMA ReleaseKeeps ==
  ASSUME TypeOK, Release, DeadLetter \/ Drop, NEW m \in Messages, Kept(m),
         UNCHANGED <<answer, queue, clock, retries, admin, applied, discarded, doubled>>
  PROVE  Kept(m)'
<1>1. dead \subseteq dead' /\ lost \subseteq lost'
  BY DEF DeadLetter, Drop, DeadFails, PushDead
<1>2. ASSUME held = m PROVE m \in lost' \/ \E l \in dead' : l.msg = m
  <2>1. PushDead(m) \/ lost' = lost \cup {m}  BY <1>2 DEF DeadLetter, Drop
  <2> QED  BY <2>1, PushDeadIn
<1>3. InHands(m) => InHands(m)'  BY DEF InHands, Requeues
<1> QED  BY <1>1, <1>2, <1>3 DEF Kept, IsDead

LEMMA KeptStep ==
  ASSUME TypeOK, HeldInv, KeptInv, [Next]_vars
  PROVE  KeptInv'
<1> SUFFICES ASSUME NEW m \in Messages, answer'[m] = "200"
             PROVE  Kept(m)'
  BY DEF KeptInv
<1>0. answer[m] = "200" => Kept(m)  BY DEF KeptInv
<1>1. ASSUME NEW x \in Messages, Webhook(x) PROVE Kept(m)'
  <2>1. /\ \A y : In(queue, y) => In(queue', y)
        /\ dead \subseteq dead'
        /\ PushReturns(x) => In(queue', x) \/ \E l \in dead' : l.msg = x
    BY <1>1, PushKeeps DEF Webhook
  <2>2. CASE m = x
    <3>1. PushReturns(x)  BY <1>1, <2>2 DEF Webhook, TypeOK
    <3> QED  BY <2>1, <2>2, <3>1 DEF Kept, IsDead
  <2>3. CASE m # x
    <3>1. answer[m] = "200"  BY <1>1, <2>3 DEF Webhook, TypeOK
    <3>2. InHands(m) => InHands(m)'  BY <1>1 DEF Webhook, InHands, Requeues
    <3> QED  BY <1>0, <1>1, <2>1, <3>1, <3>2 DEF Kept, IsDead, Webhook
  <2> QED  BY <2>2, <2>3
<1>2. ASSUME NEW x \in Messages, PushByHand(x) PROVE Kept(m)'
  <2>1. \A y : In(queue', y) <=> In(queue, y) \/ x = y
    BY <1>2, AppendIn DEF PushByHand, PushOk, TypeOK
  <2>2. m = x \/ answer[m] = "200"  BY <1>2 DEF PushByHand, TypeOK
  <2>3. InHands(m) => InHands(m)'  BY <1>2 DEF PushByHand, InHands, Requeues
  <2> QED  BY <1>0, <1>2, <2>1, <2>2, <2>3 DEF Kept, IsDead, PushByHand, past
<1>3. CASE Pop
  <2>1. In(queue, m) <=> In(queue', m) \/ held' = m
    BY <1>3, TailIn DEF Pop, TypeOK
  <2>2. held # m  BY <1>3, ConstantsAssumption DEF Pop, HeldInv
  <2>3. InHands(m) => InHands(m)'  BY <1>3 DEF Pop, InHands, Requeues
  <2> QED  BY <1>0, <1>3, <2>1, <2>2, <2>3 DEF Pop, Kept, IsDead, past
<1>4. CASE Reject
  BY <1>0, <1>4, ReleaseKeeps DEF Reject
<1>5. CASE Validate
  <2>1. InHands(m) => InHands(m)'  BY <1>5 DEF Validate, InHands, Requeues
  <2> QED  BY <1>0, <1>5, <2>1 DEF Validate, Kept, IsDead, past
<1>6. CASE Process
  <2>1. held \in Messages  BY <1>6, HeldMessage DEF Process, HeldInv
  <2>2. In(applied', m) <=> In(applied, m) \/ held = m
    BY <1>6, <2>1, AppendIn DEF Process, TypeOK
  <2>3. InHands(m) => InHands(m)'  BY <1>6 DEF Process, InHands, Requeues
  <2> QED  BY <1>0, <1>6, <2>2, <2>3 DEF Process, Kept, IsDead
<1>7. CASE ProcessError
  BY <1>0, <1>7, ReleaseKeeps DEF ProcessError
<1>8. CASE ProcessConnError
  BY <1>0, <1>8, ReleaseKeeps DEF ProcessConnError
<1>9. CASE Crash
  BY <1>0, <1>9, ReleaseKeeps DEF Crash
<1>10. ASSUME NEW c \in Admins, NEW op \in {"retry", "discard"}, FindLetter(c, op)
       PROVE  Kept(m)'
  <2>1. InHands(m) => InHands(m)'
    BY <1>10 DEF FindLetter, InHands, Requeues, TypeOK
  <2> QED  BY <1>0, <1>10, <2>1 DEF FindLetter, Kept, IsDead, past
<1>11. ASSUME NEW c \in Admins, RemoveLetter(c) PROVE Kept(m)'
  <2>1. admin[c] \in Request /\ admin[c] # Idle  BY <1>11 DEF RemoveLetter, TypeOK
  <2>2. /\ Kept(m)
        /\ dead' = dead \ {admin[c].item}
        /\ UNCHANGED <<answer, queue, held, applied, lost>>
        /\ discarded \subseteq discarded'
    BY <1>0, <1>11 DEF RemoveLetter
  <2>3. CASE admin[c].op = "retry"
    <3>1. admin' = [admin EXCEPT ![c].step = "removed"]
      BY <1>11, <2>3 DEF RemoveLetter
    <3>2. \A d \in Admins \ {c} : admin'[d] = admin[d]
      BY <3>1 DEF TypeOK
    <3>3. /\ admin'[c].step = "removed"
          /\ admin'[c].item = admin[c].item
          /\ admin'[c].op = admin[c].op
      BY <2>1, <3>1, RequestFields DEF TypeOK
    <3>4. admin'[c] # Idle  BY <2>1, <2>3, <3>3, RequestFields DEF Idle
    <3>5. ASSUME NEW x, admin[c].item.msg = x PROVE Requeues(c, x)'
      BY <3>3, <3>4, <3>5 DEF Requeues
    <3>6. InHands(m) => InHands(m)'
      <4>1. Requeues(c, m) => Requeues(c, m)'  BY <3>3, <3>4 DEF Requeues
      <4>2. \A d \in Admins \ {c} : Requeues(d, m) => Requeues(d, m)'
        BY <3>2 DEF Requeues
      <4> QED  BY <4>1, <4>2 DEF InHands
    <3>7. IsDead(m) => IsDead(m)' \/ InHands(m)'
      <4>1. SUFFICES ASSUME NEW l \in dead, l.msg = m, l \notin dead' PROVE InHands(m)'
        BY DEF IsDead
      <4>2. l = admin[c].item  BY <2>2, <4>1
      <4> QED  BY <3>5, <4>1, <4>2 DEF InHands
    <3> QED  BY <2>2, <3>6, <3>7 DEF Kept
  <2>4. CASE admin[c].op # "retry"
    <3>1. /\ admin' = [admin EXCEPT ![c] = Idle]
          /\ discarded' = discarded \cup {admin[c].item.msg}
      BY <1>11, <2>4 DEF RemoveLetter
    <3>2. ~Requeues(c, m)  BY <1>11 DEF RemoveLetter, Requeues
    <3>3. InHands(m) => InHands(m)'
      BY <3>1, <3>2 DEF InHands, Requeues, TypeOK
    <3>4. IsDead(m) => IsDead(m)' \/ m \in discarded'
      BY <2>2, <3>1 DEF IsDead
    <3> QED  BY <2>2, <3>3, <3>4 DEF Kept
  <2> QED  BY <2>3, <2>4
<1>12. ASSUME NEW c \in Admins, Requeue(c) PROVE Kept(m)'
  <2>1. admin[c] \in Request /\ admin[c] # Idle  BY <1>12 DEF Requeue, TypeOK
  <2>2. PICK x \in Messages : x = admin[c].item.msg
    BY <2>1, RequestFields, LetterFields
  <2>3. /\ PushReturns(x) \/ PushRaises(x)
        /\ \/ PushReturns(x) /\ lost' = lost
           \/ lost' = IF queue' = queue THEN lost \cup {x} ELSE lost
        /\ admin' = [admin EXCEPT ![c] = Idle]
        /\ UNCHANGED <<answer, held, applied, discarded>>
    BY <1>12, <2>2 DEF Requeue
  <2>4. /\ \A y : In(queue, y) => In(queue', y)
        /\ dead \subseteq dead'
        /\ PushReturns(x) => In(queue', x) \/ \E l \in dead' : l.msg = x
        /\ queue' # queue => In(queue', x)
    BY <2>2, <2>3, PushKeeps
  <2>5. InHands(m) => InHands(m)' \/ m = x
    BY <2>2, <2>3 DEF InHands, Requeues, TypeOK
  <2>6. In(queue', x) \/ IsDead(x)' \/ x \in lost'
    BY <2>3, <2>4 DEF IsDead
  <2>7. IsDead(m) => IsDead(m)'  BY <2>4 DEF IsDead
  <2>8. Kept(m)  BY <1>0, <2>3
  <2>9. lost \subseteq lost'  BY <2>3
  <2> QED  BY <2>3, <2>4, <2>5, <2>6, <2>7, <2>8, <2>9 DEF Kept
<1>13. CASE Clear
  <2>1. InHands(m) => InHands(m)'  BY <1>13 DEF Clear, InHands, Requeues
  <2>2. IsDead(m) => m \in discarded'  BY <1>13 DEF Clear, IsDead
  <2> QED  BY <1>0, <1>13, <2>1, <2>2 DEF Clear, Kept
<1>14. CASE Tick
  <2>1. InHands(m) => InHands(m)'  BY <1>14 DEF Tick, InHands, Requeues
  <2> QED  BY <1>0, <1>14, <2>1 DEF Tick, Kept, IsDead, past
<1>15. CASE UNCHANGED vars
  <2>1. InHands(m) => InHands(m)'  BY <1>15 DEF vars, InHands, Requeues
  <2> QED  BY <1>0, <1>15, <2>1 DEF vars, Kept, IsDead, past
<1> QED  BY <1>1, <1>2, <1>3, <1>4, <1>5, <1>6, <1>7, <1>8, <1>9, <1>10, <1>11, <1>12,
            <1>13, <1>14, <1>15 DEF Next, WorkerStep, AdminStep

\* A webhook that was answered 200 is accounted for, whatever fails and however
\* many admin requests run at once: its message is in a list, in somebody's
\* hands, processed or discarded, or it is one of those `lost' names.
THEOREM NothingIsLost == Spec => []NothingLost
<1>1. Init => KeptInv  BY DEF Init, KeptInv
<1>2. TypeOK /\ HeldInv /\ KeptInv /\ [Next]_vars => KeptInv'  BY KeptStep
<1>3. TypeOK /\ KeptInv => NothingLost  BY KeptIsNothingLost
<1> QED  BY <1>1, <1>2, <1>3, TypeCorrect, PTL DEF Spec
-----------------------------------------------------------------------------
(* What nobody has sent is nowhere.                                        *)

SentInv ==
  /\ \A m \in Messages : answer[m] = "none" =>
       ~In(queue, m) /\ ~In(applied, m) /\ held # m /\ m \notin everDead
  /\ \A l \in dead : l.msg \in everDead
  /\ \A c \in Admins : admin[c] # Idle => admin[c].item.msg \in everDead

\* What a push of m leaves of other messages, and what it says of m.
LEMMA PushTells ==
  ASSUME TypeOK, NEW m \in Messages, PushReturns(m) \/ PushRaises(m)
  PROVE  /\ \A y : In(queue', y) => In(queue, y) \/ m = y
         /\ everDead \subseteq everDead' /\ everDead' \subseteq everDead \cup {m}
         /\ \A l \in dead' : l \in dead \/ (l.msg = m /\ m \in everDead')
         /\ doubled \subseteq doubled'
<1>1. PushOk(m) => (\A y : In(queue', y) <=> In(queue, y) \/ m = y)
  BY AppendIn DEF PushOk, TypeOK
<1>2. ASSUME PushDead(m)
      PROVE  everDead' = everDead \cup {m} /\ \A l \in dead' : l \in dead \/ l.msg = m
  <2> DEFINE k == [id |-> clock, msg |-> m, at |-> pushes + 1]
  <2>1. dead' = dead \cup {k}  BY <1>2 DEF PushDead
  <2>2. k.msg = m  OBVIOUS
  <2> QED  BY <1>2, <2>1, <2>2 DEF PushDead
<1>3. queue' = queue \/ PushOk(m)
  BY DEF PushReturns, PushRaises, PushFails
<1>4. UNCHANGED <<dead, everDead>> \/ PushDead(m)
  BY DEF PushReturns, PushRaises, DeadFails
<1>5. doubled \subseteq doubled'
  BY DEF PushReturns, PushRaises
<1> QED  BY <1>1, <1>2, <1>3, <1>4, <1>5

LEMMA LetGoTells ==
  ASSUME DeadLetter \/ Drop
  PROVE  /\ everDead \subseteq everDead' /\ everDead' \subseteq everDead \cup {held}
         /\ \A l \in dead' : l \in dead \/ (l.msg = held /\ held \in everDead')
<1>1. PICK m : m = held  OBVIOUS
<1>2. PushDead(m) \/ UNCHANGED <<dead, everDead>>
  BY <1>1 DEF DeadLetter, Drop, DeadFails
<1>3. CASE PushDead(m)
  <2> DEFINE k == [id |-> clock, msg |-> m, at |-> pushes + 1]
  <2>1. dead' = dead \cup {k} /\ everDead' = everDead \cup {m}  BY <1>3 DEF PushDead
  <2>2. k.msg = m  OBVIOUS
  <2> HIDE DEF k
  <2> QED  BY <1>1, <2>1, <2>2
<1>4. CASE UNCHANGED <<dead, everDead>>
  BY <1>4
<1> QED  BY <1>2, <1>3, <1>4

LEMMA SentStep ==
  ASSUME TypeOK, HeldInv, SentInv, [Next]_vars
  PROVE  SentInv'
<1> DEFINE Nowhere(m) ==
      ~In(queue, m) /\ ~In(applied, m) /\ held # m /\ m \notin everDead
<1>0. /\ \A m \in Messages : answer[m] = "none" => Nowhere(m)
      /\ \A l \in dead : l.msg \in everDead
      /\ \A c \in Admins : admin[c] # Idle => admin[c].item.msg \in everDead
  BY DEF SentInv
<1>1. ASSUME NEW x \in Messages, Webhook(x) PROVE SentInv'
  <2>1. /\ PushReturns(x) \/ PushRaises(x)
        /\ UNCHANGED <<clock, retries, held, stage, admin, applied, discarded, lost>>
        /\ answer'[x] # "none"
        /\ \A m \in Messages : m # x => answer'[m] = answer[m]
    BY <1>1 DEF Webhook, TypeOK
  <2>2. /\ \A y : In(queue', y) => In(queue, y) \/ x = y
        /\ everDead \subseteq everDead' /\ everDead' \subseteq everDead \cup {x}
        /\ \A l \in dead' : l \in dead \/ (l.msg = x /\ x \in everDead')
    BY <2>1, PushTells
  <2> QED  BY <1>0, <2>1, <2>2 DEF SentInv
<1>2. ASSUME NEW x \in Messages, PushByHand(x) PROVE SentInv'
  <2>1. \A y : In(queue', y) <=> In(queue, y) \/ x = y
    BY <1>2, AppendIn DEF PushByHand, PushOk, TypeOK
  <2>2. /\ answer'[x] # "none"
        /\ \A m \in Messages : m # x => answer'[m] = answer[m]
        /\ UNCHANGED <<dead, held, admin, applied, everDead>>
    BY <1>2 DEF PushByHand, TypeOK, past
  <2> QED  BY <1>0, <2>1, <2>2 DEF SentInv
<1>3. CASE Pop
  <2>1. \A y : In(queue, y) <=> In(queue', y) \/ held' = y
    BY <1>3, TailIn DEF Pop, TypeOK
  <2>2. UNCHANGED <<answer, dead, admin, applied, everDead>>  BY <1>3 DEF Pop, past
  <2> QED  BY <1>0, <2>1, <2>2 DEF SentInv
<1>4. ASSUME DeadLetter \/ Drop, held \in Messages, Release,
             UNCHANGED <<answer, queue, clock, retries, admin, applied, discarded, doubled>>
      PROVE  SentInv'
  <2>1. /\ everDead \subseteq everDead' /\ everDead' \subseteq everDead \cup {held}
        /\ \A l \in dead' : l \in dead \/ (l.msg = held /\ held \in everDead')
    BY <1>4, LetGoTells
  <2>2. \A m \in Messages : m # held'  BY <1>4, ConstantsAssumption DEF Release
  <2> QED  BY <1>0, <1>4, <2>1, <2>2 DEF SentInv
<1>5. CASE Validate
  BY <1>0, <1>5 DEF Validate, past, SentInv
<1>6. CASE Process
  <2>1. held \in Messages  BY <1>6, HeldMessage DEF Process, HeldInv
  <2>2. \A y : In(applied', y) <=> In(applied, y) \/ held = y
    BY <1>6, <2>1, AppendIn DEF Process, TypeOK
  <2>3. \A m \in Messages : m # held'
    BY <1>6, ConstantsAssumption DEF Process, Release
  <2>4. UNCHANGED <<answer, queue, dead, admin, everDead>>  BY <1>6 DEF Process
  <2> QED  BY <1>0, <2>2, <2>3, <2>4 DEF SentInv
<1>7. CASE Reject \/ ProcessError \/ ProcessConnError \/ Crash
  BY <1>4, <1>7, HeldMessage DEF Reject, ProcessError, ProcessConnError, Crash, HeldInv
<1>8. ASSUME NEW c \in Admins, NEW op \in {"retry", "discard"}, FindLetter(c, op)
      PROVE  SentInv'
  <2>1. PICK l \in dead : admin' = [admin EXCEPT ![c] = [op |-> op, step |-> "read", item |-> l]]
    BY <1>8 DEF FindLetter, FirstWithId
  <2>2. \A d \in Admins : d # c => admin'[d] = admin[d]  BY <2>1 DEF TypeOK
  <2>3. admin'[c].item = l  BY <2>1 DEF TypeOK
  <2>4. UNCHANGED <<answer, queue, dead, held, applied, everDead>>
    BY <1>8 DEF FindLetter, past
  <2> QED  BY <1>0, <2>2, <2>3, <2>4 DEF SentInv
<1>9. ASSUME NEW c \in Admins, RemoveLetter(c) PROVE SentInv'
  <2>1. admin[c] \in Request /\ admin[c] # Idle  BY <1>9 DEF RemoveLetter, TypeOK
  <2>2. admin' = [admin EXCEPT ![c].step = "removed"] \/ admin' = [admin EXCEPT ![c] = Idle]
    BY <1>9 DEF RemoveLetter
  <2>3. \A d \in Admins : d # c => admin'[d] = admin[d]  BY <2>2 DEF TypeOK
  <2>4. admin'[c] # Idle => admin'[c].item = admin[c].item
    BY <2>1, <2>2, RequestFields DEF TypeOK
  <2>5. dead' \subseteq dead /\ UNCHANGED <<answer, queue, held, applied, everDead>>
    BY <1>9 DEF RemoveLetter
  <2>6. \A d \in Admins : admin'[d] # Idle => admin'[d].item.msg \in everDead
    BY <1>0, <2>1, <2>3, <2>4
  <2> QED  BY <1>0, <2>5, <2>6 DEF SentInv
<1>10. ASSUME NEW c \in Admins, Requeue(c) PROVE SentInv'
  <2>1. admin[c] \in Request /\ admin[c] # Idle  BY <1>10 DEF Requeue, TypeOK
  <2>2. PICK x \in Messages : x = admin[c].item.msg
    BY <2>1, RequestFields, LetterFields
  <2>3. PushReturns(x) \/ PushRaises(x)  BY <1>10, <2>2 DEF Requeue
  <2>4. /\ \A y : In(queue', y) => In(queue, y) \/ x = y
        /\ everDead \subseteq everDead' /\ everDead' \subseteq everDead \cup {x}
        /\ \A l \in dead' : l \in dead \/ (l.msg = x /\ x \in everDead')
    BY <2>3, PushTells
  <2>5. x \in everDead /\ answer[x] # "none"  BY <1>0, <2>1, <2>2
  <2>6. admin' = [admin EXCEPT ![c] = Idle]  BY <1>10 DEF Requeue
  <2>7. \A d \in Admins : admin'[d] # Idle => admin'[d] = admin[d]  BY <2>6 DEF TypeOK
  <2>8. UNCHANGED <<answer, held, applied>>  BY <1>10 DEF Requeue
  <2> QED  BY <1>0, <2>4, <2>5, <2>7, <2>8 DEF SentInv
<1>11. CASE Clear
  BY <1>0, <1>11 DEF Clear, SentInv
<1>12. CASE Tick
  BY <1>0, <1>12 DEF Tick, past, SentInv
<1>13. CASE UNCHANGED vars
  BY <1>0, <1>13 DEF vars, past, SentInv
<1> QED  BY <1>1, <1>2, <1>3, <1>5, <1>6, <1>7, <1>8, <1>9, <1>10, <1>11, <1>12, <1>13
         DEF Next, WorkerStep, AdminStep

LEMMA SentAlways == Spec => [](TypeOK /\ HeldInv /\ SentInv)
<1>1. Init => SentInv
  BY EmptyIn, ConstantsAssumption DEF Init, SentInv
<1>2. TypeOK /\ HeldInv /\ SentInv /\ [Next]_vars => SentInv'  BY SentStep
<1> QED  BY <1>1, <1>2, TypeCorrect, PTL DEF Spec
-----------------------------------------------------------------------------
(* A message exists once.                                                  *)

DeadOnce(m) == \A l, k \in dead : l.msg = m /\ k.msg = m => l = k
HandOnce(m) == \A c, d \in Admins : Requeues(c, m) /\ Requeues(d, m) => c = d

\* A message is in at most one kind of place, and there once.
Single(m) ==
  /\ Once(queue, m) /\ Once(applied, m) /\ DeadOnce(m) /\ HandOnce(m)
  /\ In(queue, m) => ~IsDead(m) /\ held # m /\ ~InHands(m) /\ ~In(applied, m)
  /\ IsDead(m) => held # m /\ ~InHands(m) /\ ~In(applied, m)
  /\ held = m => ~InHands(m) /\ ~In(applied, m)
  /\ InHands(m) => ~In(applied, m)

OneInv == \A m \in Messages \ doubled : Single(m)

LEMMA SameHands ==
  ASSUME UNCHANGED admin, NEW m
  PROVE  (InHands(m)' <=> InHands(m)) /\ (HandOnce(m)' <=> HandOnce(m))
BY DEF InHands, HandOnce, Requeues

LEMMA SameDead ==
  ASSUME UNCHANGED dead, NEW m
  PROVE  (IsDead(m)' <=> IsDead(m)) /\ (DeadOnce(m)' <=> DeadOnce(m))
BY DEF IsDead, DeadOnce

LEMMA FewerDead ==
  ASSUME dead' \subseteq dead, NEW m
  PROVE  (IsDead(m)' => IsDead(m)) /\ (DeadOnce(m) => DeadOnce(m)')
BY DEF IsDead, DeadOnce

LEMMA PushDeadMoves ==
  ASSUME NEW m, PushDead(m), NEW y
  PROVE  /\ IsDead(y)' <=> IsDead(y) \/ m = y
         /\ DeadOnce(y) /\ (m = y => ~IsDead(y)) => DeadOnce(y)'
<1> DEFINE k == [id |-> clock, msg |-> m, at |-> pushes + 1]
<1>1. dead' = dead \cup {k}  BY DEF PushDead
<1>2. k.msg = m  OBVIOUS
<1> HIDE DEF k
<1>3. IsDead(y)' <=> IsDead(y) \/ m = y  BY <1>1, <1>2 DEF IsDead
<1>4. ASSUME DeadOnce(y), m = y => ~IsDead(y) PROVE DeadOnce(y)'
  BY <1>1, <1>2, <1>4 DEF DeadOnce, IsDead
<1> QED  BY <1>3, <1>4

\* A push of m moves m alone, into the queue or the dead letters; into both
\* only when `doubled' says so.
LEMMA PushMoves ==
  ASSUME TypeOK, NEW m \in Messages, PushReturns(m) \/ PushRaises(m),
         NEW y, y \notin doubled',
         Once(queue, y), DeadOnce(y), m = y => ~In(queue, y) /\ ~IsDead(y)
  PROVE  /\ Once(queue', y) /\ DeadOnce(y)'
         /\ m # y => (In(queue', y) <=> In(queue, y)) /\ (IsDead(y)' <=> IsDead(y))
         /\ m = y => ~(In(queue', y) /\ IsDead(y)')
<1>1. PushOk(m) => /\ In(queue', y) <=> In(queue, y) \/ m = y
                   /\ Once(queue', y)
                   /\ queue' # queue
  BY AppendIn DEF PushOk, TypeOK
<1>2. PushDead(m) => (IsDead(y)' <=> IsDead(y) \/ m = y) /\ DeadOnce(y)'
  BY PushDeadMoves
<1>3. UNCHANGED dead => (IsDead(y)' <=> IsDead(y)) /\ DeadOnce(y)'
  BY SameDead
<1>4. \/ PushOk(m) /\ UNCHANGED dead
      \/ UNCHANGED queue /\ PushDead(m)
      \/ PushOk(m) /\ PushDead(m) /\ (queue' = queue \/ m \in doubled')
      \/ UNCHANGED <<queue, dead>>
  BY DEF PushReturns, PushRaises, PushFails, DeadFails
<1>5. CASE PushOk(m) /\ UNCHANGED dead   BY <1>1, <1>3, <1>5
<1>6. CASE UNCHANGED queue /\ PushDead(m)   BY <1>2, <1>6
<1>7. CASE PushOk(m) /\ PushDead(m) /\ (queue' = queue \/ m \in doubled')
  BY <1>1, <1>2, <1>7
<1>8. CASE UNCHANGED <<queue, dead>>   BY <1>3, <1>8
<1> QED  BY <1>4, <1>5, <1>6, <1>7, <1>8

LEMMA ReleaseSingle ==
  ASSUME TypeOK, held \in Messages, Release, DeadLetter \/ Drop,
         UNCHANGED <<answer, queue, clock, retries, admin, applied, discarded, doubled>>,
         NEW y \in Messages, Single(y)
  PROVE  Single(y)'
<1>1. PICK m \in Messages : m = held  OBVIOUS
<1>2. PushDead(m) \/ UNCHANGED dead  BY <1>1 DEF DeadLetter, Drop, DeadFails
<1>3. /\ IsDead(y)' => IsDead(y) \/ m = y
      /\ DeadOnce(y)'
  BY <1>1, <1>2, PushDeadMoves, SameDead DEF Single
<1>4. (InHands(y)' <=> InHands(y)) /\ (HandOnce(y)' <=> HandOnce(y))  BY SameHands
<1>5. held' # y  BY ConstantsAssumption DEF Release
<1> QED  BY <1>1, <1>3, <1>4, <1>5 DEF Single

LEMMA OneStep ==
  ASSUME TypeOK, HeldInv, SentInv, OneInv, [Next]_vars
  PROVE  OneInv'
<1> SUFFICES ASSUME NEW y \in Messages, y \notin doubled' PROVE Single(y)'
  BY DEF OneInv
<1>1. ASSUME NEW x \in Messages, Webhook(x) PROVE Single(y)'
  <2>1. /\ PushReturns(x) \/ PushRaises(x)
        /\ UNCHANGED <<held, admin, applied>>
        /\ answer[x] = "none"
    BY <1>1 DEF Webhook
  <2>2. Single(y)  BY <2>1, PushTells DEF OneInv
  <2>3. ~In(queue, x) /\ ~In(applied, x) /\ held # x /\ x \notin everDead
    BY <2>1 DEF SentInv
  <2>4. ~IsDead(x) /\ ~InHands(x)
    BY <2>3 DEF SentInv, IsDead, InHands, Requeues
  <2>5. /\ Once(queue', y) /\ DeadOnce(y)'
        /\ x # y => (In(queue', y) <=> In(queue, y)) /\ (IsDead(y)' <=> IsDead(y))
        /\ x = y => ~(In(queue', y) /\ IsDead(y)')
    BY <2>1, <2>2, <2>3, <2>4, PushMoves DEF Single
  <2>6. (InHands(y)' <=> InHands(y)) /\ (HandOnce(y)' <=> HandOnce(y))
    BY <2>1, SameHands
  <2> QED  BY <2>1, <2>2, <2>3, <2>4, <2>5, <2>6 DEF Single
<1>2. ASSUME NEW x \in Messages, PushByHand(x) PROVE Single(y)'
  <2>1. UNCHANGED <<dead, held, admin, applied, doubled>> /\ answer[x] = "none"
    BY <1>2 DEF PushByHand, past
  <2>2. Single(y)  BY <2>1 DEF OneInv
  <2>3. ~In(queue, x) /\ ~In(applied, x) /\ held # x /\ x \notin everDead
    BY <2>1 DEF SentInv
  <2>4. ~IsDead(x) /\ ~InHands(x)
    BY <2>3 DEF SentInv, IsDead, InHands, Requeues
  <2>5. (In(queue', y) <=> In(queue, y) \/ x = y) /\ Once(queue', y)
    BY <1>2, <2>2, <2>3, AppendIn DEF PushByHand, PushOk, TypeOK, Single
  <2>6. (InHands(y)' <=> InHands(y)) /\ (HandOnce(y)' <=> HandOnce(y))
    BY <2>1, SameHands
  <2>7. (IsDead(y)' <=> IsDead(y)) /\ (DeadOnce(y)' <=> DeadOnce(y))
    BY <2>1, SameDead
  <2> QED  BY <2>1, <2>2, <2>3, <2>4, <2>5, <2>6, <2>7 DEF Single
<1>3. CASE Pop
  <2>1. UNCHANGED <<dead, admin, applied, doubled>> /\ held = Nobody
    BY <1>3 DEF Pop, past, HeldInv
  <2>2. Single(y)  BY <2>1 DEF OneInv
  <2>3. /\ In(queue, y) <=> In(queue', y) \/ held' = y
        /\ Once(queue', y) /\ (held' = y => ~In(queue', y))
    BY <1>3, <2>2, TailIn DEF Pop, TypeOK, Single
  <2>4. (InHands(y)' <=> InHands(y)) /\ (HandOnce(y)' <=> HandOnce(y))
    BY <2>1, SameHands
  <2>5. (IsDead(y)' <=> IsDead(y)) /\ (DeadOnce(y)' <=> DeadOnce(y))
    BY <2>1, SameDead
  <2> QED  BY <2>1, <2>2, <2>3, <2>4, <2>5 DEF Single
<1>4. CASE Reject \/ ProcessError \/ ProcessConnError \/ Crash
  <2>1. /\ DeadLetter \/ Drop
        /\ Release
        /\ UNCHANGED <<answer, queue, clock, retries, admin, applied, discarded, doubled>>
        /\ stage # "idle"
    BY <1>4 DEF Reject, ProcessError, ProcessConnError, Crash
  <2>2. held \in Messages  BY <2>1, HeldMessage DEF HeldInv
  <2>3. Single(y)  BY <2>1 DEF OneInv
  <2> QED  BY <2>1, <2>2, <2>3, ReleaseSingle
<1>5. CASE Process
  <2>1. UNCHANGED <<queue, dead, admin, doubled>> /\ held' = Nobody
    BY <1>5 DEF Process, Release
  <2>2. Single(y)  BY <2>1 DEF OneInv
  <2>3. held \in Messages  BY <1>5, HeldMessage DEF Process, HeldInv
  <2>4. (In(applied', y) <=> In(applied, y) \/ held = y) /\ Once(applied', y)
    BY <1>5, <2>2, <2>3, AppendIn DEF Process, TypeOK, Single
  <2>5. (InHands(y)' <=> InHands(y)) /\ (HandOnce(y)' <=> HandOnce(y))
    BY <2>1, SameHands
  <2>6. (IsDead(y)' <=> IsDead(y)) /\ (DeadOnce(y)' <=> DeadOnce(y))
    BY <2>1, SameDead
  <2>7. held' # y  BY <2>1, ConstantsAssumption
  <2> QED  BY <2>1, <2>2, <2>4, <2>5, <2>6, <2>7 DEF Single
<1>6. ASSUME NEW c \in Admins, NEW op \in {"retry", "discard"}, FindLetter(c, op)
      PROVE  Single(y)'
  <2>1. UNCHANGED <<queue, dead, held, applied, doubled>>
    BY <1>6 DEF FindLetter, past
  <2>2. Single(y)  BY <2>1 DEF OneInv
  <2>3. PICK l \in dead : admin' = [admin EXCEPT ![c] = [op |-> op, step |-> "read", item |-> l]]
    BY <1>6 DEF FindLetter, FirstWithId
  <2>4. \A d \in Admins : d # c => admin'[d] = admin[d]  BY <2>3 DEF TypeOK
  <2>5. admin'[c].step = "read" /\ admin[c] = Idle  BY <1>6, <2>3 DEF TypeOK, FindLetter
  <2>6. \A d \in Admins : Requeues(d, y)' <=> Requeues(d, y)
    BY <2>4, <2>5 DEF Requeues
  <2>7. (InHands(y)' <=> InHands(y)) /\ (HandOnce(y)' <=> HandOnce(y))
    BY <2>6 DEF InHands, HandOnce
  <2>8. (IsDead(y)' <=> IsDead(y)) /\ (DeadOnce(y)' <=> DeadOnce(y))
    BY <2>1, SameDead
  <2> QED  BY <2>1, <2>2, <2>7, <2>8 DEF Single
<1>7. ASSUME NEW c \in Admins, RemoveLetter(c) PROVE Single(y)'
  <2>1. admin[c] \in Request /\ admin[c] # Idle /\ admin[c].step = "read"
    BY <1>7 DEF RemoveLetter, TypeOK
  <2>2. PICK l \in Letter : l = admin[c].item  BY <2>1, RequestFields
  <2>3. /\ dead' = dead \ {l} /\ doubled \subseteq doubled'
        /\ UNCHANGED <<queue, held, applied>>
    BY <1>7, <2>2 DEF RemoveLetter
  <2>4. Single(y)  BY <2>3 DEF OneInv
  <2>5. (IsDead(y)' => IsDead(y)) /\ (DeadOnce(y) => DeadOnce(y)')
    BY <2>3, FewerDead
  <2>6. CASE admin[c].op = "retry"
    <3>1. /\ admin' = [admin EXCEPT ![c].step = "removed"]
          /\ doubled' = IF dead' = dead THEN doubled \cup {l.msg} ELSE doubled
      BY <1>7, <2>2, <2>6 DEF RemoveLetter
    <3>2. \A d \in Admins : d # c => admin'[d] = admin[d]  BY <3>1 DEF TypeOK
    <3>3. admin'[c].item = l  BY <2>1, <2>2, <3>1, RequestFields DEF TypeOK
    <3>4. ~Requeues(c, y)  BY <2>1 DEF Requeues
    <3>5. \A d \in Admins : d # c => (Requeues(d, y)' <=> Requeues(d, y))
      BY <3>2 DEF Requeues
    <3>6. Requeues(c, y)' => l.msg = y  BY <3>3 DEF Requeues
    <3>7. CASE l.msg = y
      <4>1. l \in dead  BY <2>3, <3>1, <3>7
      <4>2. IsDead(y) /\ ~IsDead(y)'
        BY <2>3, <2>4, <3>7, <4>1 DEF IsDead, Single, DeadOnce
      <4>3. ~InHands(y)  BY <2>4, <4>2 DEF Single
      <4>4. HandOnce(y)'
        BY <3>5, <4>3 DEF HandOnce, InHands
      <4> QED  BY <2>3, <2>4, <2>5, <4>2, <4>4 DEF Single
    <3>8. CASE l.msg # y
      <4>1. \A d \in Admins : Requeues(d, y)' <=> Requeues(d, y)
        BY <3>4, <3>5, <3>6, <3>8
      <4>2. (InHands(y)' <=> InHands(y)) /\ (HandOnce(y)' <=> HandOnce(y))
        BY <4>1 DEF InHands, HandOnce
      <4> QED  BY <2>3, <2>4, <2>5, <4>2 DEF Single
    <3> QED  BY <3>7, <3>8
  <2>7. CASE admin[c].op # "retry"
    <3>1. admin' = [admin EXCEPT ![c] = Idle]  BY <1>7, <2>7 DEF RemoveLetter
    <3>2. \A d \in Admins : Requeues(d, y)' => Requeues(d, y)
      BY <3>1 DEF Requeues, TypeOK
    <3>3. (InHands(y)' => InHands(y)) /\ (HandOnce(y) => HandOnce(y)')
      BY <3>2 DEF InHands, HandOnce
    <3> QED  BY <2>3, <2>4, <2>5, <3>3 DEF Single
  <2> QED  BY <2>6, <2>7
<1>8. ASSUME NEW c \in Admins, Requeue(c) PROVE Single(y)'
  <2>1. admin[c] \in Request /\ admin[c] # Idle /\ admin[c].step = "removed"
    BY <1>8 DEF Requeue, TypeOK
  <2>2. PICK x \in Messages : x = admin[c].item.msg
    BY <2>1, RequestFields, LetterFields
  <2>3. /\ PushReturns(x) \/ PushRaises(x)
        /\ admin' = [admin EXCEPT ![c] = Idle]
        /\ UNCHANGED <<held, applied>>
    BY <1>8, <2>2 DEF Requeue
  <2>4. Single(y)  BY <2>3, PushTells DEF OneInv
  <2>5. Requeues(c, x)  BY <2>1, <2>2 DEF Requeues
  <2>6. ~Requeues(c, y)' /\ \A d \in Admins : Requeues(d, y)' => Requeues(d, y)
    BY <2>3 DEF Requeues, TypeOK
  <2>7. (InHands(y)' => InHands(y)) /\ HandOnce(y)'
    BY <2>4, <2>6 DEF InHands, HandOnce, Single
  <2>8. x = y => InHands(y) /\ ~InHands(y)'
    BY <2>4, <2>5, <2>6 DEF InHands, HandOnce, Single
  <2>9. x = y => ~In(queue, y) /\ ~IsDead(y) /\ held # y /\ ~In(applied, y)
    BY <2>4, <2>8 DEF Single
  <2>10. /\ Once(queue', y) /\ DeadOnce(y)'
         /\ x # y => (In(queue', y) <=> In(queue, y)) /\ (IsDead(y)' <=> IsDead(y))
         /\ x = y => ~(In(queue', y) /\ IsDead(y)')
    BY <2>3, <2>4, <2>9, PushMoves DEF Single
  <2> QED  BY <2>3, <2>4, <2>7, <2>8, <2>9, <2>10 DEF Single
<1>9. CASE Clear \/ Tick \/ Validate \/ UNCHANGED vars
  <2>1. dead' \subseteq dead /\ UNCHANGED <<queue, held, admin, applied, doubled>>
    BY <1>9 DEF Clear, Tick, Validate, vars, past
  <2>2. Single(y)  BY <2>1 DEF OneInv
  <2>3. (IsDead(y)' => IsDead(y)) /\ (DeadOnce(y) => DeadOnce(y)')
    BY <2>1, FewerDead
  <2>4. (InHands(y)' <=> InHands(y)) /\ (HandOnce(y)' <=> HandOnce(y))
    BY <2>1, SameHands
  <2> QED  BY <2>1, <2>2, <2>3, <2>4 DEF Single
<1> QED  BY <1>1, <1>2, <1>3, <1>4, <1>5, <1>6, <1>7, <1>8, <1>9
         DEF Next, WorkerStep, AdminStep

\* The places of Copies, one kind at a time.
LEMMA OneMeansOneCopy ==
  ASSUME NEW m \in Messages, Single(m)
  PROVE  \A a, b \in Copies(m) : a = b
<1> DEFINE Q == {<<"queue", i>> : i \in {j \in 1..Len(queue) : queue[j] = m}}
           D == {<<"dead", l>> : l \in {k \in dead : k.msg = m}}
           W == IF held = m THEN {<<"worker", m>>} ELSE {}
           H == {<<"admin", c>> : c \in {d \in Admins : Requeues(d, m)}}
           P == {<<"applied", i>> : i \in {j \in 1..Len(applied) : applied[j] = m}}
<1>1. Copies(m) = Q \cup D \cup W \cup H \cup P  BY DEF Copies
<1>2. (\A a, b \in Q : a = b) /\ (Q # {} => In(queue, m))
  BY DEF Single, Once, In
<1>3. (\A a, b \in D : a = b) /\ (D # {} => IsDead(m))
  BY DEF Single, DeadOnce, IsDead
<1>4. (\A a, b \in W : a = b) /\ (W # {} => held = m)
  OBVIOUS
<1>5. (\A a, b \in H : a = b) /\ (H # {} => InHands(m))
  BY DEF Single, HandOnce, InHands
<1>6. (\A a, b \in P : a = b) /\ (P # {} => In(applied, m))
  BY DEF Single, Once, In
<1> HIDE DEF Q, D, W, H, P
<1>7. \A a, b \in Q \cup D \cup W \cup H \cup P : a = b
  BY <1>2, <1>3, <1>4, <1>5, <1>6 DEF Single
<1> QED  BY <1>1, <1>7

\* Retries, pushes and the worker never make two of one message: it is in one
\* place at most, unless a push failed after it took effect, or a retry found
\* that another had taken its letter.
THEOREM CopiesAreOne == Spec => []OneCopy
<1>1. Init => OneInv
  BY EmptyIn, ConstantsAssumption
     DEF Init, OneInv, Single, DeadOnce, HandOnce, IsDead, InHands, Requeues
<1>2. TypeOK /\ HeldInv /\ SentInv /\ OneInv /\ [Next]_vars => OneInv'  BY OneStep
<1>3. OneInv => OneCopy  BY OneMeansOneCopy DEF OneInv, OneCopy
<1> QED  BY <1>1, <1>2, <1>3, SentAlways, PTL DEF Spec
-----------------------------------------------------------------------------
(* An entry is ahead of its exit.                                          *)

Valid(m) == m \notin Malformed \cup Invalid

\* In list s no x stands before an e.
Ahead(s, e, x) == \A j \in 1..Len(s) : s[j] = e => \A i \in 1..(j - 1) : s[i] # x

\* An exit x is behind its entry e, on the list and in the worker.
Behind(x, e) ==
  /\ Ahead(queue, e, x)
  /\ In(queue, e) => held # x
  /\ In(queue, e) \/ held = e => ~In(applied, x)
  /\ Ahead(applied, e, x)

Pair(x) == Valid(x) /\ ExitOf[x] # x /\ ExitOf[x] \notin everDead

OrderInv ==
  /\ stage = "processing" => Valid(held)
  /\ \A m \in Messages : In(applied, m) => Valid(m)
  /\ \A x \in Messages :
       Valid(x) /\ answer[x] # "none" => answer[ExitOf[x]] # "none"
  /\ \A x \in Messages : Pair(x) => Behind(x, ExitOf[x])

LEMMA AppendAhead ==
  ASSUME NEW S, NEW s \in Seq(S), NEW a \in S, NEW e, NEW x,
         Ahead(s, e, x), a = e => ~In(s, x)
  PROVE  Ahead(Append(s, a), e, x)
<1>1. /\ Append(s, a) \in Seq(S)
      /\ Len(Append(s, a)) = Len(s) + 1
      /\ \A i \in 1..Len(s) : Append(s, a)[i] = s[i]
      /\ Append(s, a)[Len(s) + 1] = a
  BY AppendProperties
<1>2. Len(s) \in Nat  BY LenProperties
<1> DEFINE t == Append(s, a)
           n == Len(s)
<1>3. /\ n \in Nat
      /\ Len(t) = n + 1
      /\ \A i \in 1..n : t[i] = s[i]
      /\ t[n + 1] = a
  BY <1>1, <1>2
<1>4. /\ \A j \in 1..n : s[j] = e => \A i \in 1..(j - 1) : s[i] # x
      /\ a = e => \A i \in 1..n : s[i] # x
  BY DEF Ahead, In
<1> HIDE DEF t, n
<1>5. SUFFICES ASSUME NEW j \in 1..(n + 1), t[j] = e, NEW i \in 1..(j - 1)
               PROVE  t[i] # x
  BY <1>3 DEF Ahead, t
<1>6. i \in 1..n  BY <1>3, <1>5
<1>7. CASE j \in 1..n   BY <1>3, <1>4, <1>5, <1>6, <1>7
<1>8. CASE j = n + 1
  <2>1. a = e  BY <1>3, <1>5, <1>8
  <2>. QED  BY <1>3, <1>4, <1>6, <2>1
<1> QED  BY <1>3, <1>7, <1>8

LEMMA TailAhead ==
  ASSUME NEW S, NEW s \in Seq(S), s # <<>>, NEW e, NEW x, x # e, Ahead(s, e, x)
  PROVE  Ahead(Tail(s), e, x) /\ (In(Tail(s), e) => Head(s) # x)
<1>1. /\ Tail(s) \in Seq(S)
      /\ Len(Tail(s)) = Len(s) - 1
      /\ \A i \in 1..Len(Tail(s)) : Tail(s)[i] = s[i + 1]
  BY HeadTailProperties
<1>2. Len(s) \in Nat \ {0}  BY EmptySeq, Zenon
<1> DEFINE t == Tail(s)
           n == Len(s)
<1>3. /\ n \in Nat \ {0}
      /\ Len(t) = n - 1
      /\ \A i \in 1..(n - 1) : t[i] = s[i + 1]
      /\ Head(s) = s[1]
  BY <1>1, <1>2
<1>4. \A j \in 1..n : s[j] = e => \A i \in 1..(j - 1) : s[i] # x
  BY DEF Ahead
<1> HIDE DEF t, n
<1>5. ASSUME NEW j \in 1..(n - 1), t[j] = e
      PROVE  \A i \in 1..j : s[i] # x
  <2>1. j + 1 \in 1..n /\ s[j + 1] = e  BY <1>3, <1>5
  <2>2. \A i \in 1..((j + 1) - 1) : s[i] # x  BY <1>4, <2>1
  <2>3. (j + 1) - 1 = j  OBVIOUS
  <2> QED  BY <2>2, <2>3
<1>6. Ahead(t, e, x)
  <2>1. SUFFICES ASSUME NEW j \in 1..(n - 1), t[j] = e, NEW i \in 1..(j - 1)
                 PROVE  t[i] # x
    BY <1>3 DEF Ahead
  <2>2. i + 1 \in 1..j /\ i \in 1..(n - 1)  BY <1>3
  <2> QED  BY <1>3, <1>5, <2>1, <2>2
<1>7. In(t, e) => s[1] # x
  <2>1. SUFFICES ASSUME NEW j \in 1..(n - 1), t[j] = e PROVE s[1] # x
    BY <1>3 DEF In
  <2> QED  BY <1>5, <2>1
<1> QED  BY <1>3, <1>6, <1>7 DEF t

\* A list that the message a joined, where a is not that entry while its exit
\* waits: the exit stays behind.
LEMMA PushBehind ==
  ASSUME TypeOK, NEW a \in Messages, queue' = queue \/ PushOk(a),
         UNCHANGED <<held, applied>>, NEW e, NEW x, Behind(x, e),
         a = e => ~In(queue, x) /\ held # x /\ ~In(applied, x)
  PROVE  Behind(x, e)'
<1>1. queue' = queue => Behind(x, e)'  BY DEF Behind
<1>2. PushOk(a) => /\ \A y : In(queue', y) <=> In(queue, y) \/ a = y
                   /\ Ahead(queue', e, x)
  BY AppendIn, AppendAhead DEF PushOk, TypeOK, Behind
<1> QED  BY <1>1, <1>2 DEF Behind

LEMMA OrderStep ==
  ASSUME TypeOK, HeldInv, SentInv, OrderInv, [Next]_vars
  PROVE  OrderInv'
<1>0. /\ stage = "processing" => Valid(held)
      /\ \A m \in Messages : In(applied, m) => Valid(m)
      /\ \A x \in Messages :
           Valid(x) /\ answer[x] # "none" => answer[ExitOf[x]] # "none"
      /\ \A x \in Messages : Pair(x) => Behind(x, ExitOf[x])
  BY DEF OrderInv
<1>e. \A x \in Messages : ExitOf[x] \in Messages  BY ConstantsAssumption
<1>1. ASSUME NEW a \in Messages, Webhook(a) \/ PushByHand(a) PROVE OrderInv'
  <2>1. /\ queue' = queue \/ PushOk(a)
        /\ UNCHANGED <<held, stage, applied>>
        /\ answer[a] = "none" /\ answer'[a] # "none"
        /\ \A m \in Messages : m # a => answer'[m] = answer[m]
        /\ Valid(a) /\ ExitOf[a] # a => answer[ExitOf[a]] # "none"
    BY <1>1 DEF Webhook, PushByHand, PushReturns, PushRaises, PushFails, TypeOK, past, Valid
  <2>2. everDead \subseteq everDead'
    BY <1>1, PushTells DEF Webhook, PushByHand, past
  <2>3. ASSUME NEW x \in Messages, Valid(x), answer'[x] # "none"
        PROVE  answer'[ExitOf[x]] # "none"
    <3>1. CASE x = a
      BY <1>e, <2>1, <2>3, <3>1
    <3>2. CASE x # a
      BY <1>0, <1>e, <2>1, <2>3, <3>2
    <3> QED  BY <3>1, <3>2
  <2>4. ASSUME NEW x \in Messages, Pair(x)' PROVE Behind(x, ExitOf[x])'
    <3>1. PICK e \in Messages : e = ExitOf[x]  BY <1>e
    <3>2. Pair(x)  BY <2>2, <2>4 DEF Pair
    <3>3. Behind(x, e)  BY <1>0, <3>1, <3>2
    <3>4. a = e => answer[x] = "none"  BY <1>0, <2>1, <3>1, <3>2 DEF Pair
    <3>5. a = e => ~In(queue, x) /\ held # x /\ ~In(applied, x)
      BY <3>4 DEF SentInv
    <3>6. Behind(x, e)'  BY <2>1, <3>3, <3>5, PushBehind
    <3> QED  BY <3>1, <3>6
  <2> QED  BY <1>0, <2>1, <2>3, <2>4 DEF OrderInv
<1>2. CASE Pop
  <2>1. UNCHANGED <<answer, applied, everDead>> /\ stage' = "popped"
    BY <1>2 DEF Pop, past
  <2>2. ASSUME NEW x \in Messages, Pair(x)' PROVE Behind(x, ExitOf[x])'
    <3>1. PICK e \in Messages : e = ExitOf[x]  BY <1>e
    <3>2. Pair(x) /\ x # e  BY <2>1, <2>2, <3>1 DEF Pair
    <3>3. Behind(x, e)  BY <1>0, <3>1, <3>2
    <3>4. queue # <<>> /\ held' = Head(queue) /\ queue' = Tail(queue)
      BY <1>2 DEF Pop
    <3>5. Ahead(queue', e, x) /\ (In(queue', e) => held' # x)
      BY <3>2, <3>3, <3>4, TailAhead DEF TypeOK, Behind
    <3>6. In(queue, e) <=> In(queue', e) \/ held' = e
      BY <3>4, TailIn DEF TypeOK
    <3>7. Behind(x, e)'  BY <2>1, <3>3, <3>5, <3>6 DEF Behind
    <3> QED  BY <3>1, <3>7
  <2> QED  BY <1>0, <2>1, <2>2 DEF OrderInv
<1>3. CASE Reject \/ ProcessError \/ ProcessConnError \/ Crash
  <2>1. /\ UNCHANGED <<answer, queue, applied>>
        /\ held' = Nobody /\ stage' = "idle"
        /\ everDead \subseteq everDead'
    BY <1>3, LetGoTells DEF Reject, ProcessError, ProcessConnError, Crash, Release
  <2>2. \A m \in Messages : m # held'  BY <2>1, ConstantsAssumption
  <2>3. ASSUME NEW x \in Messages, Pair(x)' PROVE Behind(x, ExitOf[x])'
    <3>1. PICK e \in Messages : e = ExitOf[x]  BY <1>e
    <3>2. Behind(x, e)  BY <1>0, <2>1, <2>3, <3>1 DEF Pair
    <3>3. Behind(x, e)'  BY <2>1, <2>2, <3>2 DEF Behind
    <3> QED  BY <3>1, <3>3
  <2> QED  BY <1>0, <2>1, <2>3 DEF OrderInv
<1>4. CASE Process
  <2>1. UNCHANGED <<answer, queue, everDead>> /\ held' = Nobody /\ stage' = "idle"
    BY <1>4 DEF Process, Release
  <2>2. held \in Messages  BY <1>4, HeldMessage DEF Process, HeldInv
  <2>3. \A y : In(applied', y) <=> In(applied, y) \/ held = y
    BY <1>4, <2>2, AppendIn DEF Process, TypeOK
  <2>4. Valid(held)  BY <1>0, <1>4 DEF Process
  <2>5. ASSUME NEW x \in Messages, Pair(x)' PROVE Behind(x, ExitOf[x])'
    <3>1. PICK e \in Messages : e = ExitOf[x]  BY <1>e
    <3>2. x # e /\ Behind(x, e)  BY <1>0, <2>1, <2>5, <3>1 DEF Pair
    <3>3. held = e => ~In(applied, x)  BY <3>2 DEF Behind
    <3>4. Ahead(applied', e, x)
      BY <1>4, <2>2, <3>2, <3>3, AppendAhead DEF Process, TypeOK, Behind
    <3>5. held' # e  BY <2>1, ConstantsAssumption
    <3>6. held' # x  BY <2>1, ConstantsAssumption
    <3>7. Behind(x, e)'  BY <2>1, <2>3, <3>2, <3>4, <3>5, <3>6 DEF Behind
    <3> QED  BY <3>1, <3>7
  <2> QED  BY <1>0, <2>1, <2>3, <2>4, <2>5 DEF OrderInv
<1>5. ASSUME NEW c \in Admins, Requeue(c) PROVE OrderInv'
  <2>1. admin[c] \in Request /\ admin[c] # Idle  BY <1>5 DEF Requeue, TypeOK
  <2>2. PICK a \in Messages : a = admin[c].item.msg
    BY <2>1, RequestFields, LetterFields
  <2>3. /\ PushReturns(a) \/ PushRaises(a)
        /\ UNCHANGED <<answer, held, stage, applied>>
    BY <1>5, <2>2 DEF Requeue
  <2>4. a \in everDead  BY <2>1, <2>2 DEF SentInv
  <2>5. queue' = queue \/ PushOk(a)  BY <2>3 DEF PushReturns, PushRaises, PushFails
  <2>6. everDead \subseteq everDead'  BY <2>3, PushTells
  <2>7. ASSUME NEW x \in Messages, Pair(x)' PROVE Behind(x, ExitOf[x])'
    <3>1. PICK e \in Messages : e = ExitOf[x]  BY <1>e
    <3>2. e # a /\ Behind(x, e)  BY <1>0, <2>4, <2>6, <2>7, <3>1 DEF Pair
    <3>3. Behind(x, e)'  BY <2>3, <2>5, <3>2, PushBehind
    <3> QED  BY <3>1, <3>3
  <2> QED  BY <1>0, <2>3, <2>7 DEF OrderInv
<1>6. CASE Validate
  <2>1. UNCHANGED <<answer, queue, held, applied, everDead>>
    BY <1>6 DEF Validate, past
  <2>2. Valid(held)  BY <1>6 DEF Validate, Valid
  <2> QED  BY <1>0, <2>1, <2>2 DEF OrderInv, Pair, Behind
<1>7. CASE UNCHANGED <<answer, queue, held, stage, applied, everDead>>
  BY <1>0, <1>7 DEF OrderInv, Pair, Behind
<1>8. ASSUME NEW c \in Admins, NEW op \in {"retry", "discard"}, FindLetter(c, op)
      PROVE  UNCHANGED <<answer, queue, held, stage, applied, everDead>>
  BY <1>8 DEF FindLetter, past
<1>9. ASSUME NEW c \in Admins, RemoveLetter(c)
      PROVE  UNCHANGED <<answer, queue, held, stage, applied, everDead>>
  BY <1>9 DEF RemoveLetter
<1>10. ASSUME Clear \/ Tick \/ UNCHANGED vars
       PROVE  UNCHANGED <<answer, queue, held, stage, applied, everDead>>
  BY <1>10 DEF Clear, Tick, vars, past
<1> QED  BY <1>1, <1>2, <1>3, <1>4, <1>5, <1>6, <1>7, <1>8, <1>9, <1>10
         DEF Next, WorkerStep, AdminStep

LEMMA OrderIsEntryFirst ==
  ASSUME TypeOK, OrderInv
  PROVE  EntryFirst
<1>1. SUFFICES ASSUME NEW i \in 1..Len(applied), NEW j \in 1..Len(applied), i < j,
                      applied[i] # applied[j], ExitOf[applied[i]] = applied[j],
                      applied[j] \notin everDead
               PROVE  FALSE
  BY DEF EntryFirst
<1>2. Len(applied) \in Nat /\ applied[i] \in Messages
  BY LenProperties, ElementOfSeq DEF TypeOK
<1>3. PICK x \in Messages : x = applied[i]  BY <1>2
<1>4. In(applied, x)  BY <1>3 DEF In
<1>5. Pair(x)  BY <1>1, <1>3, <1>4 DEF Pair, OrderInv
<1>6. Ahead(applied, applied[j], x)  BY <1>1, <1>3, <1>5 DEF OrderInv, Behind
<1>7. i \in 1..(j - 1)  BY <1>1, <1>2
<1> QED  BY <1>3, <1>6, <1>7 DEF Ahead

\* The list and the one worker keep the order of the webhooks through every
\* retry, crash and failed push: only an entry that was a dead letter for a
\* while can be processed after its exit.
THEOREM EntriesGoFirst == Spec => []EntryFirst
<1>1. Init => OrderInv
  BY EmptySeq, EmptyIn, ConstantsAssumption
     DEF Init, OrderInv, Behind, Ahead, Pair, Valid
<1>2. TypeOK /\ HeldInv /\ SentInv /\ OrderInv /\ [Next]_vars => OrderInv'
  BY OrderStep
<1>3. TypeOK /\ OrderInv => EntryFirst  BY OrderIsEntryFirst
<1> QED  BY <1>1, <1>2, <1>3, SentAlways, PTL DEF Spec
-----------------------------------------------------------------------------
(* The deliveries.  Two history variables record what EntryExecution calls *)
(* Deliveries and RcptOf: taken[d] is the message that the worker took to  *)
(* process_signal as its d-th, and `retried' are the messages that a retry *)
(* put back.                                                               *)

VARIABLES taken, retried

dvars == <<vars, taken, retried>>

PutBack == {m \in Messages : \E c \in Admins : Requeue(c) /\ admin[c].item.msg = m}

DInit == Init /\ taken = <<>> /\ retried = {}

DNext == /\ Next
         /\ taken' = IF Validate THEN Append(taken, held) ELSE taken
         /\ retried' = retried \cup PutBack

DSpec == DInit /\ [][DNext]_dvars

\* What EntryExecution assumes of its constants, said of the history.
DistinctDeliveries == \A d, e \in 1..Len(taken) : taken[d] = taken[e] => d = e

RepeatsAreRetried ==
  \A d, e \in 1..Len(taken) : taken[d] = taken[e] => d = e \/ taken[d] \in retried

\* A message waits once, and not any more when it has been taken.
WaitsOnce(m) ==
  /\ Once(queue, m) /\ Once(taken, m)
  /\ In(queue, m) => ~In(taken, m) /\ held # m
  /\ held = m /\ stage = "popped" => ~In(taken, m)
  /\ In(taken, m) => answer[m] # "none"

DType == taken \in Seq(Messages) /\ retried \subseteq Messages

WaitInv == \A m \in Messages \ retried : WaitsOnce(m)

\* A push is an append or nothing.
LEMMA PushAppends ==
  ASSUME TypeOK, NEW x \in Messages, PushReturns(x) \/ PushRaises(x) \/ PushOk(x), NEW m
  PROVE  /\ m # x => (In(queue', m) <=> In(queue, m))
         /\ Once(queue, m) /\ (m = x => ~In(queue, m)) => Once(queue', m)
<1>1. PushOk(x) => /\ In(queue', m) <=> In(queue, m) \/ x = m
                   /\ Once(queue, m) /\ (x = m => ~In(queue, m)) => Once(queue', m)
  BY AppendIn DEF PushOk, TypeOK
<1>2. PushOk(x) \/ queue' = queue
  BY DEF PushReturns, PushRaises, PushFails
<1> QED  BY <1>1, <1>2

\* A step that takes nothing to process_signal.
LEMMA WaitNext ==
  ASSUME TypeOK, HeldInv, SentInv, Next, taken' = taken,
         NEW m \in Messages, WaitsOnce(m), m \notin PutBack
  PROVE  WaitsOnce(m)'
<1>0. /\ Once(queue, m) /\ Once(taken, m)
      /\ In(queue, m) => ~In(taken, m) /\ held # m
      /\ held = m /\ stage = "popped" => ~In(taken, m)
      /\ In(taken, m) => answer[m] # "none"
      /\ answer[m] = "none" => ~In(queue, m) /\ held # m
  BY DEF WaitsOnce, SentInv
<1>1. ASSUME NEW x \in Messages, Webhook(x) \/ PushByHand(x) PROVE WaitsOnce(m)'
  <2>1. /\ answer[x] = "none" /\ UNCHANGED <<held, stage>>
        /\ PushReturns(x) \/ PushRaises(x) \/ PushOk(x)
        /\ answer'[x] # "none"
        /\ m # x => answer'[m] = answer[m]
    BY <1>1 DEF Webhook, PushByHand, TypeOK
  <2>2. /\ m # x => (In(queue', m) <=> In(queue, m))
        /\ Once(queue, m) /\ (m = x => ~In(queue, m)) => Once(queue', m)
    BY <2>1, PushAppends
  <2>3. CASE m = x  BY <1>0, <2>1, <2>2, <2>3 DEF WaitsOnce
  <2>4. CASE m # x  BY <1>0, <2>1, <2>2, <2>4 DEF WaitsOnce
  <2> QED  BY <2>3, <2>4
<1>2. CASE Pop
  <2>1. /\ In(queue, m) <=> In(queue', m) \/ held' = m
        /\ Once(queue, m) => Once(queue', m) /\ (held' = m => ~In(queue', m))
    BY <1>2, TailIn DEF Pop, TypeOK
  <2>2. answer' = answer  BY <1>2 DEF Pop
  <2> QED  BY <1>0, <2>1, <2>2 DEF WaitsOnce
<1>3. CASE Release /\ UNCHANGED <<answer, queue>>
  <2>1. held' # m  BY <1>3, ConstantsAssumption DEF Release
  <2> QED  BY <1>0, <1>3, <2>1 DEF WaitsOnce
<1>4. CASE Validate
  <2>1. stage' = "processing" /\ UNCHANGED <<answer, queue, held>>
    BY <1>4 DEF Validate
  <2> QED  BY <1>0, <2>1 DEF WaitsOnce
<1>5. ASSUME NEW c \in Admins, Requeue(c) PROVE WaitsOnce(m)'
  <2>1. admin[c] \in Request /\ admin[c] # Idle  BY <1>5 DEF Requeue, TypeOK
  <2>2. PICK x \in Messages : x = admin[c].item.msg
    BY <2>1, RequestFields, LetterFields
  <2>3. m # x  BY <1>5, <2>2 DEF PutBack
  <2>4. /\ PushReturns(x) \/ PushRaises(x) \/ PushOk(x)
        /\ UNCHANGED <<answer, held, stage>>
    BY <1>5, <2>2 DEF Requeue
  <2>5. /\ In(queue', m) <=> In(queue, m)
        /\ Once(queue, m) => Once(queue', m)
    BY <2>3, <2>4, PushAppends
  <2> QED  BY <1>0, <2>4, <2>5 DEF WaitsOnce
<1>6. CASE UNCHANGED <<answer, queue, held, stage>>
  BY <1>0, <1>6 DEF WaitsOnce
<1>7. \/ \E x \in Messages : Webhook(x) \/ PushByHand(x)
      \/ Pop \/ Validate
      \/ Release /\ UNCHANGED <<answer, queue>>
      \/ \E c \in Admins : Requeue(c)
      \/ UNCHANGED <<answer, queue, held, stage>>
  BY DEF Next, WorkerStep, AdminStep, Reject, Process, ProcessError, ProcessConnError,
         Crash, FindLetter, RemoveLetter, Clear, Tick
<1> QED  BY <1>1, <1>2, <1>3, <1>4, <1>5, <1>6, <1>7

\* The step that takes one.
LEMMA WaitTaken ==
  ASSUME TypeOK, HeldInv, SentInv, DType, Validate, taken' = Append(taken, held),
         NEW m \in Messages, WaitsOnce(m)
  PROVE  taken' \in Seq(Messages) /\ WaitsOnce(m)'
<1>0. /\ Once(queue, m) /\ Once(taken, m)
      /\ In(queue, m) => ~In(taken, m) /\ held # m
      /\ held = m /\ stage = "popped" => ~In(taken, m)
      /\ In(taken, m) => answer[m] # "none"
      /\ answer[m] = "none" => ~In(queue, m) /\ held # m
  BY DEF WaitsOnce, SentInv
<1>1. /\ stage = "popped" /\ stage' = "processing"
      /\ UNCHANGED <<answer, queue, held>>
  BY DEF Validate
<1>2. held \in Messages  BY <1>1, HeldMessage DEF HeldInv
<1>3. /\ In(taken', m) <=> In(taken, m) \/ held = m
      /\ Once(taken, m) /\ (held = m => ~In(taken, m)) => Once(taken', m)
  BY <1>2, AppendIn DEF DType
<1>4. taken' \in Seq(Messages)  BY <1>2, AppendProperties DEF DType
<1> QED  BY <1>0, <1>1, <1>3, <1>4 DEF WaitsOnce

LEMMA WaitStep ==
  ASSUME TypeOK, HeldInv, SentInv, DType, WaitInv, [DNext]_dvars
  PROVE  DType' /\ WaitInv'
<1>1. CASE DNext
  <2>1. retried' = retried \cup PutBack /\ PutBack \subseteq Messages
    BY <1>1 DEF DNext, PutBack
  <2>2. retried' \subseteq Messages  BY <2>1 DEF DType
  <2>3. ASSUME NEW m \in Messages \ retried' PROVE WaitsOnce(m) /\ m \notin PutBack
    BY <2>1, <2>3 DEF WaitInv
  <2>4. CASE Validate
    <3>1. taken' = Append(taken, held)  BY <1>1, <2>4 DEF DNext
    <3>2. held \in Messages  BY <2>4, HeldMessage DEF HeldInv, Validate
    <3>3. taken' \in Seq(Messages)  BY <3>1, <3>2, AppendProperties DEF DType
    <3>4. ASSUME NEW m \in Messages \ retried' PROVE WaitsOnce(m)'
      BY <2>3, <2>4, <3>1, WaitTaken
    <3> QED  BY <2>2, <3>3, <3>4 DEF DType, WaitInv
  <2>5. CASE ~Validate
    <3>1. Next /\ taken' = taken  BY <1>1, <2>5 DEF DNext
    <3>2. ASSUME NEW m \in Messages \ retried' PROVE WaitsOnce(m)'
      BY <2>3, <3>1, WaitNext
    <3> QED  BY <2>2, <3>1, <3>2 DEF DType, WaitInv
  <2> QED  BY <2>4, <2>5
<1>2. CASE UNCHANGED dvars
  BY <1>2 DEF dvars, vars, DType, WaitInv, WaitsOnce
<1> QED  BY <1>1, <1>2

\* Whatever fails, whatever is pushed twice and however the admin requests race,
\* only a retry of its dead letter brings a message to process_signal again.
THEOREM RepeatsComeFromRetries == DSpec => []RepeatsAreRetried
<1>1. DInit => DType /\ WaitInv
  <2>1. \A m : ~In(<<>>, m) /\ Once(<<>>, m) /\ <<>> \in Seq(Messages)
    BY EmptyIn, EmptySeq, Zenon
  <2>2. ASSUME DInit PROVE /\ queue = <<>> /\ taken = <<>> /\ retried = {}
                           /\ held = Nobody /\ stage = "idle"
    BY <2>2 DEF DInit, Init
  <2> QED  BY <2>1, <2>2 DEF DType, WaitInv, WaitsOnce
<1>2. TypeOK /\ HeldInv /\ SentInv /\ DType /\ WaitInv /\ [DNext]_dvars
      => DType' /\ WaitInv'
  BY WaitStep
<1>3. DType /\ WaitInv => RepeatsAreRetried
  <2>1. SUFFICES ASSUME DType, WaitInv, NEW d \in 1..Len(taken), NEW e \in 1..Len(taken),
                        taken[d] = taken[e], taken[d] \notin retried
                 PROVE  d = e
    BY DEF RepeatsAreRetried
  <2>2. taken[d] \in Messages  BY <2>1, ElementOfSeq DEF DType
  <2>3. Once(taken, taken[d])  BY <2>1, <2>2 DEF WaitInv, WaitsOnce
  <2> QED  BY <2>1, <2>3 DEF Once
<1>4. DSpec => Spec
  <2>1. DInit => Init  BY DEF DInit
  <2>2. [DNext]_dvars => [Next]_vars  BY DEF DNext, dvars
  <2> QED  BY <2>1, <2>2, PTL DEF DSpec, Spec
<1> QED  BY <1>1, <1>2, <1>3, <1>4, SentAlways, PTL DEF DSpec

\* Without a retry every request only discards, and nothing is put back.
NoRetryInv ==
  /\ retried = {}
  /\ \A c \in Admins : admin[c] # Idle => admin[c].op = "discard" /\ admin[c].step = "read"

LEMMA NoRetryStep ==
  ASSUME MaxRetries = 0, TypeOK, NoRetryInv, [DNext]_dvars
  PROVE  NoRetryInv'
<1>0. /\ retried = {}
      /\ \A c \in Admins : admin[c] # Idle => admin[c].op = "discard" /\ admin[c].step = "read"
  BY DEF NoRetryInv
<1>1. \A c \in Admins : ~Requeue(c)
  <2>1. "read" # "removed"  OBVIOUS
  <2> QED  BY <1>0, <2>1 DEF Requeue
<1>2. retried' = {}  BY <1>0, <1>1 DEF DNext, dvars, PutBack
<1>3. ASSUME NEW c \in Admins, NEW op \in {"retry", "discard"}, FindLetter(c, op)
      PROVE  NoRetryInv'
  <2>1. op = "discard"
    <3>1. retries = 0  BY DEF TypeOK
    <3> QED  BY <1>3, <3>1 DEF FindLetter
  <2>2. PICK l \in dead : admin' = [admin EXCEPT ![c] = [op |-> op, step |-> "read", item |-> l]]
    BY <1>3 DEF FindLetter, FirstWithId
  <2>3. admin'[c].op = "discard" /\ admin'[c].step = "read"
    BY <2>1, <2>2 DEF TypeOK
  <2>4. \A d \in Admins : d # c => admin'[d] = admin[d]  BY <2>2 DEF TypeOK
  <2> QED  BY <1>0, <1>2, <2>3, <2>4 DEF NoRetryInv
<1>4. ASSUME NEW c \in Admins, RemoveLetter(c) PROVE NoRetryInv'
  <2>1. admin[c].op = "discard"  BY <1>0, <1>4 DEF RemoveLetter
  <2>2. admin' = [admin EXCEPT ![c] = Idle]  BY <1>4, <2>1 DEF RemoveLetter
  <2>3. \A d \in Admins : admin'[d] # Idle => admin'[d] = admin[d]
    BY <2>2 DEF TypeOK
  <2> QED  BY <1>0, <1>2, <2>3 DEF NoRetryInv
<1>5. CASE admin' = admin
  BY <1>0, <1>2, <1>5 DEF NoRetryInv
<1>6. \/ \E c \in Admins, op \in {"retry", "discard"} : FindLetter(c, op)
      \/ \E c \in Admins : RemoveLetter(c)
      \/ admin' = admin
  BY <1>1 DEF DNext, dvars, vars, Next, WorkerStep, AdminStep, Webhook, PushByHand, Pop,
              Reject, Validate, Process, ProcessError, ProcessConnError, Crash, Clear, Tick
<1> QED  BY <1>3, <1>4, <1>5, <1>6

\* EntryExecution's DistinctReceipts, of every prefix of the deliveries: if no
\* dead letter is retried no two deliveries carry one message, although pushes
\* fail after they took effect and workers crash.
THEOREM DeliveriesAreDistinct ==
  ASSUME MaxRetries = 0
  PROVE  DSpec => []DistinctDeliveries
<1>1. DInit => NoRetryInv  BY DEF DInit, Init, NoRetryInv
<1>2. TypeOK /\ NoRetryInv /\ [DNext]_dvars => NoRetryInv'  BY NoRetryStep
<1>3. NoRetryInv /\ RepeatsAreRetried => DistinctDeliveries
  BY DEF NoRetryInv, RepeatsAreRetried, DistinctDeliveries
<1>4. DSpec => Spec
  <2>1. DInit => Init  BY DEF DInit
  <2>2. [DNext]_dvars => [Next]_vars  BY DEF DNext, dvars
  <2> QED  BY <2>1, <2>2, PTL DEF DSpec, Spec
<1> QED  BY <1>1, <1>2, <1>3, <1>4, TypeCorrect, RepeatsComeFromRetries, PTL DEF DSpec
=============================================================================
