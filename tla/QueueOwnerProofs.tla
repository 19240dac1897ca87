-------------------------- MODULE QueueOwnerProofs --------------------------
(* Theorems about QueueOwner, for any number of prompts and of closes, any *)
(* depth of the queue and any agent; and about OwnerClient, for any number *)
(* of owners, of their crashes, of spawns and of submissions.              *)
EXTENDS QueueOwner, OwnerClient, SequenceTheorems, TLAPS

(* The state of the loop and of the closes keeps its type.                 *)
LEMMA ControlTypeCorrect == Spec => []ControlTypeOK
<1> USE OwnerAssumption
    DEF ControlTypeOK, BackendKinds, Loops, Turn, Between, Capturing, Handling, Ending,
        Ended, custody, closing
<1>1. Init => ControlTypeOK
  BY DEF Init
<1>2. ControlTypeOK /\ [Next]_vars => ControlTypeOK'
  <2> SUFFICES ASSUME ControlTypeOK, [Next]_vars PROVE ControlTypeOK'
    OBVIOUS
  <2>1. CASE UNCHANGED vars
    BY <2>1 DEF vars
  <2>2. CASE TurnStep
    <3>1. CASE BeginTurn \/ TurnRefused \/ OpenMain \/ RegisterHandler \/ Answered
      BY <3>1 DEF BeginTurn, TurnRefused, OpenMain, RegisterHandler, Answered, EndTurn
    <3>2. CASE \/ StopInjecting \/ InjectedCut \/ SpliceAbsorbed
               \/ \E t \in Tasks : CutInjected(t) \/ WriteAbsorbed(t)
      BY <3>2 DEF StopInjecting, CutInjected, InjectedCut, SpliceAbsorbed, WriteAbsorbed
    <3>3. CASE ClaimMain \/ WriteMain
      BY <3>3 DEF ClaimMain, WriteMain, EndTurn
    <3> QED
      BY <2>2, <3>1, <3>2, <3>3 DEF TurnStep
  <2>3. CASE LoopStep \/ WaitTimesOut
    <3>1. CASE TakeNext \/ Park \/ IdleDecision \/ Release \/ WaitTimesOut
      BY <3>1 DEF WaitTimesOut, TakeNext, Park, IdleDecision, Release, HandOut
    <3>2. CASE NoDeferredClose \/ RefuseDeferredClose \/ PerformDeferredClose \/ CloseRecorded
      BY <3>2 DEF NoDeferredClose, RefuseDeferredClose, PerformDeferredClose, CloseRecorded,
         QuiesceAndEmpty
    <3>3. CASE Resume \/ Close \/ Exit
      BY <3>3 DEF Resume, Close, Exit, ProcessEnds, QuiesceAndEmpty
    <3> QED
      BY <2>3, <3>1, <3>2, <3>3 DEF LoopStep
  <2>4. ASSUME NEW t \in Tasks, Submit(t) \/ SteerStep(t) PROVE ControlTypeOK'
    BY <2>4 DEF Submit, SubmitToTurn, SubmitToWaiter, SubmitToQueue, SubmitTurnedAway,
       Accepts, HandOut, SteerStep, SteerOpens, SteerAnswered, SteerWritten
  <2>5. ASSUME NEW r \in Requests, NEW b \in BOOLEAN,
               RequestDrain(r, b) \/ DrainStep(r) \/ ScheduleClose(r, b)
        PROVE  ControlTypeOK'
    <3>1. ASSUME Check(r), UNCHANGED <<backend, deferred, live>> PROVE ControlTypeOK'
      <4>1. closePending' \in BOOLEAN /\ draining' \in BOOLEAN
        BY <3>1 DEF Check, Abort, QuiesceAndEmpty
      <4>2. loop' \in Loops
        BY <3>1 DEF Check, Abort, HandOut
      <4>3. drain' \in [Requests -> {"idle", "checking", "settling", "done"}]
        BY <3>1 DEF Check
      <4> QED
        BY <3>1, <4>1, <4>2, <4>3
    <3>2. CASE RequestDrain(r, b)
      <4>1. CASE b /\ ~draining /\ ~closePending
        BY <3>1, <3>2, <4>1 DEF RequestDrain
      <4>2. CASE ~(b /\ ~draining /\ ~closePending)
        <5>1. /\ draining' = TRUE /\ UNCHANGED <<closePending, loop, backend, deferred, live>>
              /\ drain' = [drain EXCEPT ![r] = IF ActiveTurn THEN "settling" ELSE "done"]
          BY <3>2, <4>2 DEF RequestDrain, Quiesce, QuiesceAndEmpty
        <5> QED
          BY <5>1
      <4> QED
        BY <4>1, <4>2
    <3>3. CASE DrainStep(r)
      <4>1. CASE DrainPolls(r)
        BY <3>1, <4>1 DEF DrainPolls
      <4>2. CASE DrainSettles(r)
        BY <4>2 DEF DrainSettles, QuiesceAndEmpty
      <4> QED
        BY <3>3, <4>1, <4>2 DEF DrainStep
    <3>4. CASE ScheduleClose(r, b)
      BY <3>4 DEF ScheduleClose
    <3> QED
      BY <2>5, <3>2, <3>3, <3>4
  <2>6. CASE FatalSignal \/ Crash \/ TaskChanges
    <3>1. ASSUME NEW how \in {"stopped", "crashed"}, ProcessEnds(how) PROVE ControlTypeOK'
      BY <3>1 DEF ProcessEnds
    <3>2. CASE TaskChanges
      BY <3>2 DEF TaskChanges
    <3> QED
      BY <2>6, <3>1, <3>2 DEF FatalSignal, Crash
  <2> QED
    BY <2>1, <2>2, <2>3, <2>4, <2>5, <2>6 DEF Next
<1> QED
  BY <1>1, <1>2, PTL DEF Spec

(* What a turn did not take, put back by arrival, is a queue of prompts.   *)
LEMMA RequeuedIsQueue ==
  ASSUME NEW q, q \in Requeued, pending \in Seq(Tasks), buffer \in Seq(Tasks)
  PROVE  q \in Seq(Tasks)
<1> DEFINE both == buffer \o pending
<1>1. both \in Seq(Tasks) /\ Len(both) \in Nat
  OBVIOUS
<1>2. Elements(both) \subseteq Tasks
  BY <1>1 DEF Elements
<1>3. q \in [1..Len(both) -> Tasks]
  BY <1>2 DEF Requeued
<1>4. \A n \in Nat : \A f \in [1..n -> Tasks] : f \in Seq(Tasks)
  OBVIOUS
<1> QED
  BY <1>1, <1>3, <1>4

(* An outcome settled for prompts is one more outcome of them.             *)
LEMMA SettleTyped ==
  ASSUME NEW ts, NEW value \in Outcomes, Settle(ts, value),
         outcome \in [Tasks -> Seq(Outcomes)]
  PROVE  outcome' \in [Tasks -> Seq(Outcomes)]
BY DEF Settle

(* The prompts, wherever they are, keep their types.                       *)
LEMMA CustodyTypeCorrect == Spec => []CustodyTypeOK
<1> USE OwnerAssumption DEF CustodyTypeOK, Steers, custody, closing
<1>1. Init => CustodyTypeOK
  BY DEF Init
<1>2. CustodyTypeOK /\ [Next]_vars => CustodyTypeOK'
  <2> SUFFICES ASSUME CustodyTypeOK, [Next]_vars PROVE CustodyTypeOK'
    OBVIOUS
  <2>a. \A value \in {"told", "closed_undelivered", "shutdown", "refused", "settled",
                      "at_close", "unknown"} : value \in Outcomes
    BY DEF Outcomes
  <2>b. NoTask \in Tasks \cup {NoTask}
    OBVIOUS
  <2>1. CASE UNCHANGED vars
    BY <2>1 DEF vars
  <2>2. CASE TurnStep
    <3>1. CASE BeginTurn \/ OpenMain \/ Answered \/ StopInjecting \/ InjectedCut \/ ClaimMain
      BY <3>1 DEF BeginTurn, OpenMain, Answered, StopInjecting, InjectedCut, ClaimMain
    <3>2. CASE TurnRefused
      BY <3>2, <2>a, RequeuedIsQueue, SettleTyped DEF TurnRefused, EndTurn
    <3>3. CASE RegisterHandler
      <4>1. steer' \in [Tasks -> Steers]
        BY <3>3 DEF RegisterHandler
      <4>2. buffer' = buffer \/ buffer' = <<>>
        BY <3>3 DEF RegisterHandler
      <4>3. UNCHANGED <<hand, pending, arrived, outcome>>
        BY <3>3 DEF RegisterHandler
      <4>4. buffer' \in Seq(Tasks)
        <5>1. buffer \in Seq(Tasks)
          OBVIOUS
        <5>2. <<>> \in Seq(Tasks)
          OBVIOUS
        <5> QED
          BY Zenon, <4>2, <5>1, <5>2
      <4> QED
        BY <4>1, <4>3, <4>4
    <3>4. ASSUME NEW t \in Tasks, CutInjected(t) PROVE CustodyTypeOK'
      BY <3>4, <2>a, SettleTyped DEF CutInjected
    <3>5. CASE SpliceAbsorbed
      BY <3>5 DEF SpliceAbsorbed
    <3>6. ASSUME NEW t \in Tasks, WriteAbsorbed(t) PROVE CustodyTypeOK'
      BY <3>6, <2>a, SettleTyped DEF WriteAbsorbed
    <3>7. CASE WriteMain
      BY <3>7, <2>a, RequeuedIsQueue, SettleTyped DEF WriteMain, EndTurn
    <3> QED
      BY <2>2, <3>1, <3>2, <3>3, <3>4, <3>5, <3>6, <3>7 DEF TurnStep
  <2>3. CASE LoopStep \/ WaitTimesOut
    <3>1. CASE TakeNext
      BY <3>1 DEF TakeNext, HandOut
    <3>2. CASE Park \/ WaitTimesOut \/ IdleDecision \/ Release
      BY <3>2 DEF Park, WaitTimesOut, IdleDecision, Release
    <3>3. CASE NoDeferredClose \/ RefuseDeferredClose \/ CloseRecorded \/ Resume
      BY <3>3 DEF NoDeferredClose, RefuseDeferredClose, CloseRecorded, Resume
    <3>4. CASE PerformDeferredClose
      BY <3>4, <2>a, SettleTyped DEF PerformDeferredClose, QuiesceAndEmpty
    <3>5. CASE Close
      BY <3>5, <2>a, SettleTyped DEF Close, DrainOutcome
    <3>6. CASE Exit
      BY <3>6 DEF Exit, ProcessEnds
    <3> QED
      BY <2>3, <3>1, <3>2, <3>3, <3>4, <3>5, <3>6 DEF LoopStep
  <2>4. ASSUME NEW t \in Tasks, Submit(t) PROVE CustodyTypeOK'
    <3>1. arrived' \in 0..MaxTasks
      BY <2>4 DEF Submit, SubmitToTurn, SubmitToWaiter, SubmitToQueue, SubmitTurnedAway,
         Accepts, Tasks
    <3>2. outcome' \in [Tasks -> Seq(Outcomes)]
      BY <2>4, <2>a, SettleTyped DEF Submit, SubmitToTurn, SubmitToWaiter, SubmitToQueue,
         SubmitTurnedAway
    <3>3. steer' \in [Tasks -> Steers]
      BY <2>4 DEF Submit, SubmitToTurn, SubmitToWaiter, SubmitToQueue, SubmitTurnedAway
    <3>4. buffer' \in Seq(Tasks) /\ pending' \in Seq(Tasks)
      <4>1. Append(buffer, t) \in Seq(Tasks) /\ Append(pending, t) \in Seq(Tasks)
        OBVIOUS
      <4> QED
        BY <2>4, <4>1 DEF Submit, SubmitToTurn, SubmitToWaiter, SubmitToQueue,
           SubmitTurnedAway
    <3>5. hand' \in Tasks \cup {NoTask}
      BY <2>4 DEF Submit, SubmitToTurn, SubmitToWaiter, SubmitToQueue, SubmitTurnedAway,
         HandOut
    <3> QED
      BY <3>1, <3>2, <3>3, <3>4, <3>5
  <2>5. ASSUME NEW t \in Tasks, SteerStep(t) PROVE CustodyTypeOK'
    <3>1. outcome' \in [Tasks -> Seq(Outcomes)]
      <4>1. CASE SteerWritten(t)
        <5>1. Append(outcome[t], "settled") \in Seq(Outcomes)
          BY <2>a
        <5> QED
          BY <4>1, <5>1 DEF SteerWritten
      <4> QED
        BY <2>5, <4>1 DEF SteerStep, SteerOpens, SteerAnswered
    <3>2. steer' \in [Tasks -> Steers]
      BY <2>5 DEF SteerStep, SteerOpens, SteerAnswered, SteerWritten
    <3>3. UNCHANGED <<hand, pending, buffer, arrived>>
      BY <2>5 DEF SteerStep, SteerOpens, SteerAnswered, SteerWritten
    <3> QED
      BY <3>1, <3>2, <3>3
  <2>6. ASSUME NEW r \in Requests, NEW b \in BOOLEAN, RequestDrain(r, b) \/ DrainStep(r)
        PROVE  CustodyTypeOK'
    <3>a. ASSUME QuiesceAndEmpty, UNCHANGED <<steer, arrived, hand>> PROVE CustodyTypeOK'
      BY <3>a, <2>a, SettleTyped DEF QuiesceAndEmpty
    <3>b. ASSUME Abort, UNCHANGED <<steer, arrived, buffer, outcome>> PROVE CustodyTypeOK'
      <4>1. CASE pending # <<>> /\ HandOut(Head(pending)) /\ pending' = Tail(pending)
        <5>1. Head(pending) \in Tasks /\ Tail(pending) \in Seq(Tasks)
          BY <4>1
        <5> QED
          BY <3>b, <4>1, <5>1 DEF HandOut
      <4>2. CASE UNCHANGED <<loop, hand, pending>>
        BY <3>b, <4>2
      <4> QED
        BY <3>b, <4>1, <4>2 DEF Abort
    <3>1. ASSUME Check(r), UNCHANGED <<steer, arrived>> PROVE CustodyTypeOK'
      BY <3>1, <3>a, <3>b DEF Check
    <3>2. CASE DrainSettles(r)
      BY <3>2, <3>a DEF DrainSettles
    <3>3. CASE DrainPolls(r)
      BY <3>3, <3>1 DEF DrainPolls
    <3>4. CASE RequestDrain(r, b)
      BY <3>4, <3>1, <3>a DEF RequestDrain, Quiesce
    <3> QED
      BY <2>6, <3>2, <3>3, <3>4 DEF DrainStep
  <2>7. ASSUME NEW r \in Requests, NEW b \in BOOLEAN, ScheduleClose(r, b) PROVE CustodyTypeOK'
    BY <2>7 DEF ScheduleClose
  <2>8. CASE FatalSignal
    <3>1. outcome' \in [Tasks -> Seq(Outcomes)]
      BY <2>8, <2>a DEF FatalSignal, DrainOutcome
    <3> QED
      BY <2>8, <3>1 DEF FatalSignal, ProcessEnds
  <2>9. CASE Crash
    BY <2>9 DEF Crash, ProcessEnds
  <2>10. CASE TaskChanges
    BY <2>10 DEF TaskChanges
  <2> QED
    BY <2>1, <2>2, <2>3, <2>4, <2>5, <2>6, <2>7, <2>8, <2>9, <2>10 DEF Next
<1> QED
  BY <1>1, <1>2, PTL DEF Spec

(* Every reachable state has its type.                                     *)
THEOREM TypeCorrect == Spec => []TypeOK
BY ControlTypeCorrect, CustodyTypeCorrect, PTL DEF TypeOK

(* While the loop sleeps, no close is recorded for the turn's end: the     *)
(* close that is recorded wakes it, and it does not go to sleep on one.    *)
ParkedIsFree == loop = "parked" => deferred = "none"

LEMMA ParkedIsFreeAlways == Spec => []ParkedIsFree
<1> USE DEF ParkedIsFree
<1>1. Init => ParkedIsFree
  BY DEF Init
<1>2. ParkedIsFree /\ [Next]_vars => ParkedIsFree'
  <2> SUFFICES ASSUME ParkedIsFree, [Next]_vars PROVE ParkedIsFree'
    OBVIOUS
  <2> USE DEF custody, closing
  <2>1. CASE UNCHANGED vars
    BY <2>1 DEF vars
  <2>2. CASE TurnStep
    BY <2>2 DEF TurnStep, BeginTurn, TurnRefused, OpenMain, RegisterHandler, Answered,
       StopInjecting, CutInjected, InjectedCut, SpliceAbsorbed, WriteAbsorbed,
       ClaimMain, WriteMain, EndTurn
  <2>3. CASE LoopStep \/ WaitTimesOut
    BY <2>3 DEF LoopStep, WaitTimesOut, TakeNext, Park, IdleDecision, Release, HandOut,
       NoDeferredClose, RefuseDeferredClose, PerformDeferredClose, CloseRecorded, Resume,
       Close, Exit, ProcessEnds, QuiesceAndEmpty
  <2>4. ASSUME NEW t \in Tasks, Submit(t) \/ SteerStep(t) PROVE ParkedIsFree'
    BY <2>4 DEF Submit, SubmitToTurn, SubmitToWaiter, SubmitToQueue, SubmitTurnedAway,
       Accepts, HandOut, SteerStep, SteerOpens, SteerAnswered, SteerWritten
  <2>5. ASSUME NEW r \in Requests, NEW b \in BOOLEAN,
               RequestDrain(r, b) \/ DrainStep(r) \/ ScheduleClose(r, b)
        PROVE  ParkedIsFree'
    BY <2>5 DEF RequestDrain, DrainStep, DrainPolls, DrainSettles, ScheduleClose, Check,
       Abort, HandOut, QuiesceAndEmpty, Quiesce
  <2>6. CASE FatalSignal \/ Crash \/ TaskChanges
    BY <2>6 DEF FatalSignal, Crash, ProcessEnds, TaskChanges
  <2> QED
    BY <2>1, <2>2, <2>3, <2>4, <2>5, <2>6 DEF Next
<1> QED
  BY <1>1, <1>2, PTL DEF Spec

(* A prompt comes to the loop by three ways, and past no close by any.     *)
LEMMA NewInHandIsGuarded ==
  ASSUME ParkedIsFree, [Next]_vars, NewInHand
  PROVE  ~draining' /\ ~closePending' /\ deferred = "none"
<1> USE DEF NewInHand, ParkedIsFree, custody, closing, HandOut
<1>1. CASE UNCHANGED vars
  BY <1>1 DEF vars
<1>2. CASE TurnStep
  BY <1>2 DEF TurnStep, BeginTurn, TurnRefused, OpenMain, RegisterHandler, Answered,
     StopInjecting, CutInjected, InjectedCut, SpliceAbsorbed, WriteAbsorbed,
     ClaimMain, WriteMain, EndTurn
<1>3. CASE LoopStep \/ WaitTimesOut
  BY <1>3 DEF LoopStep, WaitTimesOut, TakeNext, Park, IdleDecision, Release,
     NoDeferredClose, RefuseDeferredClose, PerformDeferredClose, CloseRecorded, Resume,
     Close, Exit, ProcessEnds
<1>4. ASSUME NEW t \in Tasks, Submit(t) \/ SteerStep(t)
      PROVE  ~draining' /\ ~closePending' /\ deferred = "none"
  BY <1>4 DEF Submit, SubmitToTurn, SubmitToWaiter, SubmitToQueue, SubmitTurnedAway,
     Accepts, SteerStep, SteerOpens, SteerAnswered, SteerWritten
<1>5. ASSUME NEW r \in Requests, NEW b \in BOOLEAN,
             RequestDrain(r, b) \/ DrainStep(r) \/ ScheduleClose(r, b)
      PROVE  ~draining' /\ ~closePending' /\ deferred = "none"
  BY <1>5 DEF RequestDrain, DrainStep, DrainPolls, DrainSettles, ScheduleClose, Check,
     Abort
<1>6. CASE FatalSignal \/ Crash \/ TaskChanges
  BY <1>6 DEF FatalSignal, Crash, ProcessEnds, TaskChanges
<1> QED
  BY <1>1, <1>2, <1>3, <1>4, <1>5, <1>6 DEF Next

(* However many closes of whatever kind overlap, no prompt is handed out   *)
(* while one is pending or under way, nor past one recorded for the end of *)
(* the turn.                                                               *)
THEOREM NothingEverStartsWhileClosing == Spec => NothingStartsWhileClosing
<1>1. ParkedIsFree /\ [Next]_vars
        => [NewInHand => ~draining' /\ ~closePending' /\ deferred = "none"]_vars
  BY NewInHandIsGuarded
<1> QED
  BY <1>1, ParkedIsFreeAlways, PTL DEF Spec, NothingStartsWhileClosing

-----------------------------------------------------------------------------
(* The order of the queue.                                                 *)

(* The prompts in a queue that grows at its end, or is joined to another.  *)
LEMMA ElementsOfAppend ==
  ASSUME NEW s \in Seq(Tasks), NEW t \in Tasks
  PROVE  Elements(Append(s, t)) = Elements(s) \cup {t}
<1> DEFINE longer == Append(s, t)
<1>1. /\ DOMAIN s = 1..Len(s) /\ Len(s) \in Nat /\ DOMAIN longer = 1..(Len(s) + 1)
      /\ longer[Len(s) + 1] = t /\ \A i \in 1..Len(s) : longer[i] = s[i]
  OBVIOUS
<1> HIDE DEF longer
<1>2. Elements(longer) \subseteq Elements(s) \cup {t}
  BY <1>1 DEF Elements
<1>3. t \in Elements(longer)
  <2>1. Len(s) + 1 \in DOMAIN longer
    BY <1>1
  <2> QED
    BY <1>1, <2>1 DEF Elements
<1>4. Elements(s) \subseteq Elements(longer)
  <2>1. \A i \in 1..Len(s) : i \in DOMAIN longer
    BY <1>1
  <2> QED
    BY <1>1, <2>1 DEF Elements
<1> QED
  BY <1>2, <1>3, <1>4 DEF longer

LEMMA ElementsOfBoth ==
  ASSUME NEW s \in Seq(Tasks), NEW r \in Seq(Tasks)
  PROVE  Elements(s \o r) = Elements(s) \cup Elements(r)
<1> DEFINE both == s \o r
<1>1. /\ DOMAIN s = 1..Len(s) /\ Len(s) \in Nat /\ DOMAIN r = 1..Len(r) /\ Len(r) \in Nat
      /\ DOMAIN both = 1..(Len(s) + Len(r))
      /\ \A i \in 1..Len(s) : both[i] = s[i]
      /\ \A i \in 1..Len(r) : both[Len(s) + i] = r[i]
  OBVIOUS
<1> HIDE DEF both
<1>2. ASSUME NEW i \in DOMAIN both PROVE both[i] \in Elements(s) \cup Elements(r)
  <2>1. CASE i <= Len(s)
    BY <1>1, <2>1 DEF Elements
  <2>2. CASE ~(i <= Len(s))
    <3>1. i - Len(s) \in DOMAIN r /\ Len(s) + (i - Len(s)) = i
      BY <1>1, <2>2
    <3>2. both[i] = r[i - Len(s)]
      BY <1>1, <3>1
    <3> QED
      BY <3>1, <3>2 DEF Elements
  <2> QED
    BY <2>1, <2>2
<1>3. \A i \in DOMAIN s : i \in DOMAIN both
  BY <1>1
<1>4. \A i \in DOMAIN r : Len(s) + i \in DOMAIN both
  BY <1>1
<1> QED
  <2>1. Elements(both) \subseteq Elements(s) \cup Elements(r)
    BY <1>2 DEF Elements
  <2>2. Elements(s) \subseteq Elements(both)
    BY <1>1, <1>3 DEF Elements
  <2>3. Elements(r) \subseteq Elements(both)
    BY <1>1, <1>4 DEF Elements
  <2> QED
    BY <2>1, <2>2, <2>3 DEF both

(* What is not in the rest of a queue is its head.                         *)
LEMMA HeadAndTail ==
  ASSUME NEW s \in Seq(Tasks), s # <<>>
  PROVE  Elements(s) \subseteq Elements(Tail(s)) \cup {Head(s)}
<1> DEFINE rest == Tail(s)
<1>1. /\ DOMAIN s = 1..Len(s) /\ Len(s) \in Nat /\ Len(s) >= 1
      /\ DOMAIN rest = 1..(Len(s) - 1) /\ \A i \in 1..(Len(s) - 1) : rest[i] = s[i + 1]
      /\ Head(s) = s[1]
  OBVIOUS
<1> HIDE DEF rest
<1> SUFFICES ASSUME NEW i \in DOMAIN s, i # 1 PROVE s[i] \in Elements(rest)
  BY <1>1 DEF Elements, rest
<1>2. i - 1 \in 1..(Len(s) - 1) /\ (i - 1) + 1 = i
  BY <1>1
<1>3. rest[i - 1] = s[i]
  BY <1>1, <1>2
<1> QED
  BY <1>1, <1>2, <1>3 DEF Elements

(* The head of a queue in order of arrival arrived before what follows.    *)
LEMMA OldestAtHead ==
  ASSUME NEW s \in Seq(Tasks), s # <<>>, InArrivalOrder(s)
  PROVE  /\ Head(s) \in Elements(s)
         /\ Elements(Tail(s)) = Elements(s) \ {Head(s)}
         /\ \A t \in Elements(Tail(s)) : Head(s) < t
         /\ InArrivalOrder(Tail(s))
<1> DEFINE rest == Tail(s)
<1>1. /\ DOMAIN s = 1..Len(s) /\ Len(s) \in Nat /\ Len(s) >= 1
      /\ DOMAIN rest = 1..(Len(s) - 1) /\ \A i \in 1..(Len(s) - 1) : rest[i] = s[i + 1]
      /\ Head(s) = s[1] /\ \A i \in 1..Len(s) : s[i] \in Tasks
  OBVIOUS
<1> HIDE DEF rest
<1>2. \A i \in 1..(Len(s) - 1) : i + 1 \in DOMAIN s /\ 1 < i + 1
  BY <1>1
<1>3. 1 \in DOMAIN s
  BY <1>1
<1>4. \A t \in Elements(rest) : t \in Elements(s) /\ Head(s) < t
  BY <1>1, <1>2, <1>3 DEF Elements, InArrivalOrder
<1>5. Elements(s) \subseteq Elements(rest) \cup {Head(s)}
  BY HeadAndTail DEF rest
<1>6. InArrivalOrder(rest)
  <2> SUFFICES ASSUME NEW i \in DOMAIN rest, NEW j \in DOMAIN rest, i < j
               PROVE  rest[i] < rest[j]
    BY DEF InArrivalOrder
  <2>1. i + 1 \in DOMAIN s /\ j + 1 \in DOMAIN s /\ i + 1 < j + 1
    BY <1>1
  <2> QED
    BY <1>1, <2>1 DEF InArrivalOrder
<1>7. Head(s) \in Tasks /\ ~(Head(s) < Head(s))
  BY <1>1, <1>3 DEF Tasks
<1> QED
  BY <1>1, <1>3, <1>4, <1>5, <1>6, <1>7 DEF rest, Elements

(* A prompt that arrived after all of a queue may go behind them.          *)
LEMMA OrderOfAppend ==
  ASSUME NEW s \in Seq(Tasks), NEW t \in Tasks, InArrivalOrder(s),
         \A x \in Elements(s) : x < t
  PROVE  InArrivalOrder(Append(s, t))
<1> DEFINE longer == Append(s, t)
<1>1. /\ DOMAIN s = 1..Len(s) /\ Len(s) \in Nat /\ DOMAIN longer = 1..(Len(s) + 1)
      /\ longer[Len(s) + 1] = t /\ \A i \in 1..Len(s) : longer[i] = s[i]
  OBVIOUS
<1> HIDE DEF longer
<1> SUFFICES ASSUME NEW i \in DOMAIN longer, NEW j \in DOMAIN longer, i < j
             PROVE  longer[i] < longer[j]
  BY DEF InArrivalOrder, longer
<1>2. i \in DOMAIN s
  BY <1>1
<1>3. CASE j = Len(s) + 1
  BY <1>1, <1>2, <1>3 DEF Elements
<1>4. CASE j # Len(s) + 1
  BY <1>1, <1>2, <1>4 DEF InArrivalOrder
<1> QED
  BY <1>3, <1>4

(* What a step may do to the queue, the buffer and the prompt in hand.     *)
Arrives(t) == t = arrived + 1 /\ arrived' = t
QueueStays == UNCHANGED <<pending, buffer>>
Taken(t) == hand' = t /\ loop = "parked" /\ ~draining /\ ~closePending
NoneTaken == hand' = hand \/ hand' = NoTask

QueueMoves ==
  \/ UNCHANGED arrived /\ QueueStays /\ NoneTaken
  \/ \E t \in Tasks : Arrives(t) /\ QueueStays /\ (Taken(t) \/ hand' = hand)
  \/ \E t \in Tasks :
       Arrives(t) /\ pending' = Append(pending, t) /\ UNCHANGED <<hand, buffer>>
  \/ \E t \in Tasks :
       Arrives(t) /\ buffer' = Append(buffer, t) /\ UNCHANGED <<hand, pending>>
  \/ /\ pending # <<>> /\ pending' = Tail(pending) /\ hand' = Head(pending)
     /\ UNCHANGED <<arrived, buffer>>
  \/ UNCHANGED arrived /\ pending' = <<>> /\ buffer' \in {buffer, <<>>} /\ NoneTaken
  \/ UNCHANGED <<arrived, hand, pending>> /\ buffer' = <<>>
  \/ UNCHANGED arrived /\ pending' \in Requeued /\ buffer' = <<>> /\ hand' = NoTask

LEMMA EveryStepMovesQueue ==
  ASSUME TypeOK, [Next]_vars
  PROVE  QueueMoves
<1> USE DEF QueueMoves, QueueStays, NoneTaken, custody, closing
<1>1. CASE UNCHANGED vars
  BY <1>1 DEF vars
<1>2. CASE \/ BeginTurn \/ OpenMain \/ Answered \/ StopInjecting \/ InjectedCut
           \/ SpliceAbsorbed \/ ClaimMain
           \/ \E t \in Tasks : CutInjected(t) \/ WriteAbsorbed(t)
  BY <1>2 DEF BeginTurn, OpenMain, Answered, StopInjecting, CutInjected, InjectedCut,
              SpliceAbsorbed, ClaimMain, WriteAbsorbed
<1>3. CASE RegisterHandler
  BY <1>3 DEF RegisterHandler
<1>4. CASE TurnRefused \/ WriteMain
  BY <1>4 DEF TurnRefused, WriteMain, EndTurn
<1>5. CASE TakeNext
  BY <1>5 DEF TakeNext, HandOut
<1>6. CASE Park \/ WaitTimesOut \/ IdleDecision \/ Release \/ NoDeferredClose
           \/ RefuseDeferredClose \/ CloseRecorded \/ Resume
  BY <1>6 DEF Park, WaitTimesOut, IdleDecision, Release, NoDeferredClose,
              RefuseDeferredClose, CloseRecorded, Resume
<1>7. CASE PerformDeferredClose \/ Close \/ Exit
  BY <1>7 DEF PerformDeferredClose, Close, Exit, QuiesceAndEmpty, ProcessEnds
<1>8. ASSUME NEW t \in Tasks, Submit(t) PROVE QueueMoves
  <2>1. CASE SubmitToTurn(t)
    BY <2>1 DEF SubmitToTurn, Accepts, Arrives
  <2>2. CASE SubmitToWaiter(t)
    BY <2>2 DEF SubmitToWaiter, Accepts, Arrives, Taken, HandOut
  <2>3. CASE SubmitToQueue(t)
    BY <2>3 DEF SubmitToQueue, Accepts, Arrives
  <2>4. CASE SubmitTurnedAway(t)
    BY <2>4 DEF SubmitTurnedAway, Accepts, Arrives
  <2> QED
    BY <1>8, <2>1, <2>2, <2>3, <2>4 DEF Submit
<1>9. ASSUME NEW t \in Tasks, SteerStep(t) PROVE QueueMoves
  BY <1>9 DEF SteerStep, SteerOpens, SteerAnswered, SteerWritten
<1>10. ASSUME NEW r \in Requests, NEW b \in BOOLEAN,
              RequestDrain(r, b) \/ DrainStep(r) \/ ScheduleClose(r, b)
       PROVE  QueueMoves
  <2>1. ASSUME Check(r), UNCHANGED arrived PROVE QueueMoves
    BY <2>1 DEF Check, Abort, QuiesceAndEmpty, HandOut
  <2>2. CASE RequestDrain(r, b)
    BY <2>1, <2>2 DEF RequestDrain, Quiesce, QuiesceAndEmpty
  <2>3. CASE DrainStep(r)
    BY <2>1, <2>3 DEF DrainStep, DrainPolls, DrainSettles, QuiesceAndEmpty
  <2>4. CASE ScheduleClose(r, b)
    BY <2>4 DEF ScheduleClose
  <2> QED
    BY <1>10, <2>2, <2>3, <2>4
<1>11. CASE FatalSignal \/ Crash \/ TaskChanges
  BY <1>11 DEF FatalSignal, Crash, TaskChanges, ProcessEnds
<1> QED
  BY <1>1, <1>2, <1>3, <1>4, <1>5, <1>6, <1>7, <1>8, <1>9, <1>10, <1>11
     DEF Next, TurnStep, LoopStep

(* Queue and buffer are in order of arrival and apart, and hold no prompt  *)
(* that has not arrived.                                                   *)
Ordered ==
  /\ InArrivalOrder(pending) /\ InArrivalOrder(buffer)
  /\ Elements(pending) \cap Elements(buffer) = {}
  /\ \A t \in Held : t <= arrived

LEMMA OrderedKept ==
  ASSUME TypeOK, Ordered, QueueMoves, TypeOK'
  PROVE  Ordered'
<1>a. /\ pending \in Seq(Tasks) /\ buffer \in Seq(Tasks) /\ arrived \in Nat
      /\ Held \subseteq Tasks /\ Tasks \subseteq Nat
  <2>1. pending \in Seq(Tasks) /\ buffer \in Seq(Tasks)
    BY DEF TypeOK, CustodyTypeOK
  <2>2. Held \subseteq Tasks
    BY <2>1 DEF Held, Elements
  <2>3. arrived \in Nat /\ Tasks \subseteq Nat
    BY OwnerAssumption DEF TypeOK, CustodyTypeOK, Tasks
  <2> QED
    BY <2>1, <2>2, <2>3
<1>b. Elements(<<>>) = {} /\ InArrivalOrder(<<>>)
  BY DEF Elements, InArrivalOrder
<1> DEFINE Good(p, b, a) ==
      /\ InArrivalOrder(p) /\ InArrivalOrder(b)
      /\ Elements(p) \cap Elements(b) = {}
      /\ \A t \in Elements(p) \cup Elements(b) : t <= a
<1>c. Good(pending, buffer, arrived)
  BY DEF Ordered, Held
<1>d. \A x \in Held : x \in Nat /\ x <= arrived
  BY <1>a DEF Ordered
<1>e. ASSUME NEW t \in Tasks, Arrives(t) PROVE t \in Nat /\ \A x \in Held : x < t /\ x <= t
  BY <1>a, <1>d, <1>e DEF Arrives
<1> SUFFICES Good(pending', buffer', arrived')
  BY DEF Ordered, Held
<1>1. CASE UNCHANGED arrived /\ QueueStays
  BY <1>1, <1>c DEF QueueStays
<1>2. CASE \E t \in Tasks : Arrives(t) /\ QueueStays
  BY <1>2, <1>c, <1>e DEF QueueStays, Arrives, Held
<1>3. CASE \E t \in Tasks : Arrives(t) /\ pending' = Append(pending, t) /\ UNCHANGED buffer
  <2>1. PICK t \in Tasks : Arrives(t) /\ pending' = Append(pending, t) /\ UNCHANGED buffer
    BY <1>3
  <2>2. \A x \in Held : x < t
    BY <1>e, <2>1
  <2>3. Elements(pending') = Elements(pending) \cup {t}
    BY <1>a, <2>1, ElementsOfAppend
  <2>4. InArrivalOrder(pending')
    BY <1>a, <1>c, <2>1, <2>2, OrderOfAppend DEF Held
  <2>5. t \notin Elements(buffer)
    BY <1>a, <2>2 DEF Held
  <2> QED
    BY <1>c, <1>e, <2>1, <2>3, <2>4, <2>5 DEF Arrives, Held
<1>4. CASE \E t \in Tasks : Arrives(t) /\ buffer' = Append(buffer, t) /\ UNCHANGED pending
  <2>1. PICK t \in Tasks : Arrives(t) /\ buffer' = Append(buffer, t) /\ UNCHANGED pending
    BY <1>4
  <2>2. \A x \in Held : x < t
    BY <1>e, <2>1
  <2>3. Elements(buffer') = Elements(buffer) \cup {t}
    BY <1>a, <2>1, ElementsOfAppend
  <2>4. InArrivalOrder(buffer')
    BY <1>a, <1>c, <2>1, <2>2, OrderOfAppend DEF Held
  <2>5. t \notin Elements(pending)
    BY <1>a, <2>2 DEF Held
  <2> QED
    BY <1>c, <1>e, <2>1, <2>3, <2>4, <2>5 DEF Arrives, Held
<1>5. CASE pending # <<>> /\ pending' = Tail(pending) /\ UNCHANGED <<arrived, buffer>>
  <2>1. Elements(Tail(pending)) \subseteq Elements(pending) /\ InArrivalOrder(Tail(pending))
    BY <1>5, <1>a, <1>c, OldestAtHead
  <2> QED
    BY <1>5, <1>c, <2>1
<1>6. CASE UNCHANGED arrived /\ pending' = <<>> /\ buffer' \in {buffer, <<>>}
  BY <1>6, <1>b, <1>c
<1>7. CASE UNCHANGED <<arrived, pending>> /\ buffer' = <<>>
  BY <1>7, <1>b, <1>c
<1>8. CASE UNCHANGED arrived /\ pending' \in Requeued /\ buffer' = <<>>
  <2>1. Elements(pending') = Elements(buffer) \cup Elements(pending)
    BY <1>8, <1>a, ElementsOfBoth DEF Requeued
  <2>2. InArrivalOrder(pending')
    BY <1>8 DEF Requeued
  <2> QED
    BY <1>8, <1>b, <1>c, <2>1, <2>2
<1> HIDE DEF Good
<1> QED
  BY <1>1, <1>2, <1>3, <1>4, <1>5, <1>6, <1>7, <1>8 DEF QueueMoves

(* A loop sleeps over queued prompts only while a close holds them.        *)
ParkedHasNothing == loop = "parked" => pending = <<>> \/ draining \/ closePending

LEMMA ParkedHasNothingKept ==
  ASSUME TypeOK, ParkedIsFree, ParkedHasNothing, [Next]_vars
  PROVE  ParkedHasNothing'
<1> USE DEF ParkedHasNothing, ParkedIsFree, custody, closing, HandOut
<1>1. CASE UNCHANGED vars
  BY <1>1 DEF vars
<1>2. CASE TurnStep
  BY <1>2 DEF TurnStep, BeginTurn, TurnRefused, OpenMain, RegisterHandler, Answered,
     StopInjecting, CutInjected, InjectedCut, SpliceAbsorbed, WriteAbsorbed,
     ClaimMain, WriteMain, EndTurn
<1>3. CASE LoopStep \/ WaitTimesOut
  BY <1>3 DEF LoopStep, WaitTimesOut, TakeNext, Park, IdleDecision, Release,
     NoDeferredClose, RefuseDeferredClose, PerformDeferredClose, CloseRecorded, Resume,
     Close, Exit, ProcessEnds, QuiesceAndEmpty
<1>4. ASSUME NEW t \in Tasks, Submit(t) \/ SteerStep(t) PROVE ParkedHasNothing'
  BY <1>4 DEF Submit, SubmitToTurn, SubmitToWaiter, SubmitToQueue, SubmitTurnedAway,
     Accepts, SteerStep, SteerOpens, SteerAnswered, SteerWritten
<1>5. ASSUME NEW r \in Requests, NEW b \in BOOLEAN,
             RequestDrain(r, b) \/ DrainStep(r) \/ ScheduleClose(r, b)
      PROVE  ParkedHasNothing'
  <2>1. ASSUME Check(r) PROVE ParkedHasNothing'
    <3>1. CASE live /\ Abort /\ UNCHANGED draining
      BY <3>1 DEF Abort, Closed
    <3>2. CASE closePending' = TRUE
      BY <3>2
    <3>3. CASE pending' = <<>>
      BY <3>3
    <3> QED
      BY <2>1, <3>1, <3>2, <3>3 DEF Check, QuiesceAndEmpty
  <2> QED
    BY <1>5, <2>1 DEF RequestDrain, DrainStep, DrainPolls, DrainSettles, ScheduleClose,
       QuiesceAndEmpty, Quiesce
<1>6. CASE FatalSignal \/ Crash \/ TaskChanges
  BY <1>6 DEF FatalSignal, Crash, ProcessEnds, TaskChanges, Ended
<1> QED
  BY <1>1, <1>2, <1>3, <1>4, <1>5, <1>6 DEF Next

(* A prompt handed out is the head of a queue in order of arrival, or has  *)
(* just arrived at an empty one.                                           *)
LEMMA NewInHandIsOldest ==
  ASSUME TypeOK, Ordered, ParkedHasNothing, QueueMoves, NewInHand
  PROVE  \A t \in Elements(pending') : hand' < t
<1>1. CASE pending # <<>> /\ pending' = Tail(pending) /\ hand' = Head(pending)
  BY <1>1, OldestAtHead DEF TypeOK, CustodyTypeOK, Ordered
<1>2. CASE \E t \in Tasks : QueueStays /\ Taken(t)
  <2>1. pending' = <<>>
    BY <1>2 DEF QueueStays, Taken, ParkedHasNothing
  <2> QED
    BY <2>1 DEF Elements
<1> QED
  BY <1>1, <1>2 DEF QueueMoves, NewInHand, NoneTaken

(* However closes, aborts, injections and requeues are mixed, a prompt     *)
(* handed to the loop arrived before every one still queued.               *)
THEOREM AlwaysHandedOutOldest == Spec => HandedOutOldest
<1>1. Init => Ordered /\ ParkedHasNothing
  BY DEF Init, Ordered, ParkedHasNothing, InArrivalOrder, Elements, Held
<1>2. TypeOK /\ TypeOK' /\ ParkedIsFree /\ (Ordered /\ ParkedHasNothing) /\ [Next]_vars
        => (Ordered /\ ParkedHasNothing)'
  BY EveryStepMovesQueue, OrderedKept, ParkedHasNothingKept
<1>3. TypeOK /\ Ordered /\ ParkedHasNothing /\ [Next]_vars
        => [NewInHand => \A t \in Elements(pending') : hand' < t]_vars
  BY EveryStepMovesQueue, NewInHandIsOldest
<1> QED
  BY <1>1, <1>2, <1>3, TypeCorrect, ParkedIsFreeAlways, PTL DEF Spec, HandedOutOldest

-----------------------------------------------------------------------------
(* Custody.                                                                *)

(* A prompt is in hand only while the loop takes it to a turn or runs it.  *)
HandIsBusy == hand # NoTask => loop \in {"hand"} \cup Turn

LEMMA HandIsBusyKept ==
  ASSUME HandIsBusy, [Next]_vars
  PROVE  HandIsBusy'
<1> USE DEF HandIsBusy, Turn, Capturing, Handling, Ending, custody, closing, HandOut
<1>1. CASE UNCHANGED vars
  BY <1>1 DEF vars
<1>2. CASE TurnStep
  BY <1>2 DEF TurnStep, BeginTurn, TurnRefused, OpenMain, RegisterHandler, Answered,
     StopInjecting, CutInjected, InjectedCut, SpliceAbsorbed, WriteAbsorbed,
     ClaimMain, WriteMain, EndTurn
<1>3. CASE LoopStep \/ WaitTimesOut
  BY <1>3 DEF LoopStep, WaitTimesOut, TakeNext, Park, IdleDecision, Release,
     NoDeferredClose, RefuseDeferredClose, PerformDeferredClose, CloseRecorded, Resume,
     Close, Exit, ProcessEnds, QuiesceAndEmpty
<1>4. ASSUME NEW t \in Tasks, Submit(t) \/ SteerStep(t) PROVE HandIsBusy'
  BY <1>4 DEF Submit, SubmitToTurn, SubmitToWaiter, SubmitToQueue, SubmitTurnedAway,
     Accepts, SteerStep, SteerOpens, SteerAnswered, SteerWritten
<1>5. ASSUME NEW r \in Requests, NEW b \in BOOLEAN,
             RequestDrain(r, b) \/ DrainStep(r) \/ ScheduleClose(r, b)
      PROVE  HandIsBusy'
  BY <1>5 DEF RequestDrain, DrainStep, DrainPolls, DrainSettles, ScheduleClose, Check,
     Abort, QuiesceAndEmpty, Quiesce
<1>6. CASE FatalSignal \/ Crash \/ TaskChanges
  BY <1>6 DEF FatalSignal, Crash, ProcessEnds, TaskChanges
<1> QED
  BY <1>1, <1>2, <1>3, <1>4, <1>5, <1>6 DEF Next

(* What a step may do to the prompts injected: they go on, one is captured *)
(* as it arrives, or the turn takes those in the buffer.                   *)
SteerMoves ==
  \/ \A t \in Tasks : steer[t] \in {"no", "over"} => steer'[t] = steer[t]
  \/ \E t \in Tasks : /\ Arrives(t) /\ QueueStays /\ hand' = hand
                      /\ steer' = [steer EXCEPT ![t] = "opening"]
  \/ /\ UNCHANGED <<arrived, hand, pending>> /\ buffer' = <<>>
     /\ steer' = [t \in Tasks |-> IF t \in Elements(buffer) THEN "opening" ELSE steer[t]]

LEMMA EveryStepMovesSteers ==
  ASSUME TypeOK, [Next]_vars
  PROVE  SteerMoves
<1> USE DEF SteerMoves, QueueStays, custody, closing
<1>a. steer \in [Tasks -> Steers]
  BY DEF TypeOK, CustodyTypeOK
<1>1. CASE UNCHANGED steer
  BY <1>1
<1>2. ASSUME NEW t \in Tasks, CutInjected(t) PROVE SteerMoves
  BY <1>2, <1>a DEF CutInjected, Unsettled
<1>3. CASE SpliceAbsorbed
  BY <1>3, <1>a DEF SpliceAbsorbed, Listed
<1>4. ASSUME NEW t \in Tasks, WriteAbsorbed(t) \/ SteerStep(t) PROVE SteerMoves
  BY <1>4, <1>a DEF WriteAbsorbed, SteerStep, SteerOpens, SteerAnswered, SteerWritten
<1>5. CASE WriteMain
  BY <1>5, <1>a DEF WriteMain
<1>6. CASE RegisterHandler
  BY <1>6, <1>1 DEF RegisterHandler
<1>7. ASSUME NEW t \in Tasks, SubmitToTurn(t) PROVE SteerMoves
  BY <1>7, <1>1 DEF SubmitToTurn, Accepts, Arrives
<1>8. ASSUME NEW how, ProcessEnds(how) PROVE SteerMoves
  BY <1>8, <1>a DEF ProcessEnds
<1> QED
  <2>1. CASE UNCHANGED vars
    BY <2>1, <1>1 DEF vars
  <2>2. CASE TurnStep
    BY <2>2, <1>1, <1>2, <1>3, <1>4, <1>5, <1>6
       DEF TurnStep, BeginTurn, TurnRefused, OpenMain, Answered, StopInjecting, InjectedCut,
           ClaimMain
  <2>3. CASE LoopStep \/ WaitTimesOut
    BY <2>3, <1>1, <1>8
       DEF LoopStep, WaitTimesOut, TakeNext, Park, IdleDecision, Release, NoDeferredClose,
           RefuseDeferredClose, PerformDeferredClose, CloseRecorded, Resume, Close, Exit
  <2>4. ASSUME NEW t \in Tasks, Submit(t) \/ SteerStep(t) PROVE SteerMoves
    BY <2>4, <1>1, <1>4, <1>7
       DEF Submit, SubmitToWaiter, SubmitToQueue, SubmitTurnedAway, Accepts
  <2>5. ASSUME NEW r \in Requests, NEW b \in BOOLEAN,
               RequestDrain(r, b) \/ DrainStep(r) \/ ScheduleClose(r, b)
        PROVE  SteerMoves
    BY <2>5, <1>1 DEF RequestDrain, DrainStep, DrainPolls, DrainSettles, ScheduleClose
  <2>6. CASE FatalSignal \/ Crash \/ TaskChanges
    BY <2>6, <1>1, <1>8 DEF FatalSignal, Crash, TaskChanges
  <2> QED
    BY <2>1, <2>2, <2>3, <2>4, <2>5, <2>6 DEF Next

(* Queued, in hand and injected are three places, and nothing is in hand   *)
(* or injected that has not arrived.                                       *)
Apart ==
  /\ Held \cap (Steered \cup {hand}) = {}
  /\ hand \notin Steered
  /\ hand <= arrived
  /\ \A t \in Tasks : steer[t] # "no" => t <= arrived

LEMMA ApartKept ==
  ASSUME TypeOK, TypeOK', Ordered, Apart, QueueMoves, SteerMoves
  PROVE  Apart'
<1>a. /\ pending \in Seq(Tasks) /\ buffer \in Seq(Tasks) /\ steer \in [Tasks -> Steers]
      /\ hand \in Tasks \cup {NoTask} /\ Held \subseteq Tasks
  BY DEF TypeOK, CustodyTypeOK, Held, Elements
<1>b. Tasks \subseteq Nat /\ arrived \in Nat /\ NoTask \notin Tasks /\ NoTask \in Nat
  BY OwnerAssumption DEF TypeOK, CustodyTypeOK, Tasks, NoTask
<1>c. Elements(<<>>) = {}
  BY DEF Elements
<1>d. ASSUME NEW t \in Tasks, Arrives(t)
      PROVE  t \notin Held /\ t # hand /\ t \notin Steered /\ steer[t] = "no" /\ arrived < t
  BY <1>a, <1>b, <1>d DEF Arrives, Ordered, Apart, Steered
<1>e. arrived' \in Nat /\ arrived <= arrived'
  BY <1>b DEF QueueMoves, Arrives
<1>f. hand' \in Tasks \cup {NoTask} /\ Steered \subseteq Tasks /\ Steered' \subseteq Tasks
  BY DEF TypeOK, CustodyTypeOK, Steered
(* First where the queue, the buffer and the prompt in hand go.            *)
<1>1. /\ Held' \subseteq Held \cup {t \in Tasks : Arrives(t)}
      /\ hand' \in {hand, NoTask} \cup {t \in Tasks : Arrives(t)} \cup Held
      /\ Held' \cap {hand'} = {}
  <2>1. CASE UNCHANGED arrived /\ QueueStays /\ NoneTaken
    BY <2>1, <1>a, <1>b DEF QueueStays, NoneTaken, Apart, Held
  <2>2. CASE \E t \in Tasks : Arrives(t) /\ QueueStays /\ (Taken(t) \/ hand' = hand)
    BY <2>2, <1>a, <1>b, <1>d DEF QueueStays, Taken, Apart, Held
  <2>3. CASE \E t \in Tasks :
               Arrives(t) /\ pending' = Append(pending, t) /\ UNCHANGED <<hand, buffer>>
    BY <2>3, <1>a, <1>d, ElementsOfAppend DEF Apart, Held
  <2>4. CASE \E t \in Tasks :
               Arrives(t) /\ buffer' = Append(buffer, t) /\ UNCHANGED <<hand, pending>>
    BY <2>4, <1>a, <1>d, ElementsOfAppend DEF Apart, Held
  <2>5. CASE pending # <<>> /\ pending' = Tail(pending) /\ hand' = Head(pending)
               /\ UNCHANGED <<arrived, buffer>>
    BY <2>5, <1>a, OldestAtHead DEF Ordered, Held
  <2>6. CASE UNCHANGED arrived /\ pending' = <<>> /\ buffer' \in {buffer, <<>>} /\ NoneTaken
    BY <2>6, <1>a, <1>b, <1>c DEF NoneTaken, Apart, Held
  <2>7. CASE UNCHANGED <<arrived, hand, pending>> /\ buffer' = <<>>
    BY <2>7, <1>c DEF Apart, Held
  <2>8. CASE UNCHANGED arrived /\ pending' \in Requeued /\ buffer' = <<>> /\ hand' = NoTask
    BY <2>8, <1>a, <1>b, <1>c, ElementsOfBoth DEF Requeued, Held
  <2> QED
    BY <2>1, <2>2, <2>3, <2>4, <2>5, <2>6, <2>7, <2>8 DEF QueueMoves
<1>2. hand' <= arrived'
  <2>1. /\ hand \in Nat /\ hand <= arrived /\ 0 <= arrived
        /\ \A x \in Held : x \in Nat /\ x <= arrived
    BY <1>a, <1>b DEF Ordered, Apart
  <2>2. CASE hand' \in {hand, NoTask}
    BY <2>1, <2>2, <1>b, <1>e DEF NoTask
  <2>3. CASE hand' \in {t \in Tasks : Arrives(t)}
    BY <2>3, <1>e DEF Arrives
  <2>4. CASE hand' \in Held
    BY <2>1, <2>4, <1>b, <1>e
  <2> QED
    BY <1>1, <2>2, <2>3, <2>4
(* Then what is injected.                                                  *)
<1>3. CASE \A t \in Tasks : steer[t] \in {"no", "over"} => steer'[t] = steer[t]
  <2>1. Steered' \subseteq Steered /\ \A t \in Tasks : steer'[t] # "no" => steer[t] # "no"
    BY <1>3, <1>a DEF Steered
  <2>2. \A t \in Tasks : steer'[t] # "no" => t <= arrived'
    BY <2>1, <1>b, <1>e DEF Apart
  <2>3. Held' \cap Steered' = {} /\ hand' \notin Steered'
    BY <2>1, <1>1, <1>b, <1>d, <1>f DEF Apart
  <2> QED
    BY <1>1, <1>2, <2>2, <2>3 DEF Apart
<1>4. CASE \E t \in Tasks : /\ Arrives(t) /\ QueueStays /\ hand' = hand
                            /\ steer' = [steer EXCEPT ![t] = "opening"]
  <2>1. PICK t \in Tasks : /\ Arrives(t) /\ QueueStays /\ hand' = hand
                           /\ steer' = [steer EXCEPT ![t] = "opening"]
    BY <1>4
  <2>2. Steered' \subseteq Steered \cup {t} /\ Held' = Held
    BY <2>1, <1>a DEF Steered, QueueStays, Held
  <2>3. \A x \in Tasks : steer'[x] # "no" => x <= arrived'
    BY <2>1, <1>a, <1>b, <1>e DEF Apart, Arrives
  <2>4. Held' \cap Steered' = {} /\ hand' \notin Steered'
    BY <2>1, <2>2, <1>d DEF Apart
  <2> QED
    BY <1>1, <1>2, <2>3, <2>4 DEF Apart
<1>5. CASE /\ UNCHANGED <<arrived, hand, pending>> /\ buffer' = <<>>
           /\ steer' = [t \in Tasks |-> IF t \in Elements(buffer) THEN "opening" ELSE steer[t]]
  <2>1. Steered' \subseteq Steered \cup Elements(buffer)
    BY <1>5 DEF Steered
  <2>2. Held' = Elements(pending)
    BY <1>5, <1>c DEF Held
  <2>3. \A x \in Tasks : steer'[x] # "no" => x <= arrived'
    BY <1>5 DEF Apart, Ordered, Held
  <2>4. Held' \cap Steered' = {} /\ hand' \notin Steered'
    BY <1>5, <2>1, <2>2 DEF Apart, Ordered, Held
  <2> QED
    BY <1>1, <1>2, <2>3, <2>4 DEF Apart
<1> QED
  BY <1>3, <1>4, <1>5 DEF SteerMoves

(* What is promised to a sender that waits: its prompt is held, injected   *)
(* or in hand until it has its outcome.                                    *)
Custody == Held \cup Steered \cup {hand}
Kept == \A t \in Waiting : Up /\ t <= arrived /\ outcome[t] = <<>> => t \in Custody

(* A step that keeps the promise neither loses nor reopens a prompt.       *)
Keeps == \A t \in Waiting :
           Up' /\ outcome'[t] = <<>> =>
             Up /\ outcome[t] = <<>> /\ (t \in Custody \/ Arrives(t) => t \in Custody')

LEMMA KeepingIsEnough ==
  ASSUME TypeOK, Kept, Keeps, QueueMoves
  PROVE  Kept'
<1>1. arrived \in Nat /\ Waiting \subseteq Nat
  BY OwnerAssumption DEF TypeOK, CustodyTypeOK, Tasks
<1>2. arrived' = arrived \/ arrived' = arrived + 1
  BY DEF QueueMoves, Arrives
<1> SUFFICES ASSUME NEW t \in Waiting, Up', t <= arrived', outcome'[t] = <<>>
             PROVE  t \in Custody'
  BY DEF Kept
<1>3. t <= arrived \/ Arrives(t)
  BY <1>1, <1>2 DEF Arrives
<1> QED
  BY <1>3 DEF Kept, Keeps

LEMMA SettleFacts ==
  ASSUME NEW ts, NEW value, Settle(ts, value)
  PROVE  \A t \in Tasks : outcome'[t] = <<>> <=> outcome[t] = <<>> /\ t \notin ts
BY DEF Settle

LEMMA EveryStepKeeps ==
  ASSUME TypeOK, HandIsBusy, [Next]_vars
  PROVE  Keeps
<1>a. /\ pending \in Seq(Tasks) /\ buffer \in Seq(Tasks) /\ steer \in [Tasks -> Steers]
      /\ Waiting \subseteq Tasks /\ NoTask \notin Tasks /\ Elements(<<>>) = {}
  BY OwnerAssumption DEF TypeOK, CustodyTypeOK, NoTask, Tasks, Elements
<1> USE DEF custody, closing
(* The shapes of a step: nothing leaves its place, the queue is settled,   *)
(* the process ends.                                                       *)
<1>b. ASSUME UNCHANGED <<hand, pending, buffer, outcome>>, Up' => Up, Steered \subseteq Steered',
             ~\E t \in Tasks : Arrives(t)
      PROVE  Keeps
  BY <1>a, <1>b DEF Keeps, Custody, Held
<1>c. ASSUME QuiesceAndEmpty, UNCHANGED <<hand, steer, arrived>>, Up, Up' PROVE Keeps
  <2>1. \A t \in Tasks : outcome'[t] = <<>> <=> outcome[t] = <<>> /\ t \notin Held
    BY <1>c, SettleFacts DEF QuiesceAndEmpty
  <2>2. ~\E t \in Tasks : Arrives(t)
    BY <1>c, OwnerAssumption DEF Arrives, TypeOK, CustodyTypeOK
  <2> QED
    BY <1>a, <1>c, <2>1, <2>2 DEF Keeps, Custody, Steered
<1>d. ASSUME ~Up' PROVE Keeps
  BY <1>d DEF Keeps
<1>e. UNCHANGED arrived => ~\E t \in Tasks : Arrives(t)
  BY OwnerAssumption DEF Arrives, TypeOK, CustodyTypeOK
<1>f. UNCHANGED steer => Steered' = Steered
  BY DEF Steered
<1>1. CASE UNCHANGED vars
  BY <1>1, <1>b, <1>e, <1>f DEF vars, Up
<1>2. CASE TurnStep
  <2>a. Up /\ Up'
    BY <1>2 DEF TurnStep, BeginTurn, TurnRefused, OpenMain, RegisterHandler, Answered,
       StopInjecting, CutInjected, InjectedCut, SpliceAbsorbed, WriteAbsorbed,
       ClaimMain, WriteMain, EndTurn, Up, Ended
  <2>b. ASSUME EndTurn, UNCHANGED arrived, Steered \subseteq Steered', NEW v, Settle({hand}, v)
        PROVE  Keeps
    <3>1. Held' = Held
      BY <1>a, <2>b, ElementsOfBoth DEF EndTurn, Requeued, Held
    <3>2. \A t \in Tasks : outcome'[t] = <<>> <=> outcome[t] = <<>> /\ t \notin {hand}
      BY <2>b, SettleFacts
    <3> QED
      BY <1>a, <1>e, <2>a, <2>b, <3>1, <3>2 DEF Keeps, Custody
  <2>1. CASE BeginTurn \/ OpenMain \/ Answered \/ StopInjecting \/ InjectedCut \/ ClaimMain
    BY <2>1, <1>b, <1>e, <1>f, <2>a
       DEF BeginTurn, OpenMain, Answered, StopInjecting, InjectedCut, ClaimMain
  <2>2. CASE TurnRefused
    BY <2>2, <2>b, <1>f DEF TurnRefused
  <2>3. CASE WriteMain
    <3>1. Steered \subseteq Steered'
      BY <2>3, <1>a DEF WriteMain, Steered
    <3> QED
      BY <2>3, <2>b, <3>1 DEF WriteMain
  <2>4. CASE RegisterHandler
    <3>1. CASE UNCHANGED <<steer, buffer>>
      BY <2>4, <3>1, <1>b, <1>e, <1>f, <2>a DEF RegisterHandler
    <3>2. CASE steer' = [t \in Tasks |-> IF t \in Elements(buffer) THEN "opening" ELSE steer[t]]
      <4>1. Steered \cup Elements(buffer) \subseteq Steered'
        BY <1>a, <3>2 DEF Steered, Elements
      <4> QED
        BY <1>a, <1>e, <2>4, <2>a, <4>1 DEF RegisterHandler, Keeps, Custody, Held
    <3> QED
      BY <2>4, <3>1, <3>2 DEF RegisterHandler
  <2>5. ASSUME NEW x \in Tasks, CutInjected(x) PROVE Keeps
    <3>1. Steered \subseteq Steered' \cup {x}
      BY <2>5, <1>a DEF CutInjected, Steered
    <3>2. \A t \in Tasks : outcome'[t] = <<>> <=> outcome[t] = <<>> /\ t \notin {x}
      BY <2>5, SettleFacts DEF CutInjected
    <3> QED
      BY <1>a, <1>e, <2>5, <2>a, <3>1, <3>2 DEF CutInjected, Keeps, Custody, Held
  <2>6. CASE SpliceAbsorbed
    <3>1. Steered \subseteq Steered'
      BY <2>6, <1>a DEF SpliceAbsorbed, Steered
    <3> QED
      BY <2>6, <1>b, <1>e, <2>a, <3>1 DEF SpliceAbsorbed
  <2>7. ASSUME NEW x \in Tasks, WriteAbsorbed(x) PROVE Keeps
    <3>1. Steered \subseteq Steered' \cup {x}
      BY <2>7, <1>a DEF WriteAbsorbed, Steered
    <3>2. \A t \in Tasks : outcome'[t] = <<>> <=> outcome[t] = <<>> /\ t \notin {x}
      BY <2>7, SettleFacts DEF WriteAbsorbed
    <3> QED
      BY <1>a, <1>e, <2>7, <2>a, <3>1, <3>2 DEF WriteAbsorbed, Keeps, Custody, Held
  <2> QED
    BY <1>2, <2>1, <2>2, <2>3, <2>4, <2>5, <2>6, <2>7 DEF TurnStep
<1>3. CASE LoopStep \/ WaitTimesOut
  <2>1. CASE TakeNext
    <3>1. hand = NoTask /\ Up /\ Up'
      BY <2>1 DEF TakeNext, HandIsBusy, HandOut, Turn, Capturing, Handling, Ending, Up, Ended
    <3>2. Elements(pending) \subseteq Elements(pending') \cup {hand'}
      BY <2>1, <1>a, HeadAndTail DEF TakeNext, HandOut
    <3> QED
      BY <1>a, <1>e, <1>f, <2>1, <3>1, <3>2 DEF TakeNext, Keeps, Custody, Held
  <2>2. CASE Park \/ WaitTimesOut \/ IdleDecision \/ Release \/ NoDeferredClose
             \/ RefuseDeferredClose \/ CloseRecorded \/ Resume
    <3>1. Up
      BY <2>2 DEF Park, WaitTimesOut, IdleDecision, Release, NoDeferredClose,
         RefuseDeferredClose, CloseRecorded, Resume, Up, Ended
    <3> QED
      BY <2>2, <3>1, <1>b, <1>e, <1>f
         DEF Park, WaitTimesOut, IdleDecision, Release, NoDeferredClose, RefuseDeferredClose,
             CloseRecorded, Resume
  <2>3. CASE PerformDeferredClose
    BY <2>3, <1>c DEF PerformDeferredClose, Up, Ended
  <2>4. CASE Close
    <3>1. \A t \in Tasks : outcome'[t] = <<>> <=> outcome[t] = <<>> /\ t \notin Elements(pending)
      BY <2>4, SettleFacts DEF Close
    <3>2. Up
      BY <2>4 DEF Close, Up, Ended
    <3> QED
      BY <1>a, <1>e, <1>f, <2>4, <3>1, <3>2 DEF Close, Keeps, Custody, Held
  <2>5. CASE Exit
    BY <2>5, <1>d DEF Exit, ProcessEnds, Up, Ended
  <2> QED
    BY <1>3, <2>1, <2>2, <2>3, <2>4, <2>5 DEF LoopStep
<1>4. ASSUME NEW x \in Tasks, Submit(x) PROVE Keeps
  <2>a. Up /\ Up' /\ \A t \in Tasks : Arrives(t) => t = x
    BY <1>4 DEF Submit, SubmitToTurn, SubmitToWaiter, SubmitToQueue, SubmitTurnedAway,
       Accepts, HandOut, Arrives, Up, Ended
  <2>1. CASE SubmitToTurn(x)
    <3>1. CASE steer' = [steer EXCEPT ![x] = "opening"] /\ UNCHANGED buffer
      <4>1. Steered \cup {x} \subseteq Steered'
        BY <1>a, <3>1 DEF Steered
      <4> QED
        BY <1>a, <2>1, <2>a, <3>1, <4>1 DEF SubmitToTurn, Keeps, Custody, Held
    <3>2. CASE buffer' = Append(buffer, x) /\ UNCHANGED steer
      BY <1>a, <1>f, <2>1, <2>a, <3>2, ElementsOfAppend
         DEF SubmitToTurn, Keeps, Custody, Held
    <3> QED
      BY <2>1, <3>1, <3>2 DEF SubmitToTurn
  <2>2. CASE SubmitToWaiter(x)
    <3>1. hand = NoTask
      BY <2>2 DEF SubmitToWaiter, HandIsBusy, Turn, Capturing, Handling, Ending
    <3> QED
      BY <1>a, <1>f, <2>2, <2>a, <3>1 DEF SubmitToWaiter, HandOut, Keeps, Custody, Held
  <2>3. CASE SubmitToQueue(x)
    BY <1>a, <1>f, <2>3, <2>a, ElementsOfAppend DEF SubmitToQueue, Keeps, Custody, Held
  <2>4. CASE SubmitTurnedAway(x)
    <3>1. \A t \in Tasks :
            outcome'[t] = <<>> <=> outcome[t] = <<>> /\ t \notin {x} \cap Waiting
      BY <2>4, SettleFacts DEF SubmitTurnedAway
    <3> QED
      BY <1>a, <1>f, <2>4, <2>a, <3>1 DEF SubmitTurnedAway, Keeps, Custody, Held
  <2> QED
    BY <1>4, <2>1, <2>2, <2>3, <2>4 DEF Submit
<1>5. ASSUME NEW x \in Tasks, SteerStep(x) PROVE Keeps
  <2>a. Up /\ Up'
    BY <1>5 DEF SteerStep, SteerOpens, SteerAnswered, SteerWritten, Up
  <2>1. CASE SteerOpens(x) \/ SteerAnswered(x)
    <3>1. Steered \subseteq Steered'
      BY <2>1, <1>a DEF SteerOpens, SteerAnswered, Steered
    <3> QED
      BY <2>1, <2>a, <1>b, <1>e, <3>1 DEF SteerOpens, SteerAnswered
  <2>2. CASE SteerWritten(x)
    <3>1. Steered \subseteq Steered' \cup {x}
      BY <2>2, <1>a DEF SteerWritten, Steered
    <3>2. outcome \in [Tasks -> Seq(Outcomes)] /\ outcome[x] \in Seq(Outcomes)
      BY DEF TypeOK, CustodyTypeOK
    <3>3. Append(outcome[x], "settled") # <<>>
      BY <3>2 DEF Outcomes
    <3>4. outcome'[x] # <<>> /\ \A t \in Tasks \ {x} : outcome'[t] = outcome[t]
      BY <2>2, <3>2, <3>3 DEF SteerWritten
    <3> QED
      BY <1>a, <1>e, <2>2, <2>a, <3>1, <3>4 DEF SteerWritten, Keeps, Custody, Held
  <2> QED
    BY <1>5, <2>1, <2>2 DEF SteerStep
<1>6. ASSUME NEW r \in Requests, NEW b \in BOOLEAN,
             RequestDrain(r, b) \/ DrainStep(r) \/ ScheduleClose(r, b)
      PROVE  Keeps
  <2>1. ASSUME Check(r), UNCHANGED <<steer, arrived>>, Up PROVE Keeps
    <3>1. CASE UNCHANGED <<loop, hand, pending, buffer, outcome>>
      BY <2>1, <3>1, <1>b, <1>e, <1>f DEF Up
    <3>2. CASE QuiesceAndEmpty /\ UNCHANGED <<loop, hand>>
      BY <2>1, <3>2, <1>c DEF Up
    <3>3. CASE /\ pending # <<>> /\ loop = "parked" /\ UNCHANGED <<buffer, outcome>>
               /\ HandOut(Head(pending)) /\ pending' = Tail(pending)
      <4>1. hand = NoTask
        BY <3>3 DEF HandIsBusy, Turn, Capturing, Handling, Ending
      <4>2. Elements(pending) \subseteq Elements(pending') \cup {hand'}
        BY <3>3, <1>a, HeadAndTail DEF HandOut
      <4> QED
        BY <1>a, <1>e, <1>f, <2>1, <3>3, <4>1, <4>2 DEF Keeps, Custody, Held
    <3> QED
      BY <2>1, <3>1, <3>2, <3>3 DEF Check, Abort
  <2>2. CASE RequestDrain(r, b)
    <3>1. CASE Check(r)
      BY <2>1, <2>2, <3>1 DEF RequestDrain
    <3>2. CASE QuiesceAndEmpty /\ UNCHANGED <<loop, hand>>
      BY <2>2, <3>2, <1>c DEF RequestDrain, Up
    <3>3. CASE Quiesce /\ UNCHANGED <<loop, hand>>
      BY <2>2, <3>3, <1>b, <1>e, <1>f DEF RequestDrain, Quiesce, Up
    <3> QED
      BY <2>2, <3>1, <3>2, <3>3 DEF RequestDrain
  <2>3. CASE DrainPolls(r)
    BY <2>1, <2>3 DEF DrainPolls
  <2>4. CASE DrainSettles(r)
    BY <2>4, <1>c DEF DrainSettles, Up
  <2>5. CASE ScheduleClose(r, b)
    <3>1. Up' => Up
      BY <2>5 DEF ScheduleClose
    <3> QED
      BY <2>5, <3>1, <1>b, <1>e, <1>f DEF ScheduleClose
  <2> QED
    BY <1>6, <2>2, <2>3, <2>4, <2>5 DEF DrainStep
<1>7. CASE FatalSignal \/ Crash
  BY <1>7, <1>d DEF FatalSignal, Crash, ProcessEnds, Up, Ended
<1>8. CASE TaskChanges
  BY <1>8, <1>b, <1>e, <1>f DEF TaskChanges, Up
<1> QED
  BY <1>1, <1>2, <1>3, <1>4, <1>5, <1>6, <1>7, <1>8 DEF Next

(* Queue and buffer one behind the other hold nothing twice, each being in *)
(* order and the two apart.                                                *)
LEMMA NothingTwice ==
  ASSUME NEW s \in Seq(Tasks), NEW r \in Seq(Tasks), InArrivalOrder(s), InArrivalOrder(r),
         Elements(s) \cap Elements(r) = {}
  PROVE  \A i, j \in DOMAIN (s \o r) : (s \o r)[i] = (s \o r)[j] => i = j
<1> DEFINE both == s \o r
<1>1. /\ DOMAIN s = 1..Len(s) /\ Len(s) \in Nat /\ DOMAIN r = 1..Len(r) /\ Len(r) \in Nat
      /\ DOMAIN both = 1..(Len(s) + Len(r))
      /\ \A i \in 1..Len(s) : both[i] = s[i] /\ s[i] \in Tasks
      /\ \A i \in (Len(s) + 1)..(Len(s) + Len(r)) : both[i] = r[i - Len(s)]
      /\ \A i \in 1..Len(r) : r[i] \in Tasks
  OBVIOUS
<1> HIDE DEF both
<1>a. Tasks \subseteq Nat
  BY DEF Tasks
<1>b. \A x \in Tasks : ~(x < x)
  BY <1>a
<1>2. ASSUME NEW i \in DOMAIN both, NEW j \in DOMAIN both, i < j PROVE both[i] # both[j]
  <2>1. CASE j <= Len(s)
    <3>1. /\ i \in DOMAIN s /\ j \in DOMAIN s /\ both[i] = s[i] /\ both[j] = s[j]
          /\ s[i] \in Tasks
      BY <1>1, <1>2, <2>1
    <3> QED
      BY <1>2, <1>b, <3>1 DEF InArrivalOrder
  <2>2. CASE i > Len(s)
    <3>1. /\ i - Len(s) \in DOMAIN r /\ j - Len(s) \in DOMAIN r /\ i - Len(s) < j - Len(s)
          /\ i \in (Len(s) + 1)..(Len(s) + Len(r)) /\ j \in (Len(s) + 1)..(Len(s) + Len(r))
      BY <1>1, <1>2, <2>2
    <3>2. both[i] = r[i - Len(s)] /\ both[j] = r[j - Len(s)] /\ r[i - Len(s)] \in Tasks
      BY <1>1, <3>1
    <3> QED
      BY <1>b, <3>1, <3>2 DEF InArrivalOrder
  <2>3. CASE i <= Len(s) /\ j > Len(s)
    <3>1. /\ i \in DOMAIN s /\ j - Len(s) \in DOMAIN r
          /\ both[i] = s[i] /\ both[j] = r[j - Len(s)]
      BY <1>1, <1>2, <2>3
    <3> QED
      BY <3>1 DEF Elements
  <2> QED
    BY <1>1, <2>1, <2>2, <2>3
<1>3. \A i, j \in DOMAIN both : i < j \/ j < i \/ i = j
  BY <1>1
<1> QED
  BY <1>2, <1>3 DEF both

(* A prompt is in one place at a time, and one whose sender waits is       *)
(* somewhere until it has its outcome: in the queue, captured, injected or *)
(* in hand, for any number of prompts and closes and any kind of agent.    *)
THEOREM CustodyIsAlwaysOne == Spec => []OneCustody
<1> DEFINE Inv == Ordered /\ HandIsBusy /\ Apart /\ Kept
<1>1. Init => Inv
  <2> SUFFICES ASSUME Init PROVE Inv
    OBVIOUS
  <2>1. Elements(<<>>) = {} /\ InArrivalOrder(<<>>)
    BY DEF Elements, InArrivalOrder
  <2>2. Held = {} /\ Steered = {} /\ hand = 0 /\ arrived = 0 /\ 0 \notin Waiting
    BY <2>1, OwnerAssumption DEF Init, Held, Steered, NoTask, Tasks
  <2>3. \A t \in Waiting : ~(t <= 0)
    BY OwnerAssumption DEF Tasks
  <2> QED
    BY <2>1, <2>2, <2>3 DEF Init, Ordered, HandIsBusy, Apart, Kept, NoTask
<1>2. TypeOK /\ TypeOK' /\ Inv /\ [Next]_vars => Inv'
  BY EveryStepMovesQueue, EveryStepMovesSteers, EveryStepKeeps, OrderedKept,
     HandIsBusyKept, ApartKept, KeepingIsEnough
<1>3. TypeOK /\ Inv => OneCustody
  <2> SUFFICES ASSUME TypeOK, Inv PROVE OneCustody
    OBVIOUS
  <2>1. pending \in Seq(Tasks) /\ buffer \in Seq(Tasks)
    BY DEF TypeOK, CustodyTypeOK
  <2>2. \A i, j \in DOMAIN (pending \o buffer) :
          (pending \o buffer)[i] = (pending \o buffer)[j] => i = j
    BY <2>1, NothingTwice DEF Ordered
  <2> QED
    BY <2>2 DEF OneCustody, Apart, Kept, Custody
<1> HIDE DEF Inv
<1> QED
  BY <1>1, <1>2, <1>3, TypeCorrect, PTL DEF Spec

-----------------------------------------------------------------------------
(* Closes and background tasks.                                            *)

(* A drain that waits for a turn to settle has committed already.          *)
SettlingDrains == \A r \in Requests : drain[r] = "settling" => draining

(* What a step may do to the closes.                                       *)
CloseMoves ==
  \/ drain' = drain /\ (draining => draining')
  \/ \A r \in Requests : drain'[r] = "idle"
  \/ \E r \in Requests, at \in {"checking", "settling", "done"} :
       /\ drain' = [drain EXCEPT ![r] = at]
       /\ at = "settling" => draining'
       /\ draining => draining'

(* What a step may do while a task runs and no close has committed.        *)
Spares ==
  ~draining /\ draining' /\ live =>
    \/ deferred = "force" /\ deferred' = "none"
    \/ \E r \in Requests : drain[r] = "idle" /\ drain'[r] # "idle"
    \/ closePending /\ drain' = drain

LEMMA EveryStepCloses ==
  ASSUME TypeOK, SettlingDrains, [Next]_vars
  PROVE  CloseMoves /\ Spares
<1> USE DEF CloseMoves, Spares, custody, closing
<1>a. drain \in [Requests -> {"idle", "checking", "settling", "done"}]
  BY DEF TypeOK, ControlTypeOK
<1>b. ASSUME UNCHANGED <<drain, draining>> PROVE CloseMoves /\ Spares
  BY <1>b
<1>1. CASE UNCHANGED vars
  BY <1>1, <1>b DEF vars
<1>2. CASE TurnStep
  BY <1>2, <1>b DEF TurnStep, BeginTurn, TurnRefused, OpenMain, RegisterHandler, Answered,
     StopInjecting, CutInjected, InjectedCut, SpliceAbsorbed, WriteAbsorbed,
     ClaimMain, WriteMain
<1>3. CASE TakeNext \/ Park \/ WaitTimesOut \/ IdleDecision \/ Release \/ NoDeferredClose
           \/ RefuseDeferredClose \/ CloseRecorded \/ Resume \/ Close \/ TaskChanges
  BY <1>3, <1>b DEF TakeNext, Park, WaitTimesOut, IdleDecision, Release, NoDeferredClose,
     RefuseDeferredClose, CloseRecorded, Resume, Close, TaskChanges
<1>4. CASE PerformDeferredClose
  BY <1>4 DEF PerformDeferredClose, QuiesceAndEmpty
<1>5. ASSUME NEW t \in Tasks, Submit(t) \/ SteerStep(t) PROVE CloseMoves /\ Spares
  BY <1>5, <1>b DEF Submit, SubmitToTurn, SubmitToWaiter, SubmitToQueue, SubmitTurnedAway,
     Accepts, SteerStep, SteerOpens, SteerAnswered, SteerWritten
<1>6. ASSUME NEW how, ProcessEnds(how) PROVE CloseMoves /\ Spares
  BY <1>6 DEF ProcessEnds
<1>7. ASSUME NEW r \in Requests, NEW b \in BOOLEAN, RequestDrain(r, b) \/ ScheduleClose(r, b)
      PROVE  CloseMoves /\ Spares
  <2>1. drain[r] = "idle"
    BY <1>7 DEF RequestDrain, ScheduleClose, NextRequest
  <2>2. PICK at \in {"checking", "settling", "done"} :
          /\ drain' = [drain EXCEPT ![r] = at]
          /\ at = "settling" => draining'
          /\ draining => draining'
    BY <1>7 DEF RequestDrain, ScheduleClose, Check, Quiesce, QuiesceAndEmpty
  <2>3. drain'[r] # "idle"
    BY <1>a, <2>2
  <2> QED
    BY <2>1, <2>2, <2>3
<1>8. ASSUME NEW r \in Requests, DrainPolls(r) PROVE CloseMoves /\ Spares
  <2>1. PICK at \in {"checking", "done"} :
          drain' = [drain EXCEPT ![r] = at] /\ (draining => draining')
    BY <1>8 DEF DrainPolls, Check, QuiesceAndEmpty
  <2>2. live => draining' = draining
    BY <1>8 DEF DrainPolls, Check
  <2> QED
    BY <2>1, <2>2
<1>9. ASSUME NEW r \in Requests, DrainSettles(r) PROVE CloseMoves /\ Spares
  BY <1>9 DEF DrainSettles, SettlingDrains, QuiesceAndEmpty
<1> QED
  BY <1>1, <1>2, <1>3, <1>4, <1>5, <1>6, <1>7, <1>8, <1>9
     DEF Next, LoopStep, DrainStep, Exit, FatalSignal, Crash

LEMMA SettlingDrainsKept ==
  ASSUME TypeOK, SettlingDrains, CloseMoves
  PROVE  SettlingDrains'
<1> USE DEF SettlingDrains
<1>1. CASE drain' = drain /\ (draining => draining')
  BY <1>1
<1>2. CASE \A r \in Requests : drain'[r] = "idle"
  BY <1>2
<1>3. ASSUME NEW r \in Requests, NEW at \in {"checking", "settling", "done"},
             drain' = [drain EXCEPT ![r] = at], at = "settling" => draining',
             draining => draining'
      PROVE  SettlingDrains'
  BY <1>3 DEF TypeOK, ControlTypeOK
<1> QED
  BY <1>1, <1>2, <1>3 DEF CloseMoves

(* However long an unforced close waited, and whatever other closes came   *)
(* and went, it commits over a live background task only in the cases the  *)
(* property names: a second drain, or a recorded close under a pending one. *)
THEOREM UnforcedCloseAlwaysSparesTasks == Spec => UnforcedCloseSparesTasks
<1>1. Init => SettlingDrains
  BY DEF Init, SettlingDrains
<1>2. TypeOK /\ SettlingDrains /\ [Next]_vars => SettlingDrains'
  BY EveryStepCloses, SettlingDrainsKept
<1>3. TypeOK /\ SettlingDrains /\ [Next]_vars
        => [~draining /\ draining' /\ live =>
              \/ deferred = "force" /\ deferred' = "none"
              \/ \E r \in Requests : drain[r] = "idle" /\ drain'[r] # "idle"
              \/ closePending /\ drain' = drain]_vars
  BY EveryStepCloses DEF Spares
<1> QED
  BY <1>1, <1>2, <1>3, TypeCorrect, PTL DEF Spec, UnforcedCloseSparesTasks

(* ---- OwnerClient: a prompt on its way to its owner -----------------------*)

Lives == {"none", "starting", "up", "draining", "closed", "dead"}
Messages == {"accepted", "result", "error", "shutting down", "malformed", "ended"}
Senders ==
    [pc : {"idle", "read", "connect", "await", "recover", "recheck", "missed", "over"},
     seen : {NoOwner} \cup Generations, stage : {"first", "spawned"},
     spawned : {NoOwner} \cup Generations, spawns : 0..MaxSpawns,
     submits : 0..MaxSubmits, waits : BOOLEAN]

(* A prompt is at an owner that will run it, runs it, or did something with *)
(* it; a prompt drained from a queue is at none.                            *)
Has(g) == place[g] \notin {"none", "drained"}

Nowhere == \A g \in Generations : ~Has(g)

(* What sends the sender back to look for an owner.                         *)
Turned == {"shutting down", "malformed"}

(* One owner at most has the prompt, in its queue only while it is up; and  *)
(* none has it when the sender is between two submits, when it is about to  *)
(* read that the owner turned it away, or was told that none took it.       *)
Submitted ==
    /\ \A g, h \in Generations : Has(g) /\ Has(h) => g = h
    /\ \A g \in Generations : place[g] = "queued" => life[g] \in {"up", "draining"}
    /\ answer # "none" => sender.pc = "over"
    /\ \/ sender.pc \notin {"await", "over"}
       \/ sender.pc = "await" /\ Turned \cap ToSet(mail) # {}
       \/ answer \in {"closing", "not accepting", "failed to start"}
       => Nowhere

(* Tell adds its messages to what the sender has yet to read.              *)
LEMMA TellTyped ==
    ASSUME ClientTypeOK, NEW said \in Seq(Messages), Tell(said)
    PROVE  /\ mail' \in Seq(Messages)
           /\ sender.pc = "await" => ToSet(mail') = ToSet(mail) \cup ToSet(said)
<1>1. mail \in Seq(Messages)
  BY DEF ClientTypeOK, Messages
<1>2. mail \o said \in Seq(Messages) /\ ToSet(mail \o said) = ToSet(mail) \cup ToSet(said)
  <2>1. /\ Len(mail) \in Nat /\ Len(said) \in Nat /\ mail \o said \in Seq(Messages)
        /\ DOMAIN mail = 1 .. Len(mail) /\ DOMAIN said = 1 .. Len(said)
        /\ DOMAIN (mail \o said) = 1 .. (Len(mail) + Len(said))
    BY <1>1
  <2>2. \A i \in 1 .. Len(mail) : (mail \o said)[i] = mail[i] /\ i \in 1 .. (Len(mail) + Len(said))
    BY <1>1
  <2>3. \A i \in 1 .. Len(said) : /\ (mail \o said)[Len(mail) + i] = said[i]
                                  /\ Len(mail) + i \in 1 .. (Len(mail) + Len(said))
    BY <1>1
  <2>4. \A i \in 1 .. (Len(mail) + Len(said)) :
          \/ i \in 1 .. Len(mail)
          \/ i - Len(mail) \in 1 .. Len(said) /\ Len(mail) + (i - Len(mail)) = i
    BY <2>1
  <2>5. ToSet(mail) \cup ToSet(said) \subseteq ToSet(mail \o said)
    BY <2>1, <2>2, <2>3 DEF ToSet
  <2>6. ASSUME NEW i \in 1 .. (Len(mail) + Len(said))
        PROVE  (mail \o said)[i] \in ToSet(mail) \cup ToSet(said)
    <3>1. CASE i \in 1 .. Len(mail)
      BY <2>1, <2>2, <3>1 DEF ToSet
    <3>2. CASE i - Len(mail) \in 1 .. Len(said) /\ Len(mail) + (i - Len(mail)) = i
      BY <2>1, <2>3, <3>2 DEF ToSet
    <3> QED
      BY <2>4, <3>1, <3>2
  <2> QED
    BY <2>1, <2>5, <2>6 DEF ToSet
<1> QED
  BY <1>1, <1>2 DEF Tell

(* A stopped owner runs nothing of this prompt any more.                   *)
LEMMA StoppedTyped ==
    ASSUME ClientTypeOK, NEW g \in Generations, Stopped(g)
    PROVE  /\ place' \in [Generations -> Places]
           /\ \A h \in Generations : h # g => place'[h] = place[h]
           /\ place[g] \in {"none", "drained"} => place'[g] \in {"none", "drained"}
           /\ place[g] = "queued" => place'[g] = "drained"
           /\ place'[g] # "queued"
    BY DEF ClientTypeOK, Stopped, Places

(* The owners and the close leave the sender where it is.  They keep the    *)
(* promise when no owner gains the prompt, a queue outlives no owner, and   *)
(* the sender is turned away only when no owner has it.                     *)
LEMMA OwnersKeepSubmitted ==
    ASSUME Submitted, UNCHANGED <<sender, answer>>,
           \A g \in Generations : Has(g)' => Has(g),
           \A g \in Generations : place'[g] = "queued" => life'[g] \in {"up", "draining"},
           \/ sender.pc # "await"
           \/ Turned \cap ToSet(mail') \subseteq ToSet(mail)
           \/ Nowhere'
    PROVE  Submitted'
    BY DEF Submitted, Nowhere

\* Parts of the types that the actions move.
OwnersTyped ==
    /\ heldBy \in {NoOwner} \cup Generations /\ busy \in {NoOwner} \cup Generations
    /\ life \in [Generations -> Lives]
    /\ place \in [Generations -> Places]
    /\ deaths \in 0..MaxOwnerDeaths /\ recordClosed \in BOOLEAN
    /\ closer \in [pc : {"idle", "draining", "closing", "stopping", "writing", "over"},
                   seen : {NoOwner} \cup Generations]
SenderTyped == sender \in Senders /\ mail \in Seq(Messages) /\ answer \in Answers

LEMMA TypeParts ==
    /\ ClientTypeOK <=> OwnersTyped /\ SenderTyped
    /\ ClientTypeOK' <=> OwnersTyped' /\ SenderTyped'
    BY DEF ClientTypeOK, OwnersTyped, SenderTyped, Lives, Senders, Messages

(* The elements of the shortest sequences.                                 *)
LEMMA ToSetOfOne == ToSet(<<>>) = {} /\ \A x : ToSet(<<x>>) = {x}
    BY DEF ToSet

\* The messages an owner sends, one by one.
LEMMA Words ==
    /\ \A w \in Messages : <<w>> \in Seq(Messages) /\ ToSet(<<w>>) = {w}
    /\ <<>> \in Seq(Messages) /\ ToSet(<<>>) = {}
    /\ {"error", "result", "ended"} \subseteq Messages \ Turned
    /\ Turned \subseteq Messages
<1>1. \A w \in Messages : <<w>> \in Seq(Messages)
  OBVIOUS
<1>2. <<>> \in Seq(Messages)
  OBVIOUS
<1>3. {"error", "result", "ended"} \subseteq Messages \ Turned /\ Turned \subseteq Messages
  BY DEF Messages, Turned
<1> QED
  BY <1>1, <1>2, <1>3, ToSetOfOne

\* What is said to the sender is a message; a farewell turns it away only from a queue.
LEMMA FarewellTyped ==
    ASSUME NEW g \in Generations
    PROVE  /\ Farewell(g) \in Seq(Messages)
           /\ Turned \cap ToSet(Farewell(g)) # {} => place[g] = "queued"
<1>1. place[g] # "queued" => Farewell(g) \in {<<"ended">>, <<>>}
  BY DEF Farewell
<1>2. place[g] = "queued" => Farewell(g) = <<"shutting down", "ended">>
  BY DEF Farewell
<1>3. /\ <<"ended">> \in Seq(Messages) /\ <<>> \in Seq(Messages)
      /\ <<"shutting down", "ended">> \in Seq(Messages)
  BY DEF Messages
<1>4. ToSet(<<"ended">>) = {"ended"} /\ ToSet(<<>>) = {}
  BY ToSetOfOne
<1>5. place[g] # "queued" => Turned \cap ToSet(Farewell(g)) = {}
  BY <1>1, <1>4 DEF Turned
<1> QED
  BY <1>1, <1>2, <1>3, <1>5

(* A step of an owner or of the close that says something to the sender.    *)
LEMMA SayingKeeps ==
    ASSUME ClientTypeOK, Submitted, OwnersTyped',
           NEW said \in Seq(Messages), Tell(said), UNCHANGED <<sender, answer>>,
           \A g \in Generations : Has(g)' => Has(g),
           \A g \in Generations : place'[g] = "queued" => life'[g] \in {"up", "draining"},
           Turned \cap ToSet(said) # {} =>
               \E g \in Generations : place[g] = "queued" /\ place'[g] = "drained"
    PROVE  ClientTypeOK' /\ Submitted'
<1>1. mail' \in Seq(Messages) /\ (sender.pc = "await" => ToSet(mail') = ToSet(mail) \cup ToSet(said))
  BY TellTyped
<1>2. SenderTyped'
  BY <1>1, TypeParts DEF SenderTyped
<1>3. Turned \cap ToSet(said) # {} => Nowhere'
  BY DEF Submitted, Nowhere, Has
<1>4. Submitted'
  BY <1>1, <1>3, OwnersKeepSubmitted
<1> QED
  BY <1>2, <1>4, TypeParts

(* Owners start, listen and serve others without touching the prompt.       *)
LEMMA OwnersRunKeep ==
    ASSUME ClientTypeOK, Submitted, NEW g \in Generations,
           Listens(g) \/ OthersTurn(g) \/ OthersTurnEnds \/ OtherSpawns \/ CloseWrites \/ CloseStarts
    PROVE  ClientTypeOK' /\ Submitted'
<1>1. UNCHANGED <<sender, mail, answer, place>>
  BY DEF Listens, OthersTurn, OthersTurnEnds, OtherSpawns, CloseWrites, CloseStarts, ownerKeeps, CloserKeeps
<1>2. OwnersTyped'
  <2>1. OwnersTyped
    BY TypeParts
  <2>2. CASE Listens(g) \/ OthersTurn(g) \/ OthersTurnEnds
    BY <2>1, <2>2 DEF OwnersTyped, Lives, Listens, OthersTurn, OthersTurnEnds, ownerKeeps
  <2>3. CASE OtherSpawns \/ CloseWrites
    BY <2>1, <2>3 DEF OwnersTyped, Lives, OtherSpawns, Starts, Fresh, CloseWrites, CloserKeeps
  <2>4. CASE CloseStarts
    BY <2>1, <2>4 DEF OwnersTyped, Lives, CloseStarts, CloserKeeps
  <2> QED
    BY <2>2, <2>3, <2>4
<1>3. \A h \in Generations : life[h] \in {"up", "draining"} => life'[h] \in {"up", "draining"}
  BY DEF ClientTypeOK, Listens, OthersTurn, OthersTurnEnds, OtherSpawns, CloseWrites, CloseStarts, Starts, Fresh, ownerKeeps, CloserKeeps
<1>4. Submitted'
  <2>1. \A h \in Generations : Has(h)' => Has(h)
    BY <1>1 DEF Has
  <2>2. \A h \in Generations : place'[h] = "queued" => life'[h] \in {"up", "draining"}
    BY <1>1, <1>3 DEF Submitted
  <2> QED
    BY <1>1, <2>1, <2>2, OwnersKeepSubmitted
<1> QED
  BY <1>1, <1>2, <1>4, TypeParts DEF SenderTyped

(* The prompt's turn starts and ends where the prompt is.                   *)
LEMMA PromptsRunKeep ==
    ASSUME ClientTypeOK, Submitted, NEW g \in Generations, PromptStarts(g) \/ PromptIsOver(g)
    PROVE  ClientTypeOK' /\ Submitted'
<1>1. \A said \in {<<"error">>, <<"result">>, <<>>} :
          said \in Seq(Messages) /\ Turned \cap ToSet(said) = {}
  BY Words
<1>2. \E said \in {<<"error">>, <<"result">>, <<>>} : Tell(said)
  <2>1. mail \in Seq(Messages)
    BY TypeParts DEF SenderTyped
  <2>2. mail' = mail => Tell(<<>>)
    BY <2>1 DEF Tell
  <2> QED
    BY <2>2 DEF PromptStarts, PromptIsOver
<1>3. /\ place[g] \in {"queued", "running"}
      /\ \E at \in {"running", "refused", "done"} : place' = [place EXCEPT ![g] = at]
      /\ UNCHANGED <<heldBy, life, busy, sender, answer, closer, recordClosed, deaths>>
  BY DEF PromptStarts, PromptIsOver, ownerKeeps
<1>4. OwnersTyped'
  BY <1>3, TypeParts DEF OwnersTyped, Places
<1>5. \A h \in Generations : Has(h)' => Has(h)
  BY <1>3, TypeParts DEF OwnersTyped, Has
<1>6. \A h \in Generations : place'[h] = "queued" => life'[h] \in {"up", "draining"}
  BY <1>3, TypeParts DEF OwnersTyped, Submitted
<1> QED
  BY <1>1, <1>2, <1>3, <1>4, <1>5, <1>6, SayingKeeps

(* The process of an owner goes; of the prompt, what is said elsewhere.     *)
LEMMA GoneTyped ==
    ASSUME ClientTypeOK, NEW g \in Generations, NEW releases \in BOOLEAN, OwnerIsGone(g, releases)
    PROVE  /\ heldBy' \in {NoOwner} \cup Generations /\ busy' \in {NoOwner} \cup Generations
           /\ life' \in [Generations -> Lives]
           /\ \A h \in Generations : h # g => life'[h] = life[h]
    BY TypeParts DEF OwnersTyped, OwnerIsGone, Lives

(* An owner exits or dies: a queued prompt is told of, or cut, not kept.     *)
LEMMA ExitsKeep ==
    ASSUME ClientTypeOK, Submitted, NEW g \in Generations,
           IdleExit(g) \/ ExitEnds(g) \/ OwnerCrashes(g)
    PROVE  ClientTypeOK' /\ Submitted'
<1> USE TypeParts
<1>1. CASE IdleExit(g)
  <2> DEFINE said == IF place[g] = "queued" THEN <<"shutting down">> ELSE <<>>
  <2>1. /\ life[g] = "up" /\ life' = [life EXCEPT ![g] = "closed"] /\ Stopped(g) /\ Tell(said)
        /\ UNCHANGED <<heldBy, busy, sender, answer, closer, recordClosed, deaths>>
    BY <1>1 DEF IdleExit, ownerKeeps
  <2>2. said \in Seq(Messages) /\ (Turned \cap ToSet(said) # {} => place[g] = "queued")
    BY Words DEF Turned
  <2>3. OwnersTyped'
    BY <2>1, StoppedTyped DEF OwnersTyped, Lives
  <2>4. \A h \in Generations : Has(h)' => Has(h)
    BY <2>1, StoppedTyped DEF Has
  <2>5. \A h \in Generations : place'[h] = "queued" => life'[h] \in {"up", "draining"}
    BY <2>1, StoppedTyped DEF Submitted, OwnersTyped
  <2> HIDE DEF said
  <2> QED
    BY <2>1, <2>2, <2>3, <2>4, <2>5, StoppedTyped, SayingKeeps
<1>2. CASE ExitEnds(g)
  <2>1. /\ life[g] = "closed" /\ OwnerIsGone(g, TRUE) /\ Tell(Farewell(g))
        /\ UNCHANGED <<place, sender, answer, closer, recordClosed, deaths>>
    BY <1>2 DEF ExitEnds, ownerKeeps
  <2>2. place[g] # "queued"
    BY <2>1 DEF Submitted
  <2>3. Farewell(g) \in Seq(Messages) /\ Turned \cap ToSet(Farewell(g)) = {}
    BY <2>2, FarewellTyped
  <2>4. OwnersTyped'
    BY <2>1, GoneTyped DEF OwnersTyped
  <2>5. \A h \in Generations : Has(h)' => Has(h)
    BY <2>1 DEF Has
  <2>6. \A h \in Generations : place'[h] = "queued" => life'[h] \in {"up", "draining"}
    BY <2>1, <2>2, GoneTyped DEF Submitted
  <2> QED
    BY <2>1, <2>3, <2>4, <2>5, <2>6, SayingKeeps
<1>3. CASE OwnerCrashes(g)
  <2> DEFINE said == IF place[g] # "none" \/ sender.seen = g THEN <<"ended">> ELSE <<>>
  <2>1. /\ OwnerIsGone(g, FALSE) /\ Tell(said) /\ deaths < MaxOwnerDeaths /\ deaths' = deaths + 1
        /\ place' = [place EXCEPT ![g] = IF @ \in {"queued", "running"} THEN "cut" ELSE @]
        /\ UNCHANGED <<sender, answer, closer, recordClosed>>
    BY <1>3 DEF OwnerCrashes
  <2>2. said \in Seq(Messages) /\ Turned \cap ToSet(said) = {}
    BY Words
  <2>3. OwnersTyped'
    <3>1. deaths' \in 0..MaxOwnerDeaths
      BY <2>1, ClientAssumption DEF OwnersTyped
    <3>2. place' \in [Generations -> Places]
      BY <2>1 DEF OwnersTyped, Places
    <3> QED
      BY <2>1, <3>1, <3>2, GoneTyped DEF OwnersTyped
  <2>4. \A h \in Generations : Has(h)' => Has(h)
    BY <2>1 DEF Has, OwnersTyped
  <2>5. \A h \in Generations : place'[h] = "queued" => life'[h] \in {"up", "draining"}
    BY <2>1, GoneTyped DEF Submitted, OwnersTyped
  <2> HIDE DEF said
  <2> QED
    BY <2>1, <2>2, <2>3, <2>4, <2>5, SayingKeeps
<1> QED
  BY <1>1, <1>2, <1>3

(* An owner that is terminated lets the prompt go, and only one that lives  *)
(* and holds the lease is.                                                  *)
LEMMA TerminateFacts ==
    ASSUME ClientTypeOK, Submitted, NEW g \in {NoOwner} \cup Generations, Terminate(g)
    PROVE  /\ heldBy' \in {NoOwner} \cup Generations /\ busy' \in {NoOwner} \cup Generations
           /\ life' \in [Generations -> Lives] /\ place' \in [Generations -> Places]
           /\ \A h \in Generations : Has(h)' => Has(h)
           /\ \A h \in Generations : place'[h] = "queued" => life'[h] \in {"up", "draining"}
           /\ g # NoOwner /\ heldBy = g /\ Alive(g) =>
                g \in Generations /\ (place[g] = "queued" => place'[g] = "drained")
<1> USE TypeParts
<1>1. CASE heldBy = g /\ g # NoOwner /\ Alive(g)
  <2>1. OwnerIsGone(g, TRUE) /\ Stopped(g) /\ g \in Generations
    BY <1>1 DEF Terminate
  <2> QED
    BY <2>1, GoneTyped, StoppedTyped DEF Has, Submitted
<1>2. CASE ~(heldBy = g /\ g # NoOwner /\ Alive(g))
  <2>1. heldBy' \in {heldBy, NoOwner} /\ UNCHANGED <<life, busy, place>>
    BY <1>2 DEF Terminate
  <2> QED
    BY <1>2, <2>1 DEF Has, Submitted, OwnersTyped
<1> QED
  BY <1>1, <1>2

(* sessions close turns a queued prompt away and cuts a running one.         *)
LEMMA ClosesKeep ==
    ASSUME ClientTypeOK, Submitted, CloseDrains \/ CloseAgent \/ CloseStops
    PROVE  ClientTypeOK' /\ Submitted'
<1> USE TypeParts
<1>a. /\ \A said \in {<<"shutting down">>, <<"error">>, <<>>} : said \in Seq(Messages)
      /\ Turned \cap ToSet(<<>>) = {} /\ Turned \cap ToSet(<<"error">>) = {}
  BY Words DEF Turned
<1>1. CASE CloseDrains
  <2> DEFINE g == closer.seen
             mine == Alive(g) /\ place[g] = "queued"
             said == IF mine THEN <<"shutting down">> ELSE <<>>
  <2>1. /\ place' = (IF mine THEN [place EXCEPT ![g] = "drained"] ELSE place) /\ Tell(said)
        /\ closer' = [closer EXCEPT !.pc = "closing"]
        /\ UNCHANGED <<heldBy, life, busy, sender, answer, recordClosed, deaths>>
    BY <1>1 DEF CloseDrains, CloserKeeps
  <2>2. said \in Seq(Messages) /\ (Turned \cap ToSet(said) # {} => mine)
    BY <1>a
  <2>3. mine => g \in Generations
    BY DEF Alive, OwnersTyped
  <2>4. OwnersTyped'
    BY <2>1, <2>3 DEF OwnersTyped, Places
  <2>5. \A h \in Generations : Has(h)' => Has(h)
    BY <2>1, <2>3 DEF Has, OwnersTyped
  <2>6. \A h \in Generations : place'[h] = "queued" => life'[h] \in {"up", "draining"}
    BY <2>1, <2>3 DEF Submitted, OwnersTyped
  <2>7. mine => place[g] = "queued" /\ place'[g] = "drained"
    BY <2>1, <2>3 DEF OwnersTyped
  <2> HIDE DEF said, mine
  <2> QED
    BY <2>1, <2>2, <2>3, <2>4, <2>5, <2>6, <2>7, SayingKeeps
<1>2. CASE CloseAgent
  <2> DEFINE cuts == heldBy \in Listeners /\ place[heldBy] = "running"
             said == IF cuts THEN <<"error">> ELSE <<>>
  <2>1. /\ place' = (IF cuts THEN [place EXCEPT ![heldBy] = "cut"] ELSE place)
        /\ closer' = [closer EXCEPT !.pc = "stopping"]
        /\ UNCHANGED <<heldBy, life, busy, sender, answer, recordClosed, deaths>>
    BY <1>2 DEF CloseAgent, CloserKeeps
  <2>2. Tell(said)
    <3>1. mail \in Seq(Messages)
      BY DEF SenderTyped
    <3> QED
      BY <1>2, <3>1 DEF CloseAgent, Tell
  <2>3. said \in Seq(Messages) /\ Turned \cap ToSet(said) = {}
    BY <1>a
  <2>4. cuts => heldBy \in Generations
    BY DEF Listeners
  <2>5. OwnersTyped'
    BY <2>1, <2>4 DEF OwnersTyped, Places
  <2>6. \A h \in Generations : Has(h)' => Has(h)
    BY <2>1, <2>4 DEF Has, OwnersTyped
  <2>7. \A h \in Generations : place'[h] = "queued" => life'[h] \in {"up", "draining"}
    BY <2>1, <2>4 DEF Submitted, OwnersTyped
  <2> HIDE DEF said, cuts
  <2> QED
    BY <2>1, <2>2, <2>3, <2>5, <2>6, <2>7, SayingKeeps
<1>3. CASE CloseStops
  <2> DEFINE g == closer.seen
             stops == g # NoOwner /\ heldBy = g /\ Alive(g)
             said == IF stops THEN Farewell(g) ELSE <<>>
  <2>1. /\ Terminate(g) /\ Tell(said) /\ closer' = [closer EXCEPT !.pc = "writing"]
        /\ UNCHANGED <<sender, answer, recordClosed, deaths>>
    BY <1>3 DEF CloseStops, CloserKeeps
  <2>2. g \in {NoOwner} \cup Generations
    BY DEF OwnersTyped
  <2>3. stops => g \in Generations /\ Farewell(g) \in Seq(Messages)
                 /\ (Turned \cap ToSet(Farewell(g)) # {} => place[g] = "queued" /\ place'[g] = "drained")
    BY <2>1, <2>2, TerminateFacts, FarewellTyped
  <2>4. said \in Seq(Messages)
    BY <1>a, <2>3
  <2>5. Turned \cap ToSet(said) # {} =>
          \E h \in Generations : place[h] = "queued" /\ place'[h] = "drained"
    BY <1>a, <2>3
  <2>6. OwnersTyped'
    BY <2>1, <2>2, TerminateFacts DEF OwnersTyped
  <2> HIDE DEF said, stops
  <2> QED
    BY <2>1, <2>2, <2>4, <2>5, <2>6, TerminateFacts, SayingKeeps
<1> QED
  BY <1>1, <1>2, <1>3

(* A sender that only goes on to another step keeps its type.               *)
LEMMA SenderMoves ==
    ASSUME SenderTyped,
           NEW s \in {"idle", "read", "connect", "await", "recover", "recheck", "missed", "over"}
    PROVE  /\ [sender EXCEPT !.pc = s] \in Senders
           /\ [sender EXCEPT !.pc = s].pc = s
BY DEF SenderTyped, Senders

(* The sender has no owner's answer yet, or one that sent it away.          *)
LEMMA SenderKeeps ==
    ASSUME ClientTypeOK, Submitted, NEW g \in Generations,
           Sends \/ ReadLease \/ ConnectFails \/ LookAgain \/ Missed \/ Recover
    PROVE  ClientTypeOK' /\ Submitted'
<1> USE TypeParts, ClientAssumption
<1>1. /\ sender.pc \in {"idle", "read", "connect", "recheck", "missed", "recover"} /\ mail' = mail
      /\ Nowhere /\ answer = "none"
  BY DEF Sends, ReadLease, ConnectFails, LookAgain, Missed, Recover, Submitted, SenderTyped, senderOnly
<1>2. OwnersTyped' /\ Nowhere' /\ \A h \in Generations : place'[h] = "queued" => life'[h] \in {"up", "draining"}
  <2>1. CASE Recover
    BY <1>1, <2>1, TerminateFacts DEF Recover, OwnersTyped, SenderTyped, Senders, Nowhere
  <2>2. CASE Missed
    <3>1. UNCHANGED <<place, busy, closer, recordClosed, deaths>>
      BY <2>2 DEF Missed
    <3>2. life' \in [Generations -> Lives] /\ heldBy' \in {NoOwner} \cup Generations
      BY <2>2 DEF Missed, Spawn, Starts, Fresh, OwnersTyped, Lives
    <3> QED
      BY <1>1, <3>1, <3>2 DEF OwnersTyped, Nowhere, Has
  <2>3. CASE ReadLease
    BY <1>1, <2>3 DEF ReadLease, OwnersTyped, Nowhere, Has
  <2>4. CASE Sends \/ ConnectFails \/ LookAgain
    BY <1>1, <2>4 DEF Sends, ConnectFails, LookAgain, senderOnly, OwnersTyped, Nowhere, Has
  <2> QED
    BY <2>1, <2>2, <2>3, <2>4
<1>3. /\ sender' \in Senders /\ answer' \in Answers
      /\ answer' # "none" => sender'.pc = "over"
      /\ sender'.pc # "await"
  <2>1. CASE Sends
    BY <1>1, <2>1 DEF Sends, Senders, SenderTyped
  <2>2. CASE ReadLease
    <3>1. sender.submits + 1 \in 0..MaxSubmits /\ heldBy \in {NoOwner} \cup Generations
      BY <2>2 DEF ReadLease, Senders, SenderTyped, OwnersTyped
    <3> QED
      BY <1>1, <2>2, <3>1 DEF ReadLease, Senders, SenderTyped
  <2>3. CASE ConnectFails
    <3>1. \/ answer' = "not accepting" /\ sender' = [sender EXCEPT !.pc = "over"]
          \/ answer' = answer /\ \E s \in {"read", "missed"} : sender' = [sender EXCEPT !.pc = s]
      BY <2>3 DEF ConnectFails, Over
    <3> QED
      BY <1>1, <3>1, SenderMoves DEF Answers
  <2>4. CASE LookAgain
    <3>1. \/ answer' \in Answers /\ sender' = [sender EXCEPT !.pc = "over"]
          \/ answer' = answer /\ \E s \in {"read", "missed"} : sender' = [sender EXCEPT !.pc = s]
      BY <2>4 DEF LookAgain, Over, Answers
    <3> QED
      BY <1>1, <3>1, SenderMoves DEF Answers
  <2>5. CASE Missed
    <3>1. CASE \E o \in Fresh : Spawn(o) /\ sender.spawns < MaxSpawns /\ UNCHANGED answer
      <4>1. sender.spawns < MaxSpawns => sender.spawns + 1 \in 0..MaxSpawns
        BY DEF Senders, SenderTyped
      <4>2. PICK o \in Generations :
               sender' = [sender EXCEPT !.pc = "read", !.stage = "spawned", !.spawned = o,
                                           !.spawns = @ + 1]
        BY <3>1 DEF Spawn, Fresh
      <4> QED
        BY <1>1, <3>1, <4>1, <4>2 DEF Senders, SenderTyped
    <3>2. CASE sender' = [sender EXCEPT !.pc = "read"] /\ UNCHANGED answer
      BY <1>1, <3>2, SenderMoves DEF Answers
    <3>3. CASE Over("not accepting") \/ Over("failed to start")
      BY <1>1, <3>3 DEF Over, Senders, SenderTyped, Answers
    <3> QED
      BY <2>5, <3>1, <3>2, <3>3 DEF Missed
  <2>6. CASE Recover
    BY <1>1, <2>6 DEF Recover, Senders, SenderTyped
  <2> QED
    BY <2>1, <2>2, <2>3, <2>4, <2>5, <2>6
<1>4. SenderTyped'
  BY <1>1, <1>3 DEF SenderTyped
<1>5. Submitted'
  BY <1>2, <1>3 DEF Submitted, Nowhere, Has
<1> QED
  BY <1>2, <1>4, <1>5

(* A submission reaches an owner only while no other has the prompt.         *)
LEMMA ConnectKeeps ==
    ASSUME ClientTypeOK, Submitted, NEW g \in Generations, Connect(g)
    PROVE  ClientTypeOK' /\ Submitted'
<1> USE TypeParts
<1>1. /\ sender.pc = "connect" /\ Nowhere /\ answer = "none" /\ mail \in Seq(Messages)
      /\ UNCHANGED <<heldBy, life, busy, closer, recordClosed, deaths>>
  BY DEF Connect, Submitted, SenderTyped
<1>2. CASE life[g] = "closed"
  <2>1. /\ sender' = [sender EXCEPT !.pc = "await"] /\ mail' = <<"malformed">>
        /\ UNCHANGED <<place, answer>>
    BY <1>2 DEF Connect
  <2>2. mail' \in Seq(Messages)
    BY <2>1, Words DEF Turned
  <2> QED
    BY <1>1, <2>1, <2>2 DEF OwnersTyped, SenderTyped, Senders, Submitted, Nowhere, Has
<1>3. CASE life[g] # "closed" /\ (g # sender.seen \/ life[g] = "draining")
  <2>1. (Over("error") \/ Over("closing")) /\ UNCHANGED <<place, mail>>
    BY <1>3 DEF Connect
  <2>2. PICK told \in {"error", "closing"} :
           answer' = told /\ sender' = [sender EXCEPT !.pc = "over"]
    BY <2>1 DEF Over
  <2>3. sender' \in Senders /\ sender'.pc = "over" /\ answer' \in Answers
    BY <2>2, SenderMoves DEF Answers
  <2>4. OwnersTyped' /\ Nowhere'
    BY <1>1, <2>1 DEF OwnersTyped, Nowhere, Has
  <2>5. SenderTyped'
    BY <1>1, <2>1, <2>3 DEF SenderTyped
  <2>6. \A h \in Generations : place'[h] # "queued"
    BY <2>4 DEF Nowhere, Has
  <2> QED
    BY <2>3, <2>4, <2>5, <2>6 DEF Submitted, Nowhere
<1>4. CASE life[g] # "closed" /\ g = sender.seen /\ life[g] # "draining"
  <2>1. /\ place' = [place EXCEPT ![g] = "queued"] /\ answer' = answer
        /\ sender' = [sender EXCEPT !.pc = "await"] /\ mail' = <<"accepted">>
        /\ life[g] = "up"
    BY <1>4 DEF Connect, Listeners
  <2>2. mail' \in Seq(Messages) /\ Turned \cap ToSet(mail') = {}
    <3>1. "accepted" \in Messages \ Turned
      BY DEF Messages, Turned
    <3> QED
      BY <2>1, <3>1, Words
  <2>3. OwnersTyped'
    BY <1>1, <2>1 DEF OwnersTyped, Places
  <2>4. SenderTyped' /\ sender'.pc = "await"
    BY <1>1, <2>1, <2>2 DEF SenderTyped, Senders
  <2>5. \A h \in Generations : Has(h)' => h = g
    BY <1>1, <2>1 DEF OwnersTyped, Nowhere, Has
  <2>6. \A h \in Generations : place'[h] = "queued" => h = g
    BY <1>1, <2>1 DEF OwnersTyped, Nowhere, Has
  <2> QED
    BY <1>1, <2>1, <2>2, <2>3, <2>4, <2>5, <2>6 DEF Submitted
<1> QED
  BY <1>2, <1>3, <1>4

(* The sender believes a message that turns it away: none has the prompt.   *)
LEMMA ReadMailKeeps ==
    ASSUME ClientTypeOK, Submitted, ReadMail
    PROVE  ClientTypeOK' /\ Submitted'
<1> USE TypeParts
<1>1. /\ sender.pc = "await" /\ mail \in Seq(Messages) /\ mail # <<>> /\ answer = "none"
      /\ UNCHANGED senderOnly
  BY DEF ReadMail, SenderTyped, Submitted
<1>2. /\ Head(mail) \in Messages /\ Head(mail) \in ToSet(mail) /\ Tail(mail) \in Seq(Messages)
      /\ ToSet(Tail(mail)) \subseteq ToSet(mail)
  <2>1. /\ Len(mail) \in Nat \ {0} /\ DOMAIN mail = 1 .. Len(mail) /\ Head(mail) = mail[1]
        /\ DOMAIN Tail(mail) = 1 .. (Len(mail) - 1)
        /\ \A i \in 1 .. (Len(mail) - 1) : Tail(mail)[i] = mail[i + 1] /\ i + 1 \in 1 .. Len(mail)
    BY <1>1
  <2>2. 1 \in DOMAIN mail
    BY <2>1
  <2> QED
    BY <1>1, <2>1, <2>2 DEF ToSet
<1>3. OwnersTyped' /\ \A g \in Generations : Has(g)' <=> Has(g)
  BY <1>1 DEF OwnersTyped, senderOnly, Has
<1>4. \/ mail' = Tail(mail) /\ UNCHANGED <<sender, answer>>
      \/ mail' = <<>> /\ \E told \in {"queued", "result", "error"} : Over(told)
      \/ /\ mail' = <<>> /\ sender' = [sender EXCEPT !.pc = "recover"] /\ answer' = answer
         /\ Nowhere
  <2>1. Head(mail) \in Turned => Nowhere
    BY <1>1, <1>2 DEF Submitted
  <2> QED
    BY <1>1, <1>2, <2>1 DEF ReadMail, Messages, Turned
<1>5. SenderTyped'
  <2>1. sender \in Senders /\ answer \in Answers /\ <<>> \in Seq(Messages)
    BY Words DEF SenderTyped
  <2>2. CASE mail' = Tail(mail) /\ UNCHANGED <<sender, answer>>
    BY <1>2, <2>1, <2>2 DEF SenderTyped
  <2>3. CASE mail' = <<>> /\ \E told \in {"queued", "result", "error"} : Over(told)
    BY <2>1, <2>3 DEF SenderTyped, Senders, Over, Answers
  <2>4. CASE /\ mail' = <<>> /\ sender' = [sender EXCEPT !.pc = "recover"] /\ answer' = answer
             /\ Nowhere
    BY <2>1, <2>4 DEF SenderTyped, Senders
  <2> QED
    BY <1>4, <2>2, <2>3, <2>4
<1>6. Submitted'
  <2>1. \A g \in Generations : place'[g] = "queued" => life'[g] \in {"up", "draining"}
    BY <1>1 DEF Submitted, senderOnly
  <2>2. CASE mail' = Tail(mail) /\ UNCHANGED <<sender, answer>>
    BY <1>1, <1>2, <1>3, <2>1, <2>2 DEF Submitted, Nowhere
  <2>3. CASE mail' = <<>> /\ \E told \in {"queued", "result", "error"} : Over(told)
    BY <1>1, <1>3, <2>1, <2>3 DEF Submitted, Nowhere, Over, SenderTyped, Senders
  <2>4. CASE /\ mail' = <<>> /\ sender' = [sender EXCEPT !.pc = "recover"] /\ answer' = answer
             /\ Nowhere
    BY <1>1, <1>3, <2>1, <2>4 DEF Submitted, Nowhere
  <2> QED
    BY <1>4, <2>2, <2>3, <2>4
<1> QED
  BY <1>3, <1>5, <1>6

(* At first there is no owner and nothing was submitted.                     *)
LEMMA ClientStarts == ClientInit => ClientTypeOK /\ Submitted
<1> SUFFICES ASSUME ClientInit PROVE ClientTypeOK /\ Submitted
  OBVIOUS
<1>1. OwnersTyped
  <2>1. 0 \in 0..MaxOwnerDeaths
    BY ClientAssumption
  <2> QED
    BY <2>1 DEF ClientInit, OwnersTyped, Lives, Places
<1>2. SenderTyped
  <2>1. 0 \in 0..MaxSpawns /\ 0 \in 0..MaxSubmits
    BY ClientAssumption
  <2>2. <<>> \in Seq(Messages)
    BY Words
  <2> QED
    BY <2>1, <2>2 DEF ClientInit, SenderTyped, Senders, Answers
<1>3. Submitted
  BY DEF ClientInit, Submitted, Nowhere, Has
<1> QED
  BY <1>1, <1>2, <1>3, TypeParts

(* No step breaks what was submitted.                                        *)
LEMMA ClientSteps ==
    ClientTypeOK /\ Submitted /\ [ClientNext]_clientVars => ClientTypeOK' /\ Submitted'
<1> SUFFICES ASSUME ClientTypeOK, Submitted, [ClientNext]_clientVars
             PROVE  ClientTypeOK' /\ Submitted'
  OBVIOUS
<1>0. 1 \in Generations
  BY ClientAssumption DEF Generations
<1>1. CASE Sends \/ SenderNext
  BY <1>0, <1>1, SenderKeeps, ConnectKeeps, ReadMailKeeps DEF SenderNext
<1>2. CASE CloserNext \/ OtherSpawns \/ OthersTurnEnds
  BY <1>0, <1>2, OwnersRunKeep, ClosesKeep DEF CloserNext
<1>3. ASSUME NEW g \in Generations, OwnerNext(g) \/ OthersTurn(g) \/ IdleExit(g) \/ OwnerCrashes(g)
      PROVE  ClientTypeOK' /\ Submitted'
  BY <1>3, OwnersRunKeep, PromptsRunKeep, ExitsKeep DEF OwnerNext
<1>4. CASE UNCHANGED clientVars
  <2>1. OwnersTyped /\ SenderTyped
    BY TypeParts
  <2>2. OwnersTyped' /\ SenderTyped'
    BY <1>4, <2>1 DEF clientVars, OwnersTyped, SenderTyped
  <2>3. Submitted'
    BY <1>4 DEF clientVars, Submitted, Nowhere, Has
  <2> QED
    BY <2>2, <2>3, TypeParts
<1> QED
  BY <1>1, <1>2, <1>3, <1>4 DEF ClientNext

\* Every reachable state of the client, its owners and a close is well formed.
THEOREM ClientTypeCorrect == ClientSpec => []ClientTypeOK
    BY ClientStarts, ClientSteps, PTL DEF ClientSpec

\* However often sendSession submits a prompt again, to owners that shut down, die or are
\* replaced, one owner at most takes it; and a sender that is told it was not accepted is told
\* the truth.
THEOREM AlwaysTakenAsTold == ClientSpec => []TakenAsTold
<1>1. Submitted => TakenAsTold
  <2> SUFFICES ASSUME Submitted PROVE TakenAsTold
    OBVIOUS
  <2>1. \A g, h \in Generations : Ran(g) /\ Ran(h) => g = h
    BY DEF Submitted, Ran, Has
  <2> QED
    BY <2>1 DEF Submitted, Nowhere, Has, TakenAsTold
<1> QED
  BY <1>1, ClientStarts, ClientSteps, PTL DEF ClientSpec


-----------------------------------------------------------------------------
(* The owner keeps what Delivery promises.                                 *)

(* What is told of a prompt: nothing until it leaves the queue or the turn *)
(* in hand, nothing to a prompt that joined a turn until its own answer, or*)
(* the end of that turn, is written.                                       *)
Telling(t) == steer[t] \in {"answering", "late", "both"}
Open(t) == steer[t] \in {"opening", "straying", "sent", "absorbed", "stray", "answering", "both"}

Untold ==
  /\ \A t \in Tasks : t > arrived \/ Open(t) => outcome[t] = <<>>
  /\ \A t \in Held \cup {hand} : t # NoTask => steer[t] = "no" /\ outcome[t] = <<>>

(* Prompts are captured only while a turn runs, and none is queued once    *)
(* the socket is closed.                                                   *)
Emptied ==
  /\ buffer # <<>> => loop \in Turn
  /\ loop \in {"closing"} \cup Ended => pending = <<>>

(* What a step makes of one prompt: it is where it was; it comes; it goes  *)
(* on from the queue; it is told that it never got to the agent; its turn  *)
(* ends, or the turn it joined; it is answered; that turn ends first; its  *)
(* own answer is written.                                                  *)
Passes(t) ==
  /\ steer'[t] = "no" <=> steer[t] = "no"
  /\ steer'[t] = "over" <=> steer[t] = "over"
  /\ Telling(t)' <=> Telling(t)
  /\ Open(t)' => Open(t)
IsPast(t) ==
  steer'[t] = "over" /\ steer[t] # "no" /\ ~Telling(t) /\ outcome[t] # <<>>
Rests(t) ==
  /\ t \in Held' <=> t \in Held
  /\ t = hand' <=> t = hand
  /\ Passes(t) \/ IsPast(t)
  /\ outcome'[t] = outcome[t] /\ (t > arrived' <=> t > arrived)
NowNowhere(t) == t \notin Held' \cup {hand'} /\ steer'[t] \in {"no", "over"}
ComesIn(t) ==
  /\ t > arrived /\ t <= arrived'
  /\ \/ /\ outcome'[t] = outcome[t] /\ steer'[t] \in {"no", "opening"}
        /\ t \in Held' \cup {hand'} => steer'[t] = "no"
     \/ outcome'[t] = <<"told">> /\ NowNowhere(t)
GoesOn(t) ==
  /\ t \in Held /\ t \notin Held' /\ UNCHANGED arrived /\ outcome'[t] = outcome[t]
  /\ \/ t = hand' /\ steer'[t] = steer[t]
     \/ t # hand' /\ steer'[t] = "opening"
IsTold(t) ==
  /\ t \in Held /\ NowNowhere(t) /\ UNCHANGED arrived
  /\ \E v \in D!NeverDelivered : outcome'[t] = <<v>>
IsDone(t) ==
  /\ outcome[t] = <<>> /\ (t = hand \/ (t \in Steered /\ ~Telling(t)))
  /\ NowNowhere(t) /\ UNCHANGED arrived
  /\ \E v \in D!MayBeDelivered : outcome'[t] = <<v>>
Elsewhere(t) == t \notin Held' \cup {hand'} /\ UNCHANGED arrived
IsAnswered(t) ==
  /\ Elsewhere(t) /\ t \in Steered /\ ~Telling(t) /\ Telling(t)'
  /\ outcome[t] = <<>> /\ outcome'[t] = outcome[t]
IsSpokenFor(t) ==
  /\ Elsewhere(t) /\ Telling(t) /\ steer'[t] = "late" /\ outcome[t] = <<>>
  /\ \E v \in D!MayBeDelivered : outcome'[t] = <<v>>
ItLands(t) ==
  /\ Elsewhere(t) /\ Telling(t) /\ steer'[t] \in {"over", "spliced"}
  /\ \E v \in D!MayBeDelivered : outcome'[t] = Append(outcome[t], v)
Fate(t) ==
  \/ Rests(t) \/ ComesIn(t) \/ GoesOn(t) \/ IsTold(t) \/ IsDone(t)
  \/ IsAnswered(t) \/ IsSpokenFor(t) \/ ItLands(t)

DeliveryInv ==
  TypeOK /\ Ordered /\ HandIsBusy /\ Apart /\ Untold /\ Emptied

(* Where a prompt is, as Delivery sees it.                                 *)
LEMMA PlacesKnown ==
  ASSUME DeliveryInv
  PROVE  /\ NoTask \notin Tasks /\ Tasks \subseteq Nat /\ arrived \in Nat
         /\ hand \in Tasks \cup {NoTask} /\ Held \subseteq Tasks /\ Steered \subseteq Tasks
         /\ pending \in Seq(Tasks) /\ buffer \in Seq(Tasks) /\ steer \in [Tasks -> Steers]
         /\ outcome \in [Tasks -> Seq(Outcomes)] /\ Elements(<<>>) = {}
         /\ \A t \in Tasks :
              /\ t \in Held \cup {hand} => steer[t] = "no" /\ outcome[t] = <<>> /\ t <= arrived
              /\ steer[t] # "no" => t <= arrived /\ t \notin Held \cup {hand}
              /\ Open(t) => outcome[t] = <<>>
              /\ t > arrived => outcome[t] = <<>> /\ steer[t] = "no" /\ t \notin Custody
              /\ t \in Held => t # hand
              /\ ~(t > arrived) <=> t <= arrived
<1>1. /\ NoTask \notin Tasks /\ Tasks \subseteq Nat /\ arrived \in Nat /\ hand \in Tasks \cup {NoTask}
      /\ pending \in Seq(Tasks) /\ buffer \in Seq(Tasks) /\ steer \in [Tasks -> Steers]
      /\ outcome \in [Tasks -> Seq(Outcomes)]
  BY OwnerAssumption DEF DeliveryInv, TypeOK, CustodyTypeOK, Tasks, NoTask
<1>2. Held \subseteq Tasks /\ Steered \subseteq Tasks /\ Elements(<<>>) = {}
  BY <1>1 DEF Held, Elements, Steered
<1>3. ASSUME NEW t \in Tasks
      PROVE  /\ t \in Nat /\ t # NoTask
             /\ t \in Held \cup {hand} => steer[t] = "no" /\ outcome[t] = <<>> /\ t <= arrived
             /\ Open(t) => outcome[t] = <<>>
             /\ t > arrived => outcome[t] = <<>>
             /\ steer[t] # "no" => t <= arrived
             /\ t \in Held => t # hand
  BY <1>1, <1>2 DEF DeliveryInv, Ordered, Apart, Untold
<1>4. \A t \in Tasks : ~(t > arrived) <=> t <= arrived
  BY <1>1
<1>5. \A t \in Tasks : t \in Custody => t \in Held \cup {hand} \/ steer[t] # "no"
  BY <1>1, <1>2 DEF Custody, Steered
<1> QED
  BY <1>1, <1>2, <1>3, <1>4, <1>5

(* Such a step is one of Delivery's, and leaves what is told as it should. *)
LEMMA FateServes ==
  ASSUME DeliveryInv, TypeOK', Up, Up', \A t \in Tasks : Fate(t)
  PROVE  D!Serve /\ Untold'
<1>a. /\ NoTask \notin Tasks /\ Tasks \subseteq Nat /\ arrived \in Nat /\ arrived' \in Nat
      /\ hand' \in Tasks \cup {NoTask} /\ Held' \subseteq Tasks
      /\ steer \in [Tasks -> Steers] /\ steer' \in [Tasks -> Steers]
  <2>1. arrived' \in Nat /\ hand' \in Tasks \cup {NoTask} /\ steer' \in [Tasks -> Steers]
    BY OwnerAssumption DEF TypeOK, CustodyTypeOK
  <2>2. Held' \subseteq Tasks
    BY DEF TypeOK, CustodyTypeOK, Held, Elements
  <2> QED
    BY <2>1, <2>2, PlacesKnown
<1>b. \A v : <<v>> # <<>>
  OBVIOUS
<1>c. ASSUME NEW t \in Tasks
      PROVE  /\ t \in Held \cup {hand} => steer[t] = "no" /\ outcome[t] = <<>> /\ ~(t > arrived)
             /\ steer[t] # "no" => ~(t > arrived) /\ t \notin Held \cup {hand}
             /\ Open(t) => outcome[t] = <<>>
             /\ t > arrived => outcome[t] = <<>> /\ steer[t] = "no" /\ t \notin Held \cup {hand}
             /\ t \in Held => t # hand
             /\ t <= arrived' <=> ~(t > arrived')
             /\ t \in Steered <=> steer[t] \notin {"no", "over"}
             /\ t \in Steered' <=> steer'[t] \notin {"no", "over"}
  BY <1>a, PlacesKnown DEF Custody, Steered
<1>1. ASSUME NEW t \in Tasks
      PROVE  \/ Where(t)' = Where(t) /\ outcome'[t] = outcome[t]
             \/ /\ Where(t) = "unsent"
                /\ \/ Where(t)' \in {"queued", "turn", "steered", "dropped"} /\ outcome'[t] = <<>>
                   \/ Where(t)' = "settled" /\ outcome'[t] = <<"told">>
             \/ Where(t) = "queued" /\ Where(t)' \in {"turn", "steered"} /\ outcome'[t] = <<>>
             \/ /\ Where(t) = "queued" /\ Where(t)' = "settled"
                /\ \E v \in D!NeverDelivered : outcome'[t] = <<v>>
             \/ /\ Where(t) \in {"turn", "steered"} /\ Where(t)' = "settled"
                /\ \E v \in D!MayBeDelivered : outcome'[t] = <<v>>
             \/ /\ Where(t) = "steered" /\ Where(t)' = "answering"
                /\ outcome[t] = <<>> /\ outcome'[t] = <<>>
             \/ /\ Where(t) = "answering" /\ Where(t)' = "answering" /\ outcome[t] = <<>>
                /\ \E v \in D!MayBeDelivered : outcome'[t] = <<v>>
             \/ /\ Where(t) = "answering" /\ Where(t)' = "settled"
                /\ \E v \in D!MayBeDelivered : outcome'[t] = Append(outcome[t], v)
  <2>a. Telling(t) => ~(t > arrived) /\ Where(t) = "answering"
    BY <1>c DEF Telling, Where
  <2>b. /\ t \in Held => Where(t) = "queued"
        /\ t = hand => Where(t) = "turn"
        /\ t \in Steered /\ ~Telling(t) /\ outcome[t] = <<>> => Where(t) = "steered"
    BY <1>c DEF Where, Telling
  <2>c. ~(t > arrived') /\ outcome'[t] # <<>> /\ ~Telling(t)' => Where(t)' = "settled"
    BY DEF Where, Telling
  <2>d. ~(t > arrived') /\ Telling(t)' => Where(t)' = "answering"
    BY DEF Where, Telling
  <2>1. CASE Rests(t)
    <3>1. CASE Passes(t)
      <4>1. t \in Steered' <=> t \in Steered
        BY <1>c, <3>1 DEF Passes
      <4> QED
        BY <2>1, <3>1, <4>1 DEF Rests, Passes, Where, Telling
    <3>2. CASE IsPast(t)
      <4>1. ~(t > arrived) /\ ~(t > arrived') /\ ~Telling(t) /\ ~Telling(t)'
        BY <1>c, <2>1, <3>2 DEF Rests, IsPast, Telling
      <4>2. Where(t) = "settled"
        BY <3>2, <4>1 DEF IsPast, Where, Telling
      <4> QED
        BY <2>1, <2>c, <3>2, <4>1, <4>2 DEF Rests, IsPast
    <3> QED
      BY <2>1, <3>1, <3>2 DEF Rests
  <2>2. CASE ComesIn(t)
    <3>1. Where(t) = "unsent" /\ outcome[t] = <<>> /\ ~(t > arrived')
      BY <2>2, <1>c DEF ComesIn, Where
    <3>2. CASE outcome'[t] = outcome[t] /\ steer'[t] \in {"no", "opening"}
      BY <3>1, <3>2 DEF Where
    <3>3. CASE outcome'[t] = <<"told">> /\ NowNowhere(t)
      BY <3>1, <3>3, <1>b, <2>c DEF NowNowhere, Telling
    <3> QED
      BY <2>2, <3>1, <3>2, <3>3 DEF ComesIn
  <2>3. CASE GoesOn(t)
    <3>1. Where(t) = "queued" /\ ~(t > arrived') /\ outcome'[t] = <<>> /\ steer[t] = "no"
      BY <2>3, <1>c, <2>b DEF GoesOn
    <3>2. CASE t = hand' /\ steer'[t] = steer[t]
      BY <2>3, <3>1, <3>2 DEF GoesOn, Where
    <3>3. CASE t # hand' /\ steer'[t] = "opening"
      BY <1>c, <2>3, <3>1, <3>3 DEF GoesOn, Where
    <3> QED
      BY <2>3, <3>1, <3>2, <3>3 DEF GoesOn
  <2>4. CASE IsTold(t)
    <3>1. Where(t) = "queued" /\ ~(t > arrived') /\ outcome'[t] # <<>> /\ ~Telling(t)'
      BY <2>4, <1>b, <1>c, <2>b DEF IsTold, NowNowhere, Telling
    <3> QED
      BY <2>4, <2>c, <3>1 DEF IsTold
  <2>5. CASE IsDone(t)
    <3>1. /\ Where(t) \in {"turn", "steered"} /\ ~(t > arrived') /\ outcome'[t] # <<>>
          /\ ~Telling(t)'
      BY <2>5, <1>b, <1>c, <2>b DEF IsDone, NowNowhere, Telling
    <3> QED
      BY <2>5, <2>c, <3>1 DEF IsDone
  <2>6. CASE IsAnswered(t)
    <3>1. Where(t) = "steered" /\ ~(t > arrived')
      BY <2>6, <1>c, <2>b DEF IsAnswered, Elsewhere
    <3> QED
      BY <2>6, <2>d, <3>1 DEF IsAnswered
  <2>7. CASE IsSpokenFor(t)
    <3>1. ~(t > arrived') /\ Telling(t)'
      BY <2>7, <2>a DEF IsSpokenFor, Elsewhere, Telling
    <3> QED
      BY <2>7, <2>a, <2>d, <3>1 DEF IsSpokenFor
  <2>8. CASE ItLands(t)
    <3>1. ~(t > arrived') /\ ~Telling(t)'
      BY <2>8, <2>a DEF ItLands, Elsewhere, Telling
    <3>2. outcome[t] \in Seq(Outcomes)
      BY PlacesKnown
    <3>3. \A v : Append(outcome[t], v) # <<>>
      BY <3>2
    <3> QED
      BY <2>8, <2>a, <2>c, <3>1, <3>3 DEF ItLands
  <2> QED
    BY <2>1, <2>2, <2>3, <2>4, <2>5, <2>6, <2>7, <2>8 DEF Fate
<1>2. D!Serve
  BY <1>1 DEF D!Serve, D!Stays, D!Accepted, D!Started, D!Settled, D!Settles, D!AnswerArrives,
     D!SpokenFor, D!Lands
<1>3. Untold'
  <2> SUFFICES ASSUME NEW t \in Tasks
               PROVE  /\ t > arrived' \/ Open(t)' => outcome'[t] = <<>>
                      /\ t \in Held' \cup {hand'} => steer'[t] = "no" /\ outcome'[t] = <<>>
    BY <1>a DEF Untold
  <2>1. CASE Rests(t)
    BY <2>1, <1>c DEF Rests, Passes, IsPast, Open
  <2>2. CASE ComesIn(t)
    BY <2>2, <1>c DEF ComesIn, NowNowhere, Open
  <2>3. CASE GoesOn(t)
    BY <2>3, <1>c DEF GoesOn
  <2>4. CASE IsTold(t)
    BY <2>4, <1>c DEF IsTold, NowNowhere, Open
  <2>5. CASE IsDone(t)
    BY <2>5, <1>c DEF IsDone, NowNowhere, Open
  <2>6. CASE IsAnswered(t)
    BY <2>6, <1>c DEF IsAnswered, Elsewhere
  <2>7. CASE IsSpokenFor(t)
    BY <2>7, <1>c DEF IsSpokenFor, Elsewhere, Open, Telling
  <2>8. CASE ItLands(t)
    BY <2>8, <1>c DEF ItLands, Elsewhere, Open, Telling
  <2> QED
    BY <2>1, <2>2, <2>3, <2>4, <2>5, <2>6, <2>7, <2>8 DEF Fate
<1> QED
  BY <1>2, <1>3

(* Only a turn captures, and the closed queue stays empty.                 *)
LEMMA EmptiedKept ==
  ASSUME TypeOK, TypeOK', Emptied, [Next]_vars
  PROVE  Emptied'
<1> USE DEF Emptied, Capturing, Handling, Ending, Turn, Ended, custody, closing, HandOut
<1>1. CASE UNCHANGED vars
  BY <1>1 DEF vars
<1>2. CASE TurnStep
  <2>1. CASE TurnRefused \/ WriteMain
    BY <2>1 DEF TurnRefused, WriteMain, EndTurn
  <2>2. CASE RegisterHandler
    BY <2>2 DEF RegisterHandler
  <2>3. CASE \/ BeginTurn \/ OpenMain \/ Answered \/ StopInjecting \/ InjectedCut
             \/ SpliceAbsorbed \/ ClaimMain
             \/ \E t \in Tasks : CutInjected(t) \/ WriteAbsorbed(t)
    BY <2>3 DEF BeginTurn, OpenMain, Answered, StopInjecting, CutInjected, InjectedCut,
       SpliceAbsorbed, ClaimMain, WriteAbsorbed
  <2> QED
    BY <1>2, <2>1, <2>2, <2>3 DEF TurnStep
<1>3. ASSUME NEW t \in Tasks, SteerStep(t) PROVE Emptied'
  BY <1>3 DEF SteerStep, SteerOpens, SteerAnswered, SteerWritten
<1>4. CASE TakeNext \/ Park \/ WaitTimesOut \/ IdleDecision \/ Release
           \/ NoDeferredClose \/ RefuseDeferredClose \/ CloseRecorded \/ Resume
  BY <1>4 DEF TakeNext, Park, WaitTimesOut, IdleDecision, Release, NoDeferredClose,
     RefuseDeferredClose, CloseRecorded, Resume
<1>5. CASE PerformDeferredClose \/ Close
  BY <1>5 DEF PerformDeferredClose, Close, QuiesceAndEmpty
<1>6. ASSUME NEW how, ProcessEnds(how) PROVE Emptied'
  BY <1>6 DEF ProcessEnds
<1>7. ASSUME NEW t \in Tasks, Submit(t) PROVE Emptied'
  <2>1. CASE SubmitToTurn(t)
    BY <2>1 DEF SubmitToTurn, Accepts, Injectable
  <2>2. CASE SubmitToWaiter(t) \/ SubmitTurnedAway(t)
    BY <2>2 DEF SubmitToWaiter, SubmitTurnedAway, Accepts
  <2>3. CASE SubmitToQueue(t)
    BY <2>3 DEF SubmitToQueue, Accepts, Closed, Up
  <2> QED
    BY <1>7, <2>1, <2>2, <2>3 DEF Submit
<1>8. ASSUME NEW r \in Requests, NEW b \in BOOLEAN,
             RequestDrain(r, b) \/ DrainStep(r) \/ ScheduleClose(r, b)
      PROVE  Emptied'
  BY <1>8 DEF RequestDrain, DrainStep, DrainPolls, DrainSettles, ScheduleClose, Check, Abort,
     QuiesceAndEmpty, Quiesce, Up
<1>9. CASE TaskChanges
  BY <1>9 DEF TaskChanges
<1> QED
  BY <1>1, <1>2, <1>3, <1>4, <1>5, <1>6, <1>7, <1>8, <1>9
     DEF Next, LoopStep, Exit, FatalSignal, Crash

(* ---- The shapes of a step, and what each makes of the prompts ---------- *)

(* Nothing leaves its place. *)
LEMMA AllRest ==
  ASSUME UNCHANGED <<hand, pending, buffer, arrived, outcome>>, \A t \in Tasks : Passes(t)
  PROVE  \A t \in Tasks : Fate(t)
BY DEF Fate, Rests, Held

(* The main prompt is settled, and what the turn captured goes back.       *)
LEMMA MainDone ==
  ASSUME DeliveryInv, NEW v \in D!MayBeDelivered, Settle({hand}, v), EndTurn, UNCHANGED arrived,
         \A t \in Tasks : Passes(t)
  PROVE  \A t \in Tasks : Fate(t)
<1> TAKE t \in Tasks
<1>1. Held' = Held
  <2>1. Elements(pending') = Elements(buffer) \cup Elements(pending)
    BY PlacesKnown, ElementsOfBoth DEF EndTurn, Requeued
  <2> QED
    BY <2>1, PlacesKnown DEF Held, EndTurn
<1>2. hand' = NoTask /\ t # NoTask
  BY PlacesKnown DEF EndTurn
<1>3. CASE t = hand
  <2>1. outcome[t] = <<>> /\ steer[t] = "no" /\ t \notin Held
    BY <1>3, PlacesKnown
  <2>2. outcome'[t] = <<v>>
    BY <1>3, <2>1 DEF Settle
  <2>3. NowNowhere(t)
    BY <1>1, <1>2, <2>1 DEF NowNowhere, Passes
  <2> QED
    BY <1>3, <2>1, <2>2, <2>3 DEF Fate, IsDone
<1>4. CASE t # hand
  <2>1. outcome'[t] = outcome[t]
    BY <1>4 DEF Settle
  <2> QED
    BY <1>1, <1>2, <1>4, <2>1 DEF Fate, Rests
<1> QED
  BY <1>3, <1>4

(* One prompt that joined a turn goes its way.                             *)
LEMMA OneGoes ==
  ASSUME UNCHANGED <<hand, pending, buffer, arrived>>, NEW s \in Tasks, Fate(s),
         \A t \in Tasks : t # s => steer'[t] = steer[t] /\ outcome'[t] = outcome[t]
  PROVE  \A t \in Tasks : Fate(t)
<1> TAKE t \in Tasks
<1>1. CASE t # s
  <2>1. steer'[t] = steer[t] /\ outcome'[t] = outcome[t]
    BY <1>1
  <2>2. Passes(t)
    BY <2>1 DEF Passes, Telling, Open
  <2> QED
    BY <2>1, <2>2 DEF Fate, Rests, Held
<1> QED
  BY <1>1

(* Its turn settles it, where its own answer has not: before that answer,  *)
(* while the answer is written, or after it.                               *)
LEMMA SteerSettled ==
  ASSUME DeliveryInv, NEW v \in D!MayBeDelivered, NEW s \in Tasks, steer[s] \notin {"no", "over"},
         Settle({s}, v), UNCHANGED <<hand, pending, buffer, arrived>>,
         steer' = [steer EXCEPT ![s] = IF steer[s] \in {"answering", "both"} THEN "late" ELSE "over"],
         steer[s] # "late"
  PROVE  \A t \in Tasks : Fate(t)
<1>1. \A t \in Tasks : t # s => steer'[t] = steer[t] /\ outcome'[t] = outcome[t]
  BY PlacesKnown DEF Settle
<1>2. s \notin Held' \cup {hand'}
  <2>1. s \notin Held \cup {hand}
    BY PlacesKnown
  <2> QED
    BY <2>1 DEF Held
<1>3. steer'[s] = IF steer[s] \in {"answering", "both"} THEN "late" ELSE "over"
  BY PlacesKnown
<1>4. outcome[s] = <<>> => outcome'[s] = <<v>>
  BY DEF Settle
<1>5. CASE Telling(s)
  <2>1. outcome[s] = <<>> /\ steer'[s] = "late"
    BY <1>3, <1>5, PlacesKnown DEF Telling, Open
  <2> QED
    BY <1>1, <1>2, <1>4, <1>5, <2>1, OneGoes DEF Fate, IsSpokenFor, Elsewhere
<1>6. CASE ~Telling(s) /\ outcome[s] = <<>>
  <2>1. steer'[s] = "over" /\ s \in Steered
    BY <1>3, <1>6 DEF Telling, Steered
  <2>2. IsDone(s)
    BY <1>2, <1>4, <1>6, <2>1 DEF IsDone, NowNowhere
  <2> QED
    BY <1>1, <2>2, OneGoes DEF Fate
<1>7. CASE ~Telling(s) /\ outcome[s] # <<>>
  <2>1. outcome'[s] = outcome[s] /\ steer'[s] = "over"
    BY <1>3, <1>7 DEF Settle, Telling
  <2>2. IsPast(s)
    BY <1>7, <2>1 DEF IsPast
  <2>3. Rests(s)
    BY <2>1, <2>2 DEF Rests, Held
  <2> QED
    BY <1>1, <2>3, OneGoes DEF Fate
<1> QED
  BY <1>5, <1>6, <1>7

(* Its own answer arrives, and is written.                                 *)
LEMMA SteerHeard ==
  ASSUME DeliveryInv, NEW s \in Tasks, SteerAnswered(s) \/ SteerWritten(s)
  PROVE  \A t \in Tasks : Fate(t)
<1>1. /\ \A t \in Tasks : t # s => steer'[t] = steer[t] /\ outcome'[t] = outcome[t]
      /\ UNCHANGED <<hand, pending, buffer, arrived>> /\ steer[s] \notin {"no", "over"}
  BY PlacesKnown DEF SteerAnswered, SteerWritten
<1>2. Elsewhere(s)
  <2>1. s \notin Held \cup {hand}
    BY <1>1, PlacesKnown
  <2> QED
    BY <1>1, <2>1 DEF Held, Elsewhere
<1>3. CASE SteerAnswered(s)
  <2>1. /\ outcome[s] = <<>> /\ outcome'[s] = outcome[s]
        /\ steer[s] \in {"sent", "absorbed", "stray", "spliced"}
        /\ steer'[s] \in {"answering", "late", "both"}
    BY <1>3, PlacesKnown DEF SteerAnswered
  <2>2. s \in Steered /\ ~Telling(s) /\ Telling(s)'
    BY <2>1 DEF Steered, Telling
  <2>3. IsAnswered(s)
    BY <1>2, <2>1, <2>2 DEF IsAnswered
  <2> QED
    BY <1>1, <2>3, OneGoes DEF Fate
<1>4. CASE SteerWritten(s)
  <2>1. /\ steer[s] \in {"answering", "late", "both"} /\ steer'[s] \in {"over", "spliced"}
        /\ outcome'[s] = Append(outcome[s], "settled")
    BY <1>4, PlacesKnown DEF SteerWritten
  <2>2. "settled" \in D!MayBeDelivered
    BY DEF D!MayBeDelivered
  <2>3. ItLands(s)
    BY <1>2, <2>1, <2>2 DEF ItLands, Telling
  <2> QED
    BY <1>1, <2>3, OneGoes DEF Fate
<1> QED
  BY <1>3, <1>4

(* All that is held is told that it never reached the agent.               *)
LEMMA HeldTold ==
  ASSUME DeliveryInv, NEW v \in D!NeverDelivered, Settle(Held, v),
         pending' = <<>> /\ buffer' = <<>>, UNCHANGED <<hand, steer, arrived>>
  PROVE  \A t \in Tasks : Fate(t)
<1> TAKE t \in Tasks
<1>1. Held' = {}
  BY PlacesKnown DEF Held
<1>2. CASE t \in Held
  <2>1. outcome[t] = <<>> /\ steer[t] = "no" /\ t # hand
    BY <1>2, PlacesKnown
  <2>2. outcome'[t] = <<v>>
    BY <1>2, <2>1 DEF Settle
  <2>3. NowNowhere(t)
    BY <1>1, <2>1 DEF NowNowhere
  <2> QED
    BY <1>2, <2>2, <2>3 DEF Fate, IsTold
<1>3. CASE t \notin Held
  <2>1. outcome'[t] = outcome[t] /\ Passes(t)
    BY <1>3 DEF Settle, Passes, Telling, Open
  <2> QED
    BY <1>1, <1>3, <2>1 DEF Fate, Rests
<1> QED
  BY <1>2, <1>3

(* The oldest prompt is handed out to a loop that has none.                *)
LEMMA OldestGoesOn ==
  ASSUME DeliveryInv, pending # <<>>, hand = NoTask, hand' = Head(pending),
         pending' = Tail(pending), UNCHANGED <<buffer, steer, arrived, outcome>>
  PROVE  \A t \in Tasks : Fate(t)
<1> TAKE t \in Tasks
<1>1. /\ Head(pending) \in Elements(pending)
      /\ Elements(pending') = Elements(pending) \ {Head(pending)}
  BY PlacesKnown, OldestAtHead DEF DeliveryInv, Ordered
<1>2. Head(pending) \notin Elements(buffer)
  BY <1>1 DEF DeliveryInv, Ordered
<1>3. CASE t = hand'
  <2>1. t \in Held /\ t \notin Held'
    BY <1>1, <1>2, <1>3 DEF Held
  <2> QED
    BY <1>3, <2>1 DEF Fate, GoesOn
<1>4. CASE t # hand'
  <2>1. t # hand
    BY PlacesKnown
  <2>2. t \in Held' <=> t \in Held
    BY <1>1, <1>4 DEF Held
  <2>3. Passes(t)
    BY DEF Passes, Telling, Open
  <2> QED
    BY <1>4, <2>1, <2>2, <2>3 DEF Fate, Rests
<1> QED
  BY <1>3, <1>4

(* The turn takes what it has captured. *)
LEMMA CapturedGoesOn ==
  ASSUME DeliveryInv, RegisterHandler
  PROVE  \A t \in Tasks : Fate(t)
<1>1. CASE backend = "sequential"
  <2>1. \A t \in Tasks : Passes(t)
    BY <1>1 DEF RegisterHandler, Passes, Telling, Open
  <2> QED
    BY <1>1, <2>1, AllRest DEF RegisterHandler
<1>2. CASE backend # "sequential"
  <2> TAKE t \in Tasks
  <2>1. /\ steer' = [x \in Tasks |-> IF x \in Elements(buffer) THEN "opening" ELSE steer[x]]
        /\ buffer' = <<>> /\ UNCHANGED <<hand, pending, arrived, outcome>>
    BY <1>2 DEF RegisterHandler
  <2>2. Held' = Elements(pending) /\ Elements(pending) \cap Elements(buffer) = {}
    BY <2>1, PlacesKnown DEF Held, DeliveryInv, Ordered
  <2>3. CASE t \in Elements(buffer)
    <3>1. t \in Held /\ t \notin Held' /\ t # hand
      BY <2>2, <2>3, PlacesKnown DEF Held
    <3> QED
      BY <2>1, <2>3, <3>1 DEF Fate, GoesOn
  <2>4. CASE t \notin Elements(buffer)
    <3>1. Passes(t)
      BY <2>1, <2>4 DEF Passes, Telling, Open
    <3> QED
      BY <2>1, <2>2, <2>4, <3>1 DEF Fate, Rests, Held
  <2> QED
    BY <2>3, <2>4
<1> QED
  BY <1>1, <1>2

(* A prompt arrives. *)
LEMMA ArrivalComesIn ==
  ASSUME DeliveryInv, NEW s \in Tasks, Submit(s)
  PROVE  \A t \in Tasks : Fate(t)
<1> TAKE t \in Tasks
<1>1. /\ s = arrived + 1 /\ arrived' = s
  BY DEF Submit, SubmitToTurn, SubmitToWaiter, SubmitToQueue, SubmitTurnedAway, Accepts
<1>2. /\ s > arrived /\ s <= arrived' /\ s \notin Held \cup {hand}
      /\ outcome[s] = <<>> /\ steer[s] = "no"
  <2>1. s > arrived /\ s <= arrived'
    BY <1>1, PlacesKnown
  <2> QED
    BY <2>1, PlacesKnown DEF Custody
<1>3. t # s => (t > arrived' <=> t > arrived)
  BY <1>1, PlacesKnown
<1>a. steer'[t] = steer[t] => Passes(t)
  BY DEF Passes, Telling, Open
<1>4. CASE SubmitToTurn(s)
  <2>1. UNCHANGED <<hand, pending, outcome>>
    BY <1>4 DEF SubmitToTurn
  <2>2. CASE steer' = [steer EXCEPT ![s] = "opening"] /\ UNCHANGED buffer
    <3>1. Held' = Held
      BY <2>1, <2>2 DEF Held
    <3>2. CASE t = s
      BY <1>2, <2>1, <2>2, <3>1, <3>2, PlacesKnown DEF Fate, ComesIn
    <3>3. CASE t # s
      <4>1. steer'[t] = steer[t]
        BY <2>2, <3>3, PlacesKnown
      <4> QED
        BY <1>3, <1>a, <2>1, <3>1, <3>3, <4>1 DEF Fate, Rests
    <3> QED
      BY <3>2, <3>3
  <2>3. CASE buffer' = Append(buffer, s) /\ UNCHANGED steer
    <3>1. Held' = Held \cup {s}
      BY <2>1, <2>3, PlacesKnown, ElementsOfAppend DEF Held
    <3> QED
      BY <1>2, <1>3, <1>a, <2>1, <2>3, <3>1 DEF Fate, ComesIn, Rests
  <2> QED
    BY <1>4, <2>2, <2>3 DEF SubmitToTurn
<1>5. CASE SubmitToWaiter(s)
  <2>1. hand' = s /\ UNCHANGED <<pending, buffer, steer, outcome>> /\ loop = "parked"
    BY <1>5 DEF SubmitToWaiter, HandOut
  <2>2. hand = NoTask /\ t # NoTask
    BY <2>1, PlacesKnown DEF DeliveryInv, HandIsBusy, Turn, Capturing, Handling, Ending
  <2>3. Held' = Held
    BY <2>1 DEF Held
  <2> QED
    BY <1>2, <1>3, <1>a, <2>1, <2>2, <2>3 DEF Fate, ComesIn, Rests
<1>6. CASE SubmitToQueue(s)
  <2>1. pending' = Append(pending, s) /\ UNCHANGED <<hand, buffer, steer, outcome>>
    BY <1>6 DEF SubmitToQueue
  <2>2. Held' = Held \cup {s}
    BY <2>1, PlacesKnown, ElementsOfAppend DEF Held
  <2> QED
    BY <1>2, <1>3, <1>a, <2>1, <2>2 DEF Fate, ComesIn, Rests
<1>7. CASE SubmitTurnedAway(s)
  <2>1. UNCHANGED <<hand, pending, buffer, steer>> /\ Settle({s} \cap Waiting, "told")
    BY <1>7 DEF SubmitTurnedAway
  <2>2. Held' = Held
    BY <2>1 DEF Held
  <2>3. CASE t = s
    <3>1. outcome'[t] = <<"told">> \/ outcome'[t] = outcome[t]
      BY <1>2, <2>1, <2>3 DEF Settle
    <3>2. NowNowhere(t)
      BY <1>2, <2>1, <2>2, <2>3 DEF NowNowhere
    <3> QED
      BY <1>2, <2>1, <2>2, <2>3, <3>1, <3>2 DEF Fate, ComesIn
  <2>4. CASE t # s
    <3>1. outcome'[t] = outcome[t]
      BY <2>1, <2>4 DEF Settle
    <3> QED
      BY <1>3, <1>a, <2>1, <2>2, <2>4, <3>1 DEF Fate, Rests
  <2> QED
    BY <2>3, <2>4
<1> QED
  BY <1>4, <1>5, <1>6, <1>7 DEF Submit

(* No step but an end leaves an owner that is not up.                      *)
LEMMA OnlyEndsEnd ==
  ASSUME Next, ~Exit, ~FatalSignal, ~Crash
  PROVE  Up /\ Up'
<1> USE DEF Up, Ended, HandOut, custody, closing
<1>1. CASE TurnStep
  BY <1>1 DEF TurnStep, BeginTurn, TurnRefused, OpenMain, RegisterHandler, Answered,
     StopInjecting, CutInjected, InjectedCut, SpliceAbsorbed, WriteAbsorbed,
     ClaimMain, WriteMain, EndTurn
<1>2. CASE LoopStep \/ WaitTimesOut
  BY <1>2 DEF LoopStep, WaitTimesOut, TakeNext, Park, IdleDecision, Release,
     NoDeferredClose, RefuseDeferredClose, PerformDeferredClose, CloseRecorded, Resume, Close
<1>3. ASSUME NEW t \in Tasks, Submit(t) \/ SteerStep(t) PROVE Up /\ Up'
  BY <1>3 DEF Submit, SubmitToTurn, SubmitToWaiter, SubmitToQueue, SubmitTurnedAway,
     Accepts, SteerStep, SteerOpens, SteerAnswered, SteerWritten
<1>4. ASSUME NEW r \in Requests, NEW b \in BOOLEAN,
             RequestDrain(r, b) \/ DrainStep(r) \/ ScheduleClose(r, b)
      PROVE  Up /\ Up'
  BY <1>4 DEF RequestDrain, DrainStep, DrainPolls, DrainSettles, ScheduleClose, Check, Abort
<1>5. CASE TaskChanges
  BY <1>5 DEF TaskChanges
<1> QED
  BY <1>1, <1>2, <1>3, <1>4, <1>5 DEF Next

(* Every prompt has a fate in every step of an owner that goes on.         *)
LEMMA EveryStepHasFates ==
  ASSUME DeliveryInv, Next, ~Exit, ~FatalSignal, ~Crash
  PROVE  \A t \in Tasks : Fate(t)
<1> DEFINE Fates == \A t \in Tasks : Fate(t)
<1> SUFFICES Fates
  OBVIOUS
<1> HIDE DEF Fates
<1>f. (\A t \in Tasks : Fate(t)) => Fates
  BY DEF Fates
<1>a. /\ steer \in [Tasks -> Steers] /\ hand \in Tasks \cup {NoTask}
      /\ loop \in {"poll", "deciding", "parked"} => hand = NoTask
  BY PlacesKnown DEF DeliveryInv, HandIsBusy, Turn, Capturing, Handling, Ending
<1>b. /\ "told" \in D!NeverDelivered /\ "closed_undelivered" \in D!NeverDelivered
      /\ "shutdown" \in D!NeverDelivered
      /\ "refused" \in D!MayBeDelivered /\ "settled" \in D!MayBeDelivered
      /\ "unknown" \in D!MayBeDelivered
  BY DEF D!NeverDelivered, D!MayBeDelivered
<1>c. ASSUME UNCHANGED <<hand, pending, buffer, arrived, outcome, steer>> PROVE Fates
  <2>1. \A t \in Tasks : Passes(t)
    BY <1>c DEF Passes, Telling, Open
  <2> QED
    BY <1>c, <1>f, <2>1, AllRest
<1>d. ASSUME QuiesceAndEmpty, UNCHANGED <<hand, steer, arrived>> PROVE Fates
  BY <1>b, <1>d, <1>f, HeldTold DEF QuiesceAndEmpty
<1>1. CASE BeginTurn \/ OpenMain \/ Answered \/ StopInjecting \/ InjectedCut \/ ClaimMain
  BY <1>1, <1>c DEF BeginTurn, OpenMain, Answered, StopInjecting, InjectedCut, ClaimMain, custody
<1>2. CASE TurnRefused
  <2>1. \A t \in Tasks : Passes(t)
    BY <1>2 DEF TurnRefused, Passes, Telling, Open
  <2> QED
    BY <1>2, <1>b, <1>f, <2>1, MainDone DEF TurnRefused
<1>3. CASE RegisterHandler
  BY <1>3, <1>f, CapturedGoesOn
<1>4. ASSUME NEW s \in Tasks, CutInjected(s) PROVE Fates
  <2>1. /\ steer[s] \in {"opening", "sent", "answering"} /\ Settle({s}, "unknown")
        /\ UNCHANGED <<hand, pending, buffer, arrived>>
        /\ steer' = [steer EXCEPT ![s] = IF steer[s] \in {"answering", "both"} THEN "late" ELSE "over"]
    BY <1>4 DEF CutInjected, Unsettled
  <2> QED
    BY <1>b, <1>f, <2>1, SteerSettled
<1>5. CASE SpliceAbsorbed
  <2>1. \A t \in Tasks : Passes(t)
    BY <1>5, <1>a DEF SpliceAbsorbed, Listed, Passes, Telling, Open
  <2> QED
    BY <1>5, <1>f, <2>1, AllRest DEF SpliceAbsorbed
<1>6. ASSUME NEW s \in Tasks, WriteAbsorbed(s) PROVE Fates
  <2>1. /\ steer[s] \in {"spliced", "both"} /\ Settle({s}, "settled")
        /\ UNCHANGED <<hand, pending, buffer, arrived>>
        /\ steer' = [steer EXCEPT ![s] = IF steer[s] \in {"answering", "both"} THEN "late" ELSE "over"]
    BY <1>6, <1>a DEF WriteAbsorbed
  <2> QED
    BY <1>b, <1>f, <2>1, SteerSettled
<1>7. CASE WriteMain
  <2>1. \A t \in Tasks : Passes(t)
    BY <1>7, <1>a DEF WriteMain, Passes, Telling, Open
  <2> QED
    BY <1>7, <1>b, <1>f, <2>1, MainDone DEF WriteMain
<1>8. CASE TakeNext
  BY <1>8, <1>a, <1>f, OldestGoesOn DEF TakeNext, HandOut
<1>9. CASE Park \/ WaitTimesOut \/ IdleDecision \/ Release \/ NoDeferredClose
           \/ RefuseDeferredClose \/ CloseRecorded \/ Resume \/ TaskChanges
  BY <1>9, <1>c DEF Park, WaitTimesOut, IdleDecision, Release, NoDeferredClose,
     RefuseDeferredClose, CloseRecorded, Resume, TaskChanges, custody
<1>10. CASE PerformDeferredClose
  BY <1>10, <1>d DEF PerformDeferredClose
<1>11. CASE Close
  <2>1. buffer = <<>>
    BY <1>11 DEF Close, DeliveryInv, Emptied, Turn, Capturing, Handling, Ending
  <2>2. Held = Elements(pending)
    BY <2>1, PlacesKnown DEF Held
  <2>3. DrainOutcome(draining) \in D!NeverDelivered
    BY <1>b DEF DrainOutcome
  <2>4. /\ Settle(Held, DrainOutcome(draining)) /\ pending' = <<>> /\ buffer' = <<>>
        /\ UNCHANGED <<hand, steer, arrived>>
    BY <1>11, <2>1, <2>2 DEF Close
  <2> QED
    BY <1>f, <2>3, <2>4, HeldTold
<1>12. ASSUME NEW s \in Tasks, Submit(s) PROVE Fates
  BY <1>12, <1>f, ArrivalComesIn
<1>13. ASSUME NEW s \in Tasks, SteerStep(s) PROVE Fates
  <2>1. CASE SteerOpens(s)
    <3>1. \A t \in Tasks : Passes(t)
      BY <2>1, <1>a DEF SteerOpens, Passes, Telling, Open
    <3> QED
      BY <2>1, <1>f, <3>1, AllRest DEF SteerOpens
  <2>2. CASE SteerAnswered(s) \/ SteerWritten(s)
    BY <1>f, <2>2, SteerHeard
  <2> QED
    BY <1>13, <2>1, <2>2 DEF SteerStep
<1>14. ASSUME NEW r \in Requests, NEW b \in BOOLEAN,
              RequestDrain(r, b) \/ DrainStep(r) \/ ScheduleClose(r, b)
       PROVE  Fates
  <2>1. ASSUME Check(r), UNCHANGED <<steer, arrived>> PROVE Fates
    <3>1. CASE Abort /\ UNCHANGED <<buffer, outcome>>
      <4>1. CASE pending # <<>> /\ loop = "parked" /\ HandOut(Head(pending)) /\ pending' = Tail(pending)
        BY <1>a, <1>f, <2>1, <3>1, <4>1, OldestGoesOn DEF HandOut
      <4>2. CASE UNCHANGED <<loop, hand, pending>>
        BY <1>c, <2>1, <3>1, <4>2
      <4> QED
        BY <3>1, <4>1, <4>2 DEF Abort
    <3>2. CASE UNCHANGED <<hand, pending, buffer, outcome>>
      BY <1>c, <2>1, <3>2
    <3>3. CASE QuiesceAndEmpty /\ UNCHANGED hand
      BY <1>d, <2>1, <3>3
    <3> QED
      BY <2>1, <3>1, <3>2, <3>3 DEF Check
  <2>2. CASE RequestDrain(r, b)
    BY <1>c, <1>d, <2>1, <2>2 DEF RequestDrain, Quiesce
  <2>3. CASE DrainStep(r)
    BY <1>d, <2>1, <2>3 DEF DrainStep, DrainPolls, DrainSettles
  <2>4. CASE ScheduleClose(r, b)
    BY <1>c, <2>4 DEF ScheduleClose, custody
  <2> QED
    BY <1>14, <2>2, <2>3, <2>4
<1> QED
  BY <1>1, <1>2, <1>3, <1>4, <1>5, <1>6, <1>7, <1>8, <1>9, <1>10, <1>11, <1>12, <1>13, <1>14
     DEF Next, TurnStep, LoopStep

(* What the end of a process leaves of a prompt, as Delivery sees it.      *)
LEMMA EndLeaves ==
  ASSUME DeliveryInv, NEW how \in Ended, ProcessEnds(how), NEW t \in Tasks
  PROVE  /\ t > arrived => Where(t) = "unsent" /\ Where(t)' = "unsent"
         /\ t <= arrived => Where(t)' = IF outcome'[t] = <<>> THEN "dropped" ELSE "settled"
         /\ t \in Held => Where(t) = "queued"
         /\ t = hand => Where(t) = "turn"
         /\ Telling(t) => Where(t) = "answering"
         /\ t <= arrived /\ t \notin Held \cup {hand} /\ ~Telling(t) =>
              IF outcome[t] # <<>> THEN Where(t) = "settled"
              ELSE Where(t) = IF t \in Steered THEN "steered" ELSE "dropped"
<1>1. Held' = {} /\ hand' = NoTask /\ arrived' = arrived
  BY PlacesKnown DEF ProcessEnds, Held
<1>2. steer'[t] \in {"no", "over"} /\ t \notin Steered'
  BY PlacesKnown DEF ProcessEnds, Steered
<1>3. /\ t # NoTask /\ (t <= arrived <=> ~(t > arrived))
      /\ t \in Held \cup {hand} => steer[t] = "no" /\ outcome[t] = <<>> /\ t <= arrived
      /\ steer[t] # "no" => t <= arrived
      /\ t \in Held => t # hand
  BY PlacesKnown
<1>4. /\ t > arrived => Where(t) = "unsent" /\ Where(t)' = "unsent"
      /\ t <= arrived => Where(t)' = IF outcome'[t] = <<>> THEN "dropped" ELSE "settled"
  BY <1>1, <1>2, <1>3 DEF Where
<1>5. /\ t \in Held => Where(t) = "queued"
      /\ t = hand => Where(t) = "turn"
      /\ Telling(t) => Where(t) = "answering"
  BY <1>3 DEF Where, Telling
<1>6. t <= arrived /\ t \notin Held \cup {hand} /\ ~Telling(t) =>
        IF outcome[t] # <<>> THEN Where(t) = "settled"
        ELSE Where(t) = IF t \in Steered THEN "steered" ELSE "dropped"
  BY <1>3 DEF Where, Telling
<1> QED
  BY <1>4, <1>5, <1>6

(* A prompt that was not told of before the end is not told of after it.   *)
LEMMA EndIsUntold ==
  ASSUME DeliveryInv, NEW how \in Ended, ProcessEnds(how),
         \A t \in Tasks : t > arrived => outcome'[t] = <<>>
  PROVE  Untold'
<1>1. Held' = {} /\ hand' = NoTask /\ arrived' = arrived
  BY PlacesKnown DEF ProcessEnds, Held
<1>2. \A t \in Tasks : ~Open(t)'
  BY DEF ProcessEnds, Open
<1> QED
  BY <1>1, <1>2, PlacesKnown DEF Untold

(* An end that writes nothing: what was told stays told, the rest is lost. *)
LEMMA EndUnwritten ==
  ASSUME DeliveryInv, NEW how \in Ended, ProcessEnds(how), UNCHANGED outcome
  PROVE  /\ \A t \in Tasks :
              /\ outcome'[t] = outcome[t]
              /\ \/ Where(t)' = Where(t)
                 \/ /\ Where(t) \in {"queued", "turn", "steered", "answering"}
                    /\ Where(t)' = IF outcome[t] = <<>> THEN "dropped" ELSE "settled"
              /\ t \notin Held \cup {hand} => Where(t) \notin {"queued", "turn"}
         /\ Untold'
<1>1. ASSUME NEW t \in Tasks
      PROVE  /\ outcome'[t] = outcome[t]
             /\ \/ Where(t)' = Where(t)
                \/ /\ Where(t) \in {"queued", "turn", "steered", "answering"}
                   /\ Where(t)' = IF outcome[t] = <<>> THEN "dropped" ELSE "settled"
             /\ t \notin Held \cup {hand} => Where(t) \notin {"queued", "turn"}
  <2>1. CASE t > arrived
    BY <2>1, EndLeaves, PlacesKnown DEF Custody
  <2>2. CASE t <= arrived
    BY <2>2, EndLeaves
  <2> QED
    BY <2>1, <2>2, PlacesKnown
<1>2. Untold'
  BY EndIsUntold, PlacesKnown
<1> QED
  BY <1>1, <1>2

(* The owner that exits has nothing in its queue and no turn.              *)
LEMMA ExitLeaves ==
  ASSUME DeliveryInv, Exit
  PROVE  D!Leave /\ Untold'
<1>1. /\ loop = "closing" /\ ProcessEnds("exited") /\ UNCHANGED outcome /\ "exited" \in Ended
      /\ loop' = "exited"
  BY DEF Exit, Ended, ProcessEnds
<1>2. Held = {} /\ hand = NoTask
  <2>1. pending = <<>> /\ buffer = <<>> /\ hand = NoTask
    BY <1>1 DEF DeliveryInv, Emptied, HandIsBusy, Turn, Capturing, Handling, Ending
  <2> QED
    BY <2>1, PlacesKnown DEF Held
<1>3. \A t \in Tasks : t \notin Held \cup {hand}
  BY <1>2, PlacesKnown
<1>4. Up /\ ~Up'
  BY <1>1 DEF Up, Ended
<1>5. D!Leave
  BY <1>1, <1>3, <1>4, EndUnwritten DEF D!Leave, D!Stays, D!Lost
<1> QED
  BY <1>1, <1>5, EndUnwritten

(* A crash settles nothing, and loses what was in memory only.             *)
LEMMA CrashDrops ==
  ASSUME DeliveryInv, Crash
  PROVE  D!Crash /\ Untold'
<1>1. /\ Up /\ ProcessEnds("crashed") /\ UNCHANGED outcome /\ "crashed" \in Ended
      /\ loop' = "crashed"
  BY DEF Crash, Ended, ProcessEnds
<1>2. ~Up'
  BY <1>1 DEF Up
<1>3. D!Crash
  BY <1>1, <1>2, EndUnwritten DEF D!Crash, D!Stays, D!Lost
<1> QED
  BY <1>1, <1>3, EndUnwritten

(* Two outcomes in a row are a pair of outcomes.                           *)
LEMMA TwoTold == \A v, w : <<>> \o <<v>> \o <<w>> = <<v, w>> /\ <<v, w>> # <<>>
<1> TAKE v, w
<1> DEFINE S == {v, w}
           both == <<v>> \o <<w>>
           pair == <<v, w>>
<1>1. <<v>> \in Seq(S) /\ <<w>> \in Seq(S) /\ pair \in Seq(S) /\ both \in Seq(S)
  OBVIOUS
<1>2. Len(both) = Len(pair) /\ \A i \in 1..Len(both) : both[i] = pair[i]
  BY <1>1
<1>3. <<>> \o <<v>> = <<v>> /\ pair # <<>>
  OBVIOUS
<1> HIDE DEF S, both, pair
<1>4. both = pair
  BY <1>1, <1>2, SeqEqual
<1> QED
  BY <1>3, <1>4 DEF both, pair

(* A signal settles all that is held; what is with the agent may be lost.  *)
LEMMA SignalStops ==
  ASSUME DeliveryInv, FatalSignal
  PROVE  D!Stop /\ Untold'
<1>1. /\ Up /\ ProcessEnds("stopped") /\ "stopped" \in Ended /\ loop' = "stopped"
  BY DEF FatalSignal, Ended, ProcessEnds
<1>2. PICK landing \in SUBSET {t \in Tasks : WriteInFlight(t)} :
        outcome' = [t \in Tasks |->
          outcome[t]
            \o (IF t \in landing THEN <<"settled">> ELSE <<>>)
            \o (IF outcome[t] # <<>> THEN <<>>
                ELSE IF t \in Held THEN <<DrainOutcome(draining)>>
                ELSE IF Listed(t) THEN <<IF draining THEN "at_close" ELSE "unknown">>
                ELSE IF t = hand /\ MainOpen /\ draining THEN <<"at_close">>
                ELSE <<>>)]
  BY DEF FatalSignal
<1>a. /\ \A v : <<>> \o <<v>> \o <<>> = <<v>> /\ <<>> \o <<>> \o <<v>> = <<v>> /\ <<v>> # <<>>
      /\ <<>> \o <<>> \o <<>> = <<>>
      /\ \A s \in Seq(Outcomes) : s \o <<>> \o <<>> = s
  OBVIOUS
<1>b. /\ DrainOutcome(draining) \in D!NeverDelivered
      /\ \A v \in {"settled", "at_close", "unknown"} : v \in D!MayBeDelivered
  BY DEF DrainOutcome, D!NeverDelivered, D!MayBeDelivered
<1>3. ASSUME NEW t \in Tasks
      PROVE  \/ /\ Where(t) = "queued" /\ Where(t)' = "settled"
                /\ \E v \in D!NeverDelivered : outcome'[t] = <<v>>
             \/ /\ Where(t) \in {"turn", "steered"} /\ Where(t)' = "settled"
                /\ \E v \in D!MayBeDelivered : outcome'[t] = <<v>>
             \/ /\ Where(t) = "answering" /\ Where(t)' = "settled"
                /\ \E v \in D!MayBeDelivered : outcome'[t] = Append(outcome[t], v)
             \/ /\ Where(t) = "answering" /\ Where(t)' = "settled" /\ outcome[t] = <<>>
                /\ \E v, w \in D!MayBeDelivered : outcome'[t] = <<v, w>>
             \/ Where(t) # "queued" /\ Where(t)' = Where(t) /\ outcome'[t] = outcome[t]
             \/ /\ Where(t) \in {"turn", "steered", "answering"} /\ outcome'[t] = outcome[t]
                /\ Where(t)' = IF outcome[t] = <<>> THEN "dropped" ELSE "settled"
  <2> DEFINE landed == IF t \in landing THEN <<"settled">> ELSE <<>>
             swept == IF outcome[t] # <<>> THEN <<>>
                      ELSE IF t \in Held THEN <<DrainOutcome(draining)>>
                      ELSE IF Listed(t) THEN <<IF draining THEN "at_close" ELSE "unknown">>
                      ELSE IF t = hand /\ MainOpen /\ draining THEN <<"at_close">>
                      ELSE <<>>
  <2>0. /\ t \in Held \cup {hand} => steer[t] = "no" /\ outcome[t] = <<>> /\ t <= arrived
        /\ steer[t] # "no" => t <= arrived /\ t \notin Held \cup {hand}
        /\ Open(t) => outcome[t] = <<>>
        /\ t > arrived => outcome[t] = <<>> /\ steer[t] = "no" /\ t \notin Held \cup {hand}
        /\ t \in Held => t # hand
        /\ ~(t > arrived) <=> t <= arrived
        /\ outcome[t] \in Seq(Outcomes)
        /\ t \in Steered <=> steer[t] \notin {"no", "over"}
    BY PlacesKnown DEF Custody, Steered
  <2>a. outcome'[t] = outcome[t] \o landed \o swept
    BY <1>2
  <2>b. /\ landed = <<>> \/ (landed = <<"settled">> /\ WriteInFlight(t))
        /\ swept = <<>> \/ (outcome[t] = <<>> /\ \E w \in {"at_close", "unknown"} : swept = <<w>>)
           \/ (t \in Held /\ swept = <<DrainOutcome(draining)>>)
    OBVIOUS
  <2>c. /\ t \in Held => swept = <<DrainOutcome(draining)>>
        /\ t \notin Held /\ t # hand /\ ~Listed(t) => swept = <<>>
        /\ t = hand /\ ~MainOpen => swept = <<>>
    BY <2>0 DEF Listed
  <2> HIDE DEF landed, swept
  <2>1. CASE t \in Held
    <3>1. landed = <<>> /\ outcome[t] = <<>> /\ t <= arrived
      BY <2>0, <2>1, <2>b DEF WriteInFlight
    <3>2. outcome'[t] = <<>> \o <<>> \o <<DrainOutcome(draining)>>
      BY <2>1, <2>a, <2>c, <3>1
    <3>3. outcome'[t] = <<DrainOutcome(draining)>>
      BY <1>a, <3>2
    <3> QED
      BY <1>1, <1>a, <1>b, <2>1, <3>1, <3>3, EndLeaves
  <2>2. CASE t = hand
    <3>1. outcome[t] = <<>> /\ t <= arrived /\ t \notin Held
      BY <2>0, <2>2
    <3>2. landed = <<>> \/ swept = <<>>
      BY <2>0, <2>2, <2>b, <2>c DEF WriteInFlight, MainOpen
    <3>3. outcome'[t] = <<>> \/ \E v \in D!MayBeDelivered : outcome'[t] = <<v>>
      BY <1>a, <1>b, <2>a, <2>b, <3>1, <3>2
    <3> QED
      BY <1>1, <1>a, <2>2, <3>1, <3>3, EndLeaves
  <2>3. CASE Telling(t)
    <3>1. t \notin Held /\ t # hand /\ t <= arrived
      BY <2>0, <2>3 DEF Telling
    <3>2. CASE outcome[t] # <<>> \/ swept = <<>>
      <4>1. swept = <<>>
        BY <2>b, <3>1, <3>2
      <4>2. CASE landed = <<>>
        <5>1. outcome'[t] = outcome[t]
          BY <1>a, <2>0, <2>a, <4>1, <4>2
        <5> QED
          BY <1>1, <2>3, <3>1, <5>1, EndLeaves
      <4>3. CASE landed = <<"settled">>
        <5>1. outcome'[t] = Append(outcome[t], "settled") /\ outcome'[t] # <<>>
          BY <2>0, <2>a, <4>1, <4>3
        <5> QED
          BY <1>1, <1>b, <2>3, <3>1, <5>1, EndLeaves
      <4> QED
        BY <2>b, <4>2, <4>3
    <3>3. CASE outcome[t] = <<>> /\ swept # <<>>
      <4>1. PICK w \in {"at_close", "unknown"} : swept = <<w>>
        BY <2>b, <3>1, <3>3
      <4>2. CASE landed = <<>>
        <5>1. outcome'[t] = <<w>> /\ <<w>> = Append(outcome[t], w)
          BY <1>a, <2>a, <3>3, <4>1, <4>2
        <5> QED
          BY <1>1, <1>a, <1>b, <2>3, <3>1, <5>1, EndLeaves
      <4>3. CASE landed = <<"settled">>
        <5>1. outcome'[t] = <<>> \o <<"settled">> \o <<w>>
          BY <2>a, <3>3, <4>1, <4>3
        <5>2. outcome'[t] = <<"settled", w>> /\ outcome'[t] # <<>>
          BY <5>1, TwoTold
        <5> QED
          BY <1>1, <1>b, <2>3, <3>1, <3>3, <5>2, EndLeaves
      <4> QED
        BY <2>b, <4>2, <4>3
    <3> QED
      BY <3>2, <3>3
  <2>4. CASE t \notin Held /\ t # hand /\ ~Telling(t)
    <3>1. landed = <<>>
      BY <2>4, <2>b DEF WriteInFlight, Telling
    <3>2. CASE swept = <<>>
      <4>1. outcome'[t] = outcome[t]
        BY <1>a, <2>0, <2>a, <3>1, <3>2
      <4> QED
        BY <1>1, <2>0, <2>4, <4>1, EndLeaves
    <3>3. CASE swept # <<>>
      <4>1. Listed(t)
        BY <2>4, <2>c, <3>3
      <4>2. steer[t] = "absorbed" /\ t \in Steered /\ t <= arrived /\ outcome[t] = <<>>
        BY <2>0, <2>4, <4>1 DEF Listed, Telling, Open
      <4>3. PICK w \in {"at_close", "unknown"} : swept = <<w>>
        BY <2>4, <2>b, <3>3
      <4>4. outcome'[t] = <<w>>
        BY <1>a, <2>a, <3>1, <4>2, <4>3
      <4> QED
        BY <1>1, <1>a, <1>b, <2>4, <4>2, <4>4, EndLeaves
    <3> QED
      BY <3>2, <3>3
  <2> QED
    BY <2>1, <2>2, <2>3, <2>4
<1>4. ~Up'
  BY <1>1 DEF Up
<1>5. D!Stop
  BY <1>1, <1>3, <1>4 DEF D!Stop, D!Settled, D!Settles, D!Lands, D!LandsBeside, D!Stays, D!Lost
<1>6. \A t \in Tasks : t > arrived => outcome'[t] = <<>>
  BY <1>1, <1>3, EndLeaves, PlacesKnown
<1> QED
  BY <1>1, <1>5, <1>6, EndIsUntold

-----------------------------------------------------------------------------
(* Every prompt an owner accepts has what Delivery promises, for any       *)
(* number of prompts and closes, any queue and any agent, one that answers *)
(* the prompts it absorbs included.                                        *)
THEOREM DeliveriesAreKept == Spec => Deliveries
<1>1. TypeOK /\ Init => DeliveryInv /\ D!Init
  <2> SUFFICES ASSUME TypeOK, Init PROVE DeliveryInv /\ D!Init
    OBVIOUS
  <2>2. Held = {} /\ Steered = {}
    BY DEF Init, Held, Elements, Steered
  <2>3. Ordered /\ HandIsBusy /\ Apart /\ Untold /\ Emptied
    BY <2>2 DEF Init, Ordered, HandIsBusy, Apart, Untold, Open, Emptied, InArrivalOrder, Elements,
       NoTask, Ended
  <2>4. \A t \in Tasks : Where(t) = "unsent"
    BY OwnerAssumption DEF Init, Where, Tasks
  <2> QED
    BY <2>3, <2>4 DEF DeliveryInv, D!Init, Init, Up, Ended
<1>2. TypeOK' /\ DeliveryInv /\ [Next]_vars
        => DeliveryInv' /\ [D!Next]_<<[t \in Tasks |-> Where(t)], outcome, IF Up THEN "up" ELSE loop>>
  <2> SUFFICES ASSUME TypeOK', DeliveryInv, [Next]_vars
               PROVE  /\ DeliveryInv'
                      /\ [D!Next]_<<[t \in Tasks |-> Where(t)], outcome, IF Up THEN "up" ELSE loop>>
    OBVIOUS
  <2>1. Ordered' /\ HandIsBusy' /\ Apart' /\ Emptied'
    BY EveryStepMovesQueue, EveryStepMovesSteers, OrderedKept, HandIsBusyKept, ApartKept,
       EmptiedKept
       DEF DeliveryInv
  <2>2. CASE UNCHANGED vars
    BY <2>1, <2>2 DEF DeliveryInv, vars, Untold, Open, Held, Steered, Where, Up
  <2>3. CASE Exit
    BY <2>1, <2>3, ExitLeaves DEF DeliveryInv, D!Next
  <2>4. CASE FatalSignal
    BY <2>1, <2>4, SignalStops DEF DeliveryInv, D!Next
  <2>5. CASE Crash
    BY <2>1, <2>5, CrashDrops DEF DeliveryInv, D!Next
  <2>6. CASE Next /\ ~Exit /\ ~FatalSignal /\ ~Crash
    <3>1. Up /\ Up' /\ \A t \in Tasks : Fate(t)
      BY <2>6, OnlyEndsEnd, EveryStepHasFates
    <3>2. D!Serve /\ Untold'
      BY <3>1, FateServes
    <3> QED
      BY <2>1, <3>2 DEF DeliveryInv, D!Next
  <2> QED
    BY <2>2, <2>3, <2>4, <2>5, <2>6
<1> QED
  BY <1>1, <1>2, TypeCorrect, PTL DEF Spec, Deliveries, D!Spec

=============================================================================
