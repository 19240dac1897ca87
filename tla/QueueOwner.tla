----------------------------- MODULE QueueOwner -----------------------------
(***************************************************************************)
(* One queue owner of a session: its IPC server's queue (SessionQueueOwner *)
(* in cli/queue/ipc-server.ts) and the loop that runs its turns            *)
(* (runSessionQueueOwner in cli/session/queue-owner-runtime.ts), with the  *)
(* closes, drains and signals that arrive while a turn is in flight.       *)
(*                                                                         *)
(* One action is one stretch of code without an await.  A prompt refused   *)
(* before its `accepted` frame leaves the owner as it was and is not an    *)
(* action.  A prompt is named by its place in the order of arrival, which  *)
(* is all that is used of enqueuedAt; a timer may fire any time.           *)
(***************************************************************************)
EXTENDS Naturals, Sequences

CONSTANTS
  MaxTasks,       \* bound: the prompts submitted to this owner
  Waiting,        \* those whose sender waits for completion
  MaxRequests,    \* bound: the close requests it gets, of any kind
  Backends,       \* the kinds of agent this owner may have
  MaxDepth        \* maxQueueDepth

Tasks == 1..MaxTasks
NoTask == 0
Requests == 1..MaxRequests

(* Whether an agent takes prompts during a turn, and whether the turn then *)
(* waits for the answer to each ("answering") or not ("absorbing").        *)
BackendKinds == {"answering", "absorbing", "sequential"}

ASSUME OwnerAssumption ==
  /\ MaxTasks \in Nat
  /\ Waiting \subseteq Tasks
  /\ MaxRequests \in Nat
  /\ Backends \subseteq BackendKinds
  /\ MaxDepth \in Nat \ {0}

VARIABLES
  backend,      \* the kind of agent
  loop,         \* the next step of the runtime loop
  hand,         \* the prompt the loop runs
  pending,      \* the queue
  buffer,       \* midTurnBuffer: prompts captured before the turn can take them
  steer,        \* the prompts injected into a turn, and how far each is
  arrived,      \* the last prompt accepted
  outcome,      \* the outcomes written or sent for each prompt, in order
  draining,     \* the owner is on its way out for a session close
  closePending, \* the reversible phase of a close that checks for tasks
  deferred,     \* the close recorded for the end of the turn
  drain,        \* each request
  live          \* a background task of the session runs

vars == <<backend, loop, hand, pending, buffer, steer, arrived, outcome,
          draining, closePending, deferred, drain, live>>

custody == <<pending, buffer, steer, arrived, outcome>>
closing == <<draining, closePending, deferred, drain>>

(* runPromptTurn is entered: hasActiveTurn.                                *)
Capturing == {"starting", "opening"}
Handling == {"prompting", "answered"}
Ending == {"cutting", "settling", "splicing", "writing"}
Turn == Capturing \cup Handling \cup Ending
Between == {"poll", "parked", "idle", "deciding", "boundary", "resting"}
Ended == {"exited", "stopped", "crashed"}
Loops == Turn \cup Between \cup {"hand", "recording", "leaving", "closing"} \cup Ended

(* An injected prompt on its way out, sent, listed with its turn, or no    *)
(* longer ("stray"), with its own answer being written ("answering", and   *)
(* "late" off the list), taken by the end of the turn, or both.            *)
Steers == {"no", "opening", "straying", "sent", "absorbed", "stray", "answering",
           "late", "spliced", "both", "over"}
Outcomes == {"told", "closed_undelivered", "shutdown", "refused", "settled",
             "at_close", "unknown"}

ControlTypeOK ==
  /\ backend \in BackendKinds
  /\ loop \in Loops
  /\ draining \in BOOLEAN
  /\ closePending \in BOOLEAN
  /\ deferred \in {"none", "gentle", "force"}
  /\ drain \in [Requests -> {"idle", "checking", "settling", "done"}]
  /\ live \in BOOLEAN

CustodyTypeOK ==
  /\ hand \in Tasks \cup {NoTask}
  /\ pending \in Seq(Tasks)
  /\ buffer \in Seq(Tasks)
  /\ steer \in [Tasks -> Steers]
  /\ arrived \in 0..MaxTasks
  /\ outcome \in [Tasks -> Seq(Outcomes)]

(* Every variable has its type. *)
TypeOK == ControlTypeOK /\ CustodyTypeOK

Init ==
  /\ backend \in Backends
  /\ loop = "poll"
  /\ hand = NoTask
  /\ pending = <<>>
  /\ buffer = <<>>
  /\ steer = [t \in Tasks |-> "no"]
  /\ arrived = 0
  /\ outcome = [t \in Tasks |-> <<>>]
  /\ draining = FALSE
  /\ closePending = FALSE
  /\ deferred = "none"
  /\ drain = [r \in Requests |-> "idle"]
  /\ live = FALSE

-----------------------------------------------------------------------------
Up == loop \notin Ended
Closed == loop = "closing"
ActiveTurn == loop \in Turn

Elements(s) == {s[i] : i \in DOMAIN s}
InArrivalOrder(s) == \A i, j \in DOMAIN s : i < j => s[i] < s[j]

(* One more outcome for each prompt of ts that has none: the flag of the   *)
(* task or of its delivery is tested and set in the same step.             *)
Settle(ts, value) ==
  outcome' = [t \in Tasks |->
                IF t \in ts /\ outcome[t] = <<>> THEN <<value>> ELSE outcome[t]]

HandOut(t) == hand' = t /\ loop' = "hand"

(* terminalizeCustody of everything held: the cause is a session close     *)
(* once a drain has begun.                                                 *)
Held == Elements(pending) \cup Elements(buffer)
DrainOutcome(close) == IF close THEN "closed_undelivered" ELSE "shutdown"

(* The registered list of absorbed deliveries still holds t.               *)
Listed(t) == backend = "absorbing" /\ steer[t] \in {"absorbed", "answering"}

(* An asynchronous append of the outcome of t has begun.                   *)
WriteInFlight(t) ==
  \/ steer[t] \in {"answering", "late", "both"}
  \/ t = hand /\ loop = "writing"

-----------------------------------------------------------------------------
(* A prompt arrives: enqueuePromptRequest and enqueue *)

Accepts(t) ==
  /\ Up /\ t = arrived + 1
  /\ ~draining /\ ~closePending
  /\ arrived' = t
  /\ UNCHANGED <<backend, live, draining, closePending, deferred, drain>>

(* injectMidTurn: the turn takes it, unless a deferred close waits.        *)
Injectable == backend # "sequential" /\ deferred = "none" /\ loop \in Turn

SubmitToTurn(t) ==
  /\ Accepts(t)
  /\ Injectable
  /\ IF loop \in Handling
     THEN steer' = [steer EXCEPT ![t] = "opening"] /\ UNCHANGED buffer
     ELSE buffer' = Append(buffer, t) /\ UNCHANGED steer
  /\ UNCHANGED <<loop, hand, pending, outcome>>

SubmitToWaiter(t) ==
  /\ Accepts(t)
  /\ loop = "parked"
  /\ HandOut(t)
  /\ UNCHANGED <<pending, buffer, steer, outcome>>

SubmitToQueue(t) ==
  /\ Accepts(t)
  /\ ~Injectable /\ ~Closed /\ loop # "parked"
  /\ Len(pending) < MaxDepth
  /\ pending' = Append(pending, t)
  /\ UNCHANGED <<loop, hand, buffer, steer, outcome>>

(* Overloaded, or closed under a connection opened before: an error for a  *)
(* sender that waits, nothing for one that does not.                       *)
SubmitTurnedAway(t) ==
  /\ Accepts(t)
  /\ Closed \/ (~Injectable /\ loop # "parked" /\ Len(pending) >= MaxDepth)
  /\ Settle({t} \cap Waiting, "told")
  /\ UNCHANGED <<loop, hand, pending, buffer, steer>>

Submit(t) ==
  \/ SubmitToTurn(t) \/ SubmitToWaiter(t) \/ SubmitToQueue(t) \/ SubmitTurnedAway(t)

-----------------------------------------------------------------------------
(* The loop between turns: nextTask and the idle release *)

TakeNext ==
  /\ loop \in {"poll", "deciding"}
  /\ deferred = "none" /\ ~draining /\ ~closePending /\ pending # <<>>
  /\ HandOut(Head(pending))
  /\ pending' = Tail(pending)
  /\ UNCHANGED <<backend, buffer, steer, arrived, outcome, closing, live>>

(* Nothing to hand out: the loop waits, or sees that a close is recorded.  *)
Park ==
  /\ loop = "poll"
  /\ deferred # "none" \/ draining \/ closePending \/ pending = <<>>
  /\ loop' = IF deferred # "none" THEN "idle" ELSE "parked"
  /\ UNCHANGED <<backend, hand, custody, closing, live>>

(* The wait times out; with a time to live of 0 it never does.             *)
WaitTimesOut ==
  /\ loop = "parked"
  /\ loop' = "idle"
  /\ UNCHANGED <<backend, hand, custody, closing, live>>

(* decideIdleOwnerRelease: clocks, files and tasks are left to choice; a   *)
(* pending close keeps the owner.                                          *)
IdleDecision ==
  /\ loop = "idle" /\ deferred = "none"
  /\ loop' \in IF closePending THEN {"poll"} ELSE {"poll", "deciding"}
  /\ UNCHANGED <<backend, hand, custody, closing, live>>

(* The last look into the queue finds nothing.                             *)
Release ==
  /\ loop = "deciding"
  /\ deferred # "none" \/ draining \/ closePending \/ pending = <<>>
  /\ loop' = "leaving"
  /\ UNCHANGED <<backend, hand, custody, closing, live>>

-----------------------------------------------------------------------------
(* A turn: runQueuedTask, as far as the owner's custody depends on it *)

(* The idle stream drain has stopped; the prompt was in hand meanwhile.    *)
BeginTurn ==
  /\ loop = "hand"
  /\ loop' = "starting"
  /\ UNCHANGED <<backend, hand, custody, closing, live>>

(* What was captured and never injected goes back to the queue by arrival. *)
Requeued ==
  {q \in [1..Len(buffer \o pending) -> Elements(buffer \o pending)] :
     Elements(q) = Elements(buffer \o pending) /\ InArrivalOrder(q)}

(* Mutated form: the captured prompts go behind the queue. *)
EndTurnAtBack ==
  /\ loop' = "boundary"
  /\ hand' = NoTask
  /\ buffer' = <<>>
  /\ pending' = pending \o buffer

(* Mutated form: they are still captured when they are back in the queue. *)
EndTurnKeepsBuffer ==
  /\ loop' = "boundary"
  /\ hand' = NoTask
  /\ UNCHANGED buffer
  /\ pending' \in Requeued

(* The end of runPromptTurn and its finally.                               *)
EndTurn ==
  /\ loop' = "boundary"
  /\ hand' = NoTask
  /\ buffer' = <<>>
  /\ pending' \in Requeued

(* The turn is refused or fails before it opens: one terminal.             *)
TurnRefused ==
  /\ loop = "starting"
  /\ Settle({hand}, "refused")
  /\ EndTurn
  /\ UNCHANGED <<backend, steer, arrived, closing, live>>

(* The `accepted` event: from here a session close settles the delivery.   *)
OpenMain ==
  /\ loop = "starting"
  /\ loop' = "opening"
  /\ UNCHANGED <<backend, hand, custody, closing, live>>

(* The prompt is in flight: the handler takes what was captured.           *)
RegisterHandler ==
  /\ loop = "opening"
  /\ loop' = "prompting"
  /\ IF backend = "sequential" THEN UNCHANGED <<steer, buffer>>
     ELSE /\ steer' = [t \in Tasks |-> IF t \in Elements(buffer) THEN "opening" ELSE steer[t]]
          /\ buffer' = <<>>
  /\ UNCHANGED <<backend, hand, pending, arrived, outcome, closing, live>>

(* An answer, a failure, a cancel or the watchdog's verdict.               *)
Answered ==
  /\ loop = "prompting"
  /\ loop' = "answered"
  /\ UNCHANGED <<backend, hand, custody, closing, live>>

Unsettled == {t \in Tasks : steer[t] \in {"opening", "sent", "answering"}}

(* drainInjectedPrompts: every awaited injection has settled, or its agent *)
(* has been silent for the whole window; an answer restarts the window.    *)
StopInjecting ==
  /\ loop = "answered"
  /\ \/ /\ backend # "answering" \/ Unsettled = {}
        /\ loop' = "settling"
     \/ /\ backend = "answering" /\ Unsettled # {}
        /\ \A t \in Unsettled : steer[t] # "answering"
        /\ loop' = "cutting"
  /\ UNCHANGED <<backend, hand, custody, closing, live>>

(* After a silence each injection that has not settled gets an outcome, one*)
(* awaited write after the other, while answers may still arrive.          *)
CutInjected(t) ==
  /\ loop = "cutting"
  /\ t \in Unsettled
  /\ Settle({t}, "unknown")
  /\ steer' = [steer EXCEPT ![t] = IF steer[t] = "answering" THEN "late" ELSE "over"]
  /\ UNCHANGED <<backend, loop, hand, pending, buffer, arrived, closing, live>>

InjectedCut ==
  /\ loop = "cutting"
  /\ Unsettled = {}
  /\ loop' = "settling"
  /\ UNCHANGED <<backend, hand, custody, closing, live>>

(* completeAbsorbedInjectedDeliveries: the list is emptied, then each      *)
(* entry without a terminal gets one.                                      *)
SpliceAbsorbed ==
  /\ loop = "settling"
  /\ loop' = "splicing"
  /\ steer' = [t \in Tasks |-> IF ~Listed(t) THEN steer[t]
                              ELSE IF steer[t] = "absorbed" THEN "spliced" ELSE "both"]
  /\ UNCHANGED <<backend, hand, pending, buffer, arrived, outcome, closing, live>>

WriteAbsorbed(t) ==
  /\ loop = "splicing"
  /\ steer[t] \in {"spliced", "both"}
  /\ Settle({t}, "settled")
  /\ steer' = [steer EXCEPT ![t] = IF @ = "both" THEN "late" ELSE "over"]
  /\ UNCHANGED <<backend, loop, hand, pending, buffer, arrived, closing, live>>

(* appendDeliveryTerminal: the claim, then the write.                      *)
ClaimMain ==
  /\ loop = "splicing"
  /\ \A t \in Tasks : steer[t] \notin {"spliced", "both"}
  /\ loop' = "writing"
  /\ UNCHANGED <<backend, hand, custody, closing, live>>

(* Mutated form: the agent's stop reason is written as it came. *)
WriteMainAsReported ==
  /\ loop = "writing"
  /\ Settle({hand}, "end_turn")
  /\ EndTurn
  /\ UNCHANGED <<backend, steer, arrived, closing, live>>

(* The terminal lands, the turn's lists are unregistered, the turn ends.   *)
WriteMain ==
  /\ loop = "writing"
  /\ Settle({hand}, "settled")
  /\ EndTurn
  /\ steer' = [t \in Tasks |-> CASE steer[t] = "opening" -> "straying"
                                [] steer[t] = "absorbed" -> "stray"
                                [] steer[t] = "answering" -> "late"
                                [] OTHER -> steer[t]]
  /\ UNCHANGED <<backend, arrived, closing, live>>

(* runInjectedPromptTask: recorded and accepted, the prompt goes out; an   *)
(* absorbing agent's is listed with the turn it joined.                    *)
SteerOpens(t) ==
  /\ Up /\ steer[t] \in {"opening", "straying"}
  /\ steer' = [steer EXCEPT ![t] = IF backend = "answering" THEN "sent"
                                  ELSE IF @ = "opening" THEN "absorbed" ELSE "stray"]
  /\ UNCHANGED <<backend, loop, hand, pending, buffer, arrived, outcome, closing, live>>

(* Its own answer or rejection arrives, and its terminal is being written: *)
(* that nothing was written before is checked here, while the end of the   *)
(* turn may be about to write.  Of two writes under way the turn's lands   *)
(* first.  An absorbing agent need not answer.                             *)
SteerAnswered(t) ==
  /\ Up /\ outcome[t] = <<>>
  /\ steer[t] \in {"sent", "absorbed", "stray", "spliced"}
  /\ steer' = [steer EXCEPT ![t] = CASE steer[t] = "stray" -> "late"
                                     [] steer[t] = "spliced" -> "both"
                                     [] OTHER -> "answering"]
  /\ UNCHANGED <<backend, loop, hand, pending, buffer, arrived, outcome, closing, live>>

(* The write lands, whatever was written since its check; the flag is set. *)
SteerWritten(t) ==
  /\ Up /\ steer[t] \in {"answering", "late", "both"}
  /\ steer' = [steer EXCEPT ![t] = IF @ = "both" THEN "spliced" ELSE "over"]
  /\ outcome' = [outcome EXCEPT ![t] = Append(@, "settled")]
  /\ UNCHANGED <<backend, loop, hand, pending, buffer, arrived, closing, live>>

-----------------------------------------------------------------------------
(* Closes: drainDeliveries, scheduleClose, performDeferredClose *)

NextRequest(r) == drain[r] = "idle" /\ \A q \in 1..(r - 1) : drain[q] # "idle"

(* terminalizeDrainedCustody and quiesceForClose, in one synchronous pass. *)
QuiesceAndEmpty ==
  /\ draining' = TRUE
  /\ pending' = <<>> /\ buffer' = <<>>
  /\ Settle(Held, "closed_undelivered")

Quiesce == draining' = TRUE /\ UNCHANGED <<pending, buffer, outcome>>

(* Mutated form: a parked loop is left asleep. *)
AbortForgetsWaiter ==
  /\ closePending' = FALSE
  /\ UNCHANGED <<loop, hand, pending>>

(* Mutated form: the oldest prompt is handed out whatever else happened. *)
AbortHandsOutAnyway ==
  /\ closePending' = FALSE
  /\ IF pending # <<>> /\ loop = "parked"
     THEN HandOut(Head(pending)) /\ pending' = Tail(pending)
     ELSE UNCHANGED <<loop, hand, pending>>

(* abortClosePending: service resumes, and a parked loop gets the oldest   *)
(* prompt held, unless another close has committed.                        *)
Abort ==
  /\ closePending' = FALSE
  /\ IF pending # <<>> /\ ~Closed /\ ~draining /\ loop = "parked"
     THEN HandOut(Head(pending)) /\ pending' = Tail(pending)
     ELSE UNCHANGED <<loop, hand, pending>>

(* One CHECK of drainWithTaskCheck: refuse, wait on, or commit in the same *)
(* step; the deadline may pass any time.                                   *)
Check(r) ==
  \/ /\ live
     /\ Abort
     /\ drain' = [drain EXCEPT ![r] = "done"]
     /\ UNCHANGED <<buffer, outcome, draining>>
  \/ /\ ~live /\ ActiveTurn
     /\ closePending' = TRUE
     /\ drain' = [drain EXCEPT ![r] = "checking"]
     /\ UNCHANGED <<loop, hand, pending, buffer, outcome, draining>>
  \/ /\ ~live
     /\ closePending' = FALSE
     /\ QuiesceAndEmpty
     /\ drain' = [drain EXCEPT ![r] = "done"]
     /\ UNCHANGED <<loop, hand>>

(* drain_deliveries, with or without the check for background tasks: a     *)
(* second drain is not checked.                                            *)
RequestDrain(r, checked) ==
  /\ Up /\ NextRequest(r)
  /\ IF checked /\ ~draining /\ ~closePending
     THEN Check(r)
     ELSE /\ IF ActiveTurn THEN Quiesce ELSE QuiesceAndEmpty
          /\ drain' = [drain EXCEPT ![r] = IF ActiveTurn THEN "settling" ELSE "done"]
          /\ UNCHANGED <<loop, hand, closePending>>
  /\ UNCHANGED <<backend, steer, arrived, deferred, live>>

DrainPolls(r) ==
  /\ Up /\ drain[r] = "checking"
  /\ Check(r)
  /\ UNCHANGED <<backend, steer, arrived, deferred, live>>

(* The turn has settled or the time is up (waitForTurnToSettle).           *)
DrainSettles(r) ==
  /\ Up /\ drain[r] = "settling"
  /\ QuiesceAndEmpty
  /\ drain' = [drain EXCEPT ![r] = "done"]
  /\ UNCHANGED <<backend, loop, hand, steer, arrived, closePending, deferred, live>>

(* schedule_close: recorded, only ever with more force; a parked loop is   *)
(* woken.                                                                  *)
ScheduleClose(r, force) ==
  /\ Up /\ NextRequest(r)
  /\ deferred' = IF force \/ deferred = "force" THEN "force" ELSE "gentle"
  /\ drain' = [drain EXCEPT ![r] = "done"]
  /\ loop' = IF loop = "parked" THEN "idle" ELSE loop
  /\ UNCHANGED <<backend, hand, custody, draining, closePending, live>>

(* The turn boundary with no close recorded.                               *)
NoDeferredClose ==
  /\ loop = "boundary" /\ deferred = "none"
  /\ loop' = "resting"
  /\ UNCHANGED <<backend, hand, custody, closing, live>>

(* performDeferredClose, at a turn's end or between turns: the drain finds *)
(* no turn, so it refuses or commits at once.                              *)
RefuseDeferredClose ==
  /\ loop \in {"boundary", "idle"}
  /\ deferred = "gentle" /\ ~draining /\ ~closePending /\ live
  /\ deferred' = "none"
  /\ \/ loop = "boundary" /\ loop' = "resting"
     \/ loop = "idle" /\ loop' \in {"poll", "deciding"}
  /\ UNCHANGED <<backend, hand, custody, draining, closePending, drain, live>>

(* Mutated form: the tasks are not asked for again at the turn's end. *)
PerformDeferredCloseUnchecked ==
  /\ loop \in {"boundary", "idle"}
  /\ deferred # "none"
  /\ deferred' = "none"
  /\ QuiesceAndEmpty
  /\ loop' = "recording"
  /\ UNCHANGED <<backend, hand, steer, arrived, closePending, drain, live>>

PerformDeferredClose ==
  /\ loop \in {"boundary", "idle"}
  /\ deferred # "none"
  /\ deferred = "force" \/ draining \/ closePending \/ ~live
  /\ deferred' = "none"
  /\ QuiesceAndEmpty
  /\ loop' = "recording"
  /\ UNCHANGED <<backend, hand, steer, arrived, closePending, drain, live>>

(* closeBackend and writeTerminalCloseRecord have ended.                   *)
CloseRecorded ==
  /\ loop = "recording"
  /\ loop' = "leaving"
  /\ UNCHANGED <<backend, hand, custody, closing, live>>

(* Socket repair and idle drain restarted; an account switch or a style    *)
(* change makes the owner leave here.                                      *)
Resume ==
  /\ loop = "resting"
  /\ loop' \in {"poll", "leaving"}
  /\ UNCHANGED <<backend, hand, custody, closing, live>>

-----------------------------------------------------------------------------
(* The end of the owner *)

(* Mutated form: the queue is left as it is. *)
CloseKeepsQueue ==
  /\ loop = "leaving"
  /\ loop' = "closing"
  /\ UNCHANGED <<backend, hand, custody, closing, live>>

(* closeQueueOwnerRuntime up to the end of owner.close().                  *)
Close ==
  /\ loop = "leaving"
  /\ loop' = "closing"
  /\ pending' = <<>>
  /\ Settle(Elements(pending), DrainOutcome(draining))
  /\ UNCHANGED <<backend, hand, buffer, steer, arrived, closing, live>>

(* The process ends, and what it held in memory with it.                   *)
ProcessEnds(how) ==
  /\ loop' = how
  /\ hand' = NoTask /\ pending' = <<>> /\ buffer' = <<>>
  /\ steer' = [t \in Tasks |-> IF steer[t] = "no" THEN "no" ELSE "over"]
  /\ draining' = FALSE /\ closePending' = FALSE /\ deferred' = "none" /\ live' = FALSE
  /\ drain' = [r \in Requests |-> "idle"]
  /\ UNCHANGED <<backend, arrived>>

(* The adapter is closed, the lease released, the process exits.           *)
Exit == loop = "closing" /\ ProcessEnds("exited") /\ UNCHANGED outcome

(* The main delivery is open and nobody has claimed its terminal.          *)
MainOpen ==
  loop \in {"opening", "prompting", "answered", "cutting", "settling", "splicing"}

(* SIGTERM or SIGINT: sweepCustodyOnSignal is synchronous and then the     *)
(* process exits; a write in flight lands or not.                          *)
FatalSignal ==
  /\ Up
  /\ ProcessEnds("stopped")
  /\ \E landing \in SUBSET {t \in Tasks : WriteInFlight(t)} :
       outcome' = [t \in Tasks |->
         outcome[t]
           \o (IF t \in landing THEN <<"settled">> ELSE <<>>)
           \o (IF outcome[t] # <<>> THEN <<>>
               ELSE IF t \in Held THEN <<DrainOutcome(draining)>>
               ELSE IF Listed(t) THEN <<IF draining THEN "at_close" ELSE "unknown">>
               ELSE IF t = hand /\ MainOpen /\ draining THEN <<"at_close">>
               ELSE <<>>)]

(* SIGKILL: nothing is written.                                            *)
Crash == Up /\ ProcessEnds("crashed") /\ UNCHANGED outcome

(* A background task of the agent starts or ends, in a turn or between.    *)
TaskChanges ==
  /\ Up
  /\ live' = ~live
  /\ UNCHANGED <<backend, loop, hand, custody, closing>>

-----------------------------------------------------------------------------

(* A turn's steps, and the loop's between turns.                           *)
TurnStep ==
  \/ BeginTurn \/ TurnRefused \/ OpenMain \/ RegisterHandler \/ Answered \/ StopInjecting
  \/ (\E t \in Tasks : CutInjected(t)) \/ InjectedCut \/ SpliceAbsorbed \/ (\E t \in Tasks : WriteAbsorbed(t)) \/ ClaimMain \/ WriteMain

LoopStep ==
  \/ TakeNext \/ Park \/ IdleDecision \/ Release
  \/ NoDeferredClose \/ RefuseDeferredClose \/ PerformDeferredClose \/ CloseRecorded
  \/ Resume \/ Close \/ Exit

SteerStep(t) == SteerOpens(t) \/ SteerAnswered(t) \/ SteerWritten(t)
DrainStep(r) == DrainPolls(r) \/ DrainSettles(r)

Next ==
  \/ TurnStep \/ LoopStep \/ WaitTimesOut
  \/ \E t \in Tasks : Submit(t) \/ SteerStep(t)
  \/ \E r \in Requests, b \in BOOLEAN : RequestDrain(r, b) \/ ScheduleClose(r, b)
  \/ \E r \in Requests : DrainStep(r)
  \/ FatalSignal \/ Crash \/ TaskChanges

Spec == Init /\ [][Next]_vars

(* The owner goes on, a turn ends (an answer, an error, a cancel or the    *)
(* watchdog), appends land and a drain's clock runs out.  Nobody need      *)
(* submit, close or stop anything, and a wait need not time out.           *)
OwnerFairness ==
  /\ WF_vars(TurnStep) /\ WF_vars(LoopStep)
  /\ \A t \in Tasks : WF_vars(SteerOpens(t) \/ SteerWritten(t))
  /\ \A r \in Requests : WF_vars(DrainStep(r))
FairSpec == Spec /\ OwnerFairness

-----------------------------------------------------------------------------
(* What must be true of it *)

Steered == {t \in Tasks : steer[t] \notin {"no", "over"}}

(* A prompt is in one place at a time, and one whose sender waits is       *)
(* somewhere until it has its outcome: no capture, injection, requeue,     *)
(* close or abort loses it or runs it twice.                               *)
OneCustody ==
  /\ \A i, j \in DOMAIN (pending \o buffer) :
       (pending \o buffer)[i] = (pending \o buffer)[j] => i = j
  /\ Held \cap (Steered \cup {hand}) = {}
  /\ hand \notin Steered
  /\ \A t \in Waiting :
       Up /\ t <= arrived /\ outcome[t] = <<>> => t \in Held \cup Steered \cup {hand}

NewInHand == hand' # hand /\ hand' # NoTask

(* Whichever way it comes to the loop, a prompt handed out arrived before  *)
(* every prompt still queued: nextTask, a wake-up, an aborted close and    *)
(* what a turn did not take keep the order of arrival.                     *)
HandedOutOldest ==
  [][NewInHand => \A t \in Elements(pending') : hand' < t]_vars

(* No turn is handed to the loop while a close is pending or under way,    *)
(* and a close recorded for a turn's end goes before any further prompt,   *)
(* however the prompt comes to the loop.                                   *)
NothingStartsWhileClosing ==
  [][NewInHand => ~draining' /\ ~closePending' /\ deferred = "none"]_vars

(* The owner keeps what the senders of prompts are promised, prompts that  *)
(* are answered or refused while their turn ends included.                 *)
Where(t) ==
  IF t > arrived THEN "unsent"
  ELSE IF steer[t] \in {"answering", "late", "both"} THEN "answering"
  ELSE IF outcome[t] # <<>> THEN "settled"
  ELSE IF t \in Held THEN "queued"
  ELSE IF t = hand THEN "turn"
  ELSE IF t \in Steered THEN "steered"
  ELSE "dropped"

D == INSTANCE Delivery WITH
       Deliveries <- Tasks,
       stage <- [t \in Tasks |-> Where(t)],
       verdict <- outcome,
       owner <- IF Up THEN "up" ELSE loop

Deliveries == D!Spec

(* As long as the owner runs it writes one outcome for a prompt, whoever   *)
(* writes it: its own answer, the end of its turn, or a close              *)
(* (terminalDeliveryKeys in runtime.ts).                                   *)
ToldOnce == Up => \A t \in Tasks : Len(outcome[t]) <= 1

Killed == loop \in {"stopped", "crashed"}

(* The owner has decided to go: an idle release, a recycling after a turn, *)
(* or a close that is being recorded.                                      *)
Going == loop \in {"deciding", "resting", "recording", "leaving", "closing", "exited"}

(* Queued prompts are not left asleep: as no more than MaxTasks come, the  *)
(* queue runs empty, into turns or into a close that settles it, unless    *)
(* the owner is killed.  A close recorded for the turn's end, or with a    *)
(* parked owner, does not wait for ever either, and no owner goes over it: *)
(* it is performed or refused before, unless the owner is killed.  One case*)
(* is excepted: a close recorded when the owner has made up its mind to go *)
(* is forgotten with the process (queue-owner-runtime.ts looks for one     *)
(* only at a turn's end and after an empty wait).                          *)
QueuedServed ==
  /\ []<>(pending = <<>> \/ Killed)
  /\ []<>(deferred = "none" \/ Going \/ Killed)
  /\ [][deferred # "none" /\ ~Going /\ Going' => deferred' = "none"]_vars

(* An unforced close does not commit over a live background task, however  *)
(* long it waited for the turn.  The code leaves one gap, which this names: *)
(* a close recorded for the turn's end is not checked while another is     *)
(* pending, nor is a drain that arrives then.                              *)
UnforcedCloseSparesTasks ==
  [][~draining /\ draining' /\ live =>
       \/ deferred = "force" /\ deferred' = "none"
       \/ \E r \in Requests : drain[r] = "idle" /\ drain'[r] # "idle"
       \/ closePending /\ drain' = drain]_vars

=============================================================================
