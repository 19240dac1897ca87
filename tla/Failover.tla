--------------------------------- MODULE Failover ---------------------------------
(***************************************************************************)
(* A queued task whose turn hits a subscription limit                      *)
(* (runtime/engine/failover.ts attemptFailoverAndRetry, cli/session/       *)
(* runtime.ts runQueuedTask): the session is switched to a sibling account *)
(* and the turn run again there, each account at most once, and on any     *)
(* other end the selection it started with is put back.  Messages that     *)
(* were injected into the turn and refused by the limit are run again      *)
(* after it, in order, with failovers of their own.                        *)
(***************************************************************************)
EXTENDS Naturals, Sequences

CONSTANTS
  Profiles,      \* the profiles of the registry, all portable and of one auth mode
  AccountOf,     \* their accounts
  FirstProfile,  \* the profile selected when the task begins
  Steered,       \* messages injected into the turns of the task
  TaskMessage,   \* the task's own message
  MaxExpired,    \* bound: accounts whose 60 s of being dead end
  MaxLockFlips   \* bound: changes of a profile's lock from outside

Accounts == {AccountOf[p] : p \in Profiles}

ASSUME FailoverAssumption ==
  /\ AccountOf \in [Profiles -> Accounts]
  /\ FirstProfile \in Profiles /\ TaskMessage \notin Steered
  /\ MaxExpired \in Nat /\ MaxLockFlips \in Nat

Messages == Steered \cup {TaskMessage}

VARIABLES
  selected,     \* session_options.profile of the record on disk
  locks,        \* the profiles an operator has locked
  dead,         \* account health of the owner's process: the accounts marked dead
  task,         \* where the task is, and the message it is running
  failover,     \* the failover in progress
  refused,      \* DeferredInjectedPrompt: the messages a limit refused
  settled,      \* per message, the delivery terminals written, in order
  heldWritten,  \* HeldDeliveryTerminal.written of the message being run again
  gaveUp,       \* DeferredInjectedFailoverState.terminalError is set
  home,         \* history: the selection the session was last served on, or moved to before a turn
  stuckMove,    \* history: a switch failed half-way through a failover
  deferred,     \* history: the messages that were refused by a limit and put aside
  expired, flips

failoverVars == <<selected, locks, dead, task, failover, refused, settled, heldWritten,
                  gaveUp, home, stuckMove, deferred, expired, flips>>

NoFailover == [on |-> FALSE, copy |-> FirstProfile, original |-> FirstProfile, last |-> AccountOf[FirstProfile],
               tried |-> {}, target |-> FirstProfile, picks |-> [a \in Accounts |-> 0]]

FailoverInit ==
  /\ selected = FirstProfile /\ locks = {} /\ dead = {}
  /\ task = [at |-> "begin", message |-> TaskMessage]
  /\ failover = NoFailover /\ refused = <<>>
  /\ settled = [m \in Messages |-> <<>>]
  /\ heldWritten = FALSE /\ gaveUp = FALSE
  /\ home = FirstProfile /\ stuckMove = FALSE /\ deferred = {} /\ expired = 0 /\ flips = 0

GoesTo(step) == task' = [task EXCEPT !.at = step]

----------------------------------------------------------------------------
(* Choosing an account.                                                    *)

Usable(p) == p \notin locks /\ AccountOf[p] \notin dead

\* failoverCandidates and accountHealthy: siblings of the account that failed,
\* not locked, not tried in this failover, not known dead.
Siblings ==
  {p \in Profiles : Usable(p) /\ AccountOf[p] # failover.last /\ AccountOf[p] \notin failover.tried}

\* markAccountDead and the seed of the tried set: `account` physically failed.
Charged(f, account) == [f EXCEPT !.last = account, !.tried = @ \cup {account}]

\* attemptFailoverAndRetry begins: the record is read once, and its selection
\* remembered.
Started(account) ==
  Charged([NoFailover EXCEPT !.on = TRUE, !.copy = selected, !.original = selected], account)

Switched(p) == [failover EXCEPT !.copy = p, !.tried = @ \cup {AccountOf[p]},
                                !.picks[AccountOf[p]] = @ + 1]

(* Mutated form: the restorer was built from the record it is given, which *)
(* the failover has switched since.                                         *)
RestoredLive == IF failover.on THEN failover.copy ELSE selected

\* snapshotSelectionRestorer: what a failover that did not succeed leaves.
Restored == IF failover.on THEN failover.original ELSE selected

----------------------------------------------------------------------------
(* Terminals.                                                              *)

Told(m, phase) == settled' = [settled EXCEPT ![m] = Append(@, phase)]

(* Mutated form: a retry of a deferred message writes its own failed terminal. *)
TurnTellsLimitAlways(m) == TRUE

\* appendMainFailedTerminal: a limit is told by the turn, except in the retry
\* of a deferred message, where it is the failover's to tell.
TurnTellsLimit(m) == m = TaskMessage

\* The failover or the retry failed: a deferred message whose terminal no turn
\* has written is told here (retryDeferredInjectedPrompt).
TellUntold ==
  IF task.message # TaskMessage /\ ~heldWritten THEN Told(task.message, "failed") ELSE UNCHANGED settled

----------------------------------------------------------------------------
(* One turn, on a client built from the record or on the owner's own.      *)

\* selectSubscriptionBeforeTurn: before the first turn of the task the session
\* may be moved to a better subscription.
SelectBeforeTurn ==
  /\ task = [at |-> "begin", message |-> TaskMessage] /\ ~failover.on
  /\ \E p \in Profiles : p \notin locks /\ selected' = p /\ home' = p
  /\ GoesTo("begin")
  /\ UNCHANGED <<locks, dead, failover, refused, settled, heldWritten, gaveUp, stuckMove, deferred, expired, flips>>

RunTurn ==
  /\ task.at = "begin" /\ selected \notin locks
  /\ GoesTo("running")
  /\ UNCHANGED <<selected, locks, dead, failover, refused, settled, heldWritten, gaveUp, home,
                 stuckMove, deferred, expired, flips>>

Unlocked == {p \in Profiles : Usable(p) /\ AccountOf[p] # AccountOf[selected]}

\* enforceSubscriptionLockBeforeTurn: the selected profile is locked, and the
\* session moves to an unlocked sibling, also within a failover.
MoveOffLock ==
  /\ task.at = "begin" /\ selected \in locks
  /\ \E p \in Unlocked :
       /\ selected' = p
       /\ home' = IF failover.on THEN home ELSE p
  /\ GoesTo("running")
  /\ UNCHANGED <<locks, dead, failover, refused, settled, heldWritten, gaveUp, stuckMove, deferred, expired, flips>>

\* The task's turn is over without having been served, and not by a limit: the
\* failover, if there is one, restores the selection.
EndUnserved ==
  /\ selected' = Restored /\ failover' = NoFailover
  /\ GoesTo("next")

\* No unlocked sibling: the turn is refused before anything is submitted.
RefuseLocked ==
  /\ task.at = "begin" /\ selected \in locks /\ Unlocked = {}
  /\ EndUnserved /\ TellUntold
  /\ UNCHANGED <<locks, dead, refused, heldWritten, gaveUp, home, stuckMove, deferred, expired, flips>>

Served ==
  /\ task.at = "running"
  /\ Told(task.message, "done") /\ heldWritten' = TRUE
  /\ home' = selected /\ failover' = NoFailover /\ GoesTo("next")
  /\ UNCHANGED <<selected, locks, dead, refused, gaveUp, stuckMove, deferred, expired, flips>>

FailedOtherwise ==
  /\ task.at = "running"
  /\ Told(task.message, "failed") /\ heldWritten' = TRUE
  /\ EndUnserved
  /\ UNCHANGED <<locks, dead, refused, gaveUp, home, stuckMove, deferred, expired, flips>>

\* A limit: `account` is the one the turn physically ran on, which need not be
\* the selected one.  A failover begins, or the one in progress goes on.
Limited ==
  /\ task.at = "running"
  /\ \E account \in Accounts :
       /\ failover' = IF failover.on THEN Charged(failover, account) ELSE Started(account)
       /\ dead' = dead \cup {account}
  /\ IF TurnTellsLimit(task.message) THEN Told(task.message, "failed") ELSE UNCHANGED settled
  /\ GoesTo("pick")
  /\ UNCHANGED <<selected, locks, refused, heldWritten, gaveUp, home, stuckMove, deferred, expired, flips>>

\* A message injected into the running turn is refused by a limit: it waits
\* for the turns of the task to end (deferInjectedPrompt).
RefuseInjected(m) ==
  /\ task.at = "running" /\ m # task.message
  /\ m \notin deferred /\ deferred' = deferred \cup {m}
  /\ \E account \in Accounts :
       refused' = Append(refused, [message |-> m, on |-> selected, account |-> account])
  /\ UNCHANGED <<selected, locks, dead, task, failover, settled, heldWritten, gaveUp, home,
                 stuckMove, expired, flips>>

----------------------------------------------------------------------------
(* The loop of attemptFailoverAndRetry.                                    *)

Pick ==
  /\ task.at = "pick"
  /\ \E p \in Siblings : failover' = [failover EXCEPT !.target = p]
  /\ GoesTo("switch")
  /\ UNCHANGED <<selected, locks, dead, refused, settled, heldWritten, gaveUp, home, stuckMove,
                 deferred, expired, flips>>

\* requirePickedTarget: no sibling is left.  Later messages are not tried.
Exhausted ==
  /\ task.at = "pick" /\ Siblings = {}
  /\ EndUnserved /\ TellUntold /\ gaveUp' = TRUE
  /\ UNCHANGED <<locks, dead, refused, heldWritten, home, stuckMove, deferred, expired, flips>>

\* switchToFailoverTarget: the record the failover read is switched and written,
\* and the turn runs on a fresh client.
Switch ==
  LET p == failover.target IN
  /\ task.at = "switch"
  /\ failover.copy = p \/ (p \notin locks /\ AccountOf[p] # AccountOf[failover.copy])
  /\ selected' = p /\ failover' = Switched(p) /\ GoesTo("begin")
  /\ UNCHANGED <<locks, dead, refused, settled, heldWritten, gaveUp, home, stuckMove, deferred, expired, flips>>

\* switchSessionAccount throws: the target is locked by now, is no sibling of
\* the selected profile, or its transcript cannot be ported.  Nothing is restored.
SwitchFails ==
  /\ task.at = "switch" /\ failover.copy # failover.target
  /\ failover' = NoFailover /\ GoesTo("next") /\ TellUntold
  /\ stuckMove' = TRUE
  /\ UNCHANGED <<selected, locks, dead, refused, heldWritten, gaveUp, home, deferred, expired, flips>>

----------------------------------------------------------------------------
(* settleDeferredInjectedPrompts.                                          *)

\* The oldest deferred message: failed if no account is left, failed over at
\* once if the session is still where it was refused, and else run where it is.
TakeDeferred ==
  LET e == Head(refused) IN
  /\ task.at = "next" /\ refused # <<>>
  /\ refused' = Tail(refused) /\ heldWritten' = FALSE
  /\ IF gaveUp
       THEN /\ task' = [at |-> "next", message |-> e.message]
            /\ Told(e.message, "failed") /\ UNCHANGED <<failover, dead>>
       ELSE /\ UNCHANGED settled
            /\ IF selected = e.on
                 THEN /\ failover' = Started(e.account) /\ dead' = dead \cup {e.account}
                      /\ task' = [at |-> "pick", message |-> e.message]
                 ELSE /\ UNCHANGED <<failover, dead>>
                      /\ task' = [at |-> "begin", message |-> e.message]
  /\ UNCHANGED <<selected, locks, gaveUp, home, stuckMove, deferred, expired, flips>>

TaskOver ==
  /\ task.at = "next" /\ refused = <<>> /\ GoesTo("over")
  /\ UNCHANGED <<selected, locks, dead, failover, refused, settled, heldWritten, gaveUp, home,
                 stuckMove, deferred, expired, flips>>

----------------------------------------------------------------------------
(* From outside.                                                           *)

DeadEnds ==
  /\ expired < MaxExpired /\ expired' = expired + 1
  /\ \E a \in dead : dead' = dead \ {a}
  /\ UNCHANGED <<selected, locks, task, failover, refused, settled, heldWritten, gaveUp, home,
                 stuckMove, deferred, flips>>

FlipLock ==
  /\ flips < MaxLockFlips /\ flips' = flips + 1
  /\ \E p \in Profiles : locks' = IF p \in locks THEN locks \ {p} ELSE locks \cup {p}
  /\ UNCHANGED <<selected, dead, task, failover, refused, settled, heldWritten, gaveUp, home,
                 stuckMove, deferred, expired>>

FailoverNext ==
  \/ SelectBeforeTurn \/ RunTurn \/ MoveOffLock \/ RefuseLocked
  \/ Served \/ FailedOtherwise \/ Limited \/ (\E m \in Steered : RefuseInjected(m))
  \/ Pick \/ Exhausted \/ Switch \/ SwitchFails \/ TakeDeferred \/ TaskOver
  \/ DeadEnds \/ FlipLock

FailoverSpec == FailoverInit /\ [][FailoverNext]_failoverVars

----------------------------------------------------------------------------
(* The values of the variables. *)
FailoverTypeOK ==
  /\ selected \in Profiles /\ locks \subseteq Profiles /\ dead \subseteq Accounts /\ home \in Profiles
  /\ task \in [at : {"begin", "running", "pick", "switch", "next", "over"}, message : Messages]
  /\ failover \in [on : BOOLEAN, copy : Profiles, original : Profiles, last : Accounts,
                   tried : SUBSET Accounts, target : Profiles, picks : [Accounts -> Nat]]
  /\ refused \in Seq([message : Steered, on : Profiles, account : Accounts])
  /\ settled \in [Messages -> Seq({"done", "failed"})]
  /\ {heldWritten, gaveUp, stuckMove} \subseteq BOOLEAN /\ deferred \subseteq Steered
  /\ expired \in 0 .. MaxExpired /\ flips \in 0 .. MaxLockFlips

(* One failover switches to each account at most once, whatever account the *)
(* retries physically ran on and whichever of them came alive again         *)
(* meanwhile; and when none is in progress the session is selected where it *)
(* was last served, or where it was before the failover began, unless a     *)
(* switch threw half-way: a failover that gives up leaves no trace, even    *)
(* where a lock moved the session within it.                                *)
SelectionComesHome ==
  /\ \A a \in Accounts : failover.picks[a] <= 1
  /\ task.at \in {"next", "over"} /\ ~stuckMove => selected = home

(* A message deferred by a limit gets one delivery terminal, after all the  *)
(* turns it ran: never a failed that a later done contradicts.              *)
DeferredToldOnce ==
  \A m \in deferred : Len(settled[m]) <= 1 /\ (task.at = "over" => Len(settled[m]) = 1)

(* The same for the task's own message: one terminal per delivery           *)
(* (cli/queue/main-turn-delivery.ts).                                       *)
MainToldOnce == Len(settled[TaskMessage]) <= 1
===================================================================================
