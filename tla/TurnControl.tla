---- MODULE TurnControl ----
(***************************************************************************)
(* One turn of a queue owner, from the moment a task is taken to its end:   *)
(* the turn controller (src/src/cli/queue/owner-turn-controller.ts), the    *)
(* prompt slot of the ACP client (prompt, hasActivePrompt and the cancels   *)
(* of src/src/acp/client.ts), and the attempts, injections and drain of     *)
(* runSessionPrompt (src/src/cli/session/runtime.ts).  A cancel may arrive  *)
(* at any time, messages are injected into the turn that runs, the agent    *)
(* may answer late or never, and the next turn may run on a fresh client.   *)
(*                                                                         *)
(* The agent is outside the source.  What it does with an injected prompt   *)
(* depends on the harness (mid-turn-injection-support.ts): claude hands the *)
(* turn over and returns the prompt before it at once; pi acknowledges the  *)
(* injected prompt at once; codex absorbs it and may never answer it.       *)
(***************************************************************************)
EXTENDS Naturals, SequencesExt

CONSTANTS
    Harnesses,        \* the harnesses of the instance: claude, pi, codex
    MaxTurns,         \* turns
    MaxInjected,      \* messages injected
    MaxRetries,       \* promptRetries of a turn
    MaxCancels        \* cancel requests

ASSUME TurnAssumption ==
    /\ Harnesses \subseteq {"claude", "pi", "codex"}
    /\ MaxTurns \in Nat \ {0}
    /\ {MaxInjected, MaxRetries, MaxCancels} \subseteq Nat

\* The prompts: <<"main", turn, attempt>> is a turn's own, <<"inj", n, 0>> an injected one.
Mains == {"main"} \X (1..MaxTurns) \X (0..MaxRetries)
Injected == {"inj"} \X (1..MaxInjected) \X {0}
NoPrompt == <<"none", 0, 0>>
Clients == 1..MaxTurns

VARIABLES
    harness,          \* the harness of the session
    turn,             \* [n, phase, attempt, client]: the turn the owner runs
    control,          \* QueueOwnerTurnController: [state, pendingCancel, controller]
    composing,        \* startingPrompt: the turn's prompt awaits its context
    cancelsWaiting,   \* a cancel waits for the starting prompt to be sent
    slot,             \* client -> its activePrompt
    flight,           \* client -> the prompts it sent and has no answer for, in order
    injection,        \* injected message -> what became of it
    owed,             \* a cancel was accepted and has not been sent to the agent
    clearedEarly,     \* an injected prompt settled and took the slot of a live main prompt with it
    cancels           \* cancel requests so far

turnVars == <<harness, turn, control, composing, cancelsWaiting, slot, flight, injection,
              owed, clearedEarly, cancels>>

TurnTypeOK ==
    /\ harness \in Harnesses
    /\ turn \in [n : 0..MaxTurns, attempt : 0..MaxRetries, client : Clients,
                 phase : {"idle", "connecting", "sent", "draining", "rejected", "overdue",
                           "backoff"}]
    /\ control \in [state : {"idle", "starting", "active"}, pendingCancel : BOOLEAN,
                    controller : BOOLEAN]
    /\ {composing, cancelsWaiting, owed, clearedEarly} \subseteq BOOLEAN
    /\ slot \in [Clients -> Mains \cup Injected \cup {NoPrompt}]
    /\ flight \in [Clients -> Seq(Mains \cup Injected)]
    /\ injection \in [Injected -> {"none", "accepted", "sent", "settled", "given up"}]
    /\ cancels \in 0..MaxCancels

TurnInit ==
    /\ harness \in Harnesses
    /\ turn = [n |-> 0, attempt |-> 0, client |-> 1, phase |-> "idle"]
    /\ control = [state |-> "idle", pendingCancel |-> FALSE, controller |-> FALSE]
    /\ composing = FALSE /\ cancelsWaiting = FALSE
    /\ slot = [c \in Clients |-> NoPrompt]
    /\ flight = [c \in Clients |-> <<>>]
    /\ injection = [i \in Injected |-> "none"]
    /\ owed = FALSE /\ clearedEarly = FALSE /\ cancels = 0

\* The prompts client c has on the wire.
OnWire(c) == ToSet(flight[c])

Main == <<"main", turn.n, turn.attempt>>
HasActivePrompt == composing \/ slot[turn.client] # NoPrompt

\* The prompts of client c the drain awaits: claude and pi answer an injected prompt.
Tracked(c) == IF harness = "codex" THEN {} ELSE OnWire(c) \cap Injected
Unsettled == {i \in Injected : injection[i] = "accepted"} \cup Tracked(turn.client)

(* ---- The turn -----------------------------------------------------------*)

(* Mutated form: a turn on a fresh client starts beside the one that is live on the old client. *)
TurnBeginsBeside(fresh) ==
    /\ turn.phase = "idle" /\ turn.n < MaxTurns
    /\ LET c == IF fresh THEN turn.client + 1 ELSE turn.client
       IN  /\ fresh => c \in Clients
           /\ turn' = [n |-> turn.n + 1, attempt |-> 0, client |-> c, phase |-> "connecting"]
    /\ control' = [control EXCEPT !.state = "starting", !.pendingCancel = FALSE]
    /\ UNCHANGED <<harness, composing, cancelsWaiting, slot, flight, injection, owed,
                   clearedEarly, cancels>>

\* beginTurn, with the owner's own client or with a fresh one (a switch of account): before a
\* fresh client runs a turn, endPreviousLiveTurn cancels a turn that is live on the old one and
\* stops its adapter when that does not end it.
TurnBegins(fresh) ==
    /\ turn.phase = "idle" /\ turn.n < MaxTurns
    /\ LET c == IF fresh THEN turn.client + 1 ELSE turn.client
           old == turn.client
       IN  /\ fresh => c \in Clients
           /\ turn' = [n |-> turn.n + 1, attempt |-> 0, client |-> c, phase |-> "connecting"]
           /\ IF fresh /\ slot[old] # NoPrompt
              THEN /\ slot' = [slot EXCEPT ![old] = NoPrompt]
                   /\ flight' = [flight EXCEPT ![old] = <<>>]
              ELSE UNCHANGED <<slot, flight>>
    /\ control' = [control EXCEPT !.state = "starting", !.pendingCancel = FALSE]
    /\ UNCHANGED <<harness, composing, cancelsWaiting, injection, owed, clearedEarly, cancels>>

\* onClientAvailable: the controller is published; a cancel kept pending finds no prompt yet.
Connected ==
    /\ turn.phase = "connecting" /\ ~control.controller
    /\ control' = [control EXCEPT !.controller = TRUE]
    /\ UNCHANGED <<harness, turn, composing, cancelsWaiting, slot, flight, injection, owed,
                   clearedEarly, cancels>>

(* Mutated form: the prompt becomes active and the cancel kept pending stays where it is. *)
StartHookForgets(applies) ==
    /\ control' = [control EXCEPT !.state = "active"]
    /\ UNCHANGED owed

\* onPromptStarted: on the first attempt the prompt counts as active and a pending cancel is applied.
StartHook(applies) ==
    IF turn.attempt = 0
    THEN /\ control' = [control EXCEPT !.state = "active",
                                       !.pendingCancel = @ /\ ~applies]
         /\ owed' = (owed /\ ~applies)
    ELSE UNCHANGED <<control, owed>>

\* AcpClient.prompt with no context to inject: on the wire at once.  A prompt sent to an agent
\* that was cancelled in the same step ends cancelled.
SendPrompt ==
    /\ turn.phase = "connecting" /\ control.controller
    /\ turn' = [turn EXCEPT !.phase = "sent"]
    /\ slot' = [slot EXCEPT ![turn.client] = Main]
    /\ flight' = [flight EXCEPT ![turn.client] = Append(@, Main)]
    /\ StartHook(control.pendingCancel)
    /\ UNCHANGED <<harness, composing, cancelsWaiting, injection, clearedEarly, cancels>>

\* The same with a context to compose: the hook runs while it is composed, and a cancel waits
\* until the prompt is on the wire.
ComposePrompt ==
    /\ turn.phase = "connecting" /\ control.controller
    /\ turn' = [turn EXCEPT !.phase = "sent"]
    /\ composing' = TRUE
    /\ cancelsWaiting' = (turn.attempt = 0 /\ control.pendingCancel)
    /\ StartHook(FALSE)
    /\ UNCHANGED <<harness, slot, flight, injection, clearedEarly, cancels>>

\* The context is there: the prompt goes out, and with it the cancels that waited.
PromptComposed ==
    /\ composing
    /\ composing' = FALSE
    /\ slot' = [slot EXCEPT ![turn.client] = Main]
    /\ flight' = [flight EXCEPT ![turn.client] = Append(@, Main)]
    /\ IF cancelsWaiting
       THEN control' = [control EXCEPT !.pendingCancel = FALSE] /\ owed' = FALSE
       ELSE UNCHANGED <<control, owed>>
    /\ cancelsWaiting' = FALSE
    /\ UNCHANGED <<harness, turn, injection, clearedEarly, cancels>>

(* ---- Cancels ------------------------------------------------------------*)

\* The owner's cancelPrompt: requestCancel, then applyPendingCancel.
CancelRequest ==
    /\ cancels < MaxCancels
    /\ cancels' = cancels + 1
    /\ IF control.controller /\ HasActivePrompt
       THEN IF composing
            THEN cancelsWaiting' = TRUE /\ owed' = TRUE /\ UNCHANGED control
            ELSE /\ control' = [control EXCEPT !.pendingCancel = FALSE]
                 /\ owed' = FALSE /\ UNCHANGED cancelsWaiting
       ELSE IF control.state \in {"starting", "active"}
            THEN /\ control' = [control EXCEPT !.pendingCancel = TRUE]
                 /\ owed' = TRUE /\ UNCHANGED cancelsWaiting
            ELSE UNCHANGED <<control, owed, cancelsWaiting>>
    /\ UNCHANGED <<harness, turn, composing, slot, flight, injection, clearedEarly>>

(* ---- Injections ---------------------------------------------------------*)

\* The mid-turn handler is registered by the start hook and dropped when the drain is over.
HandlerSet == turn.phase \in {"sent", "draining", "rejected", "overdue"}

Inject(i) ==
    /\ HandlerSet /\ injection[i] = "none"
    /\ \A j \in Injected : j[2] < i[2] => injection[j] # "none"
    /\ injection' = [injection EXCEPT ![i] = "accepted"]
    /\ UNCHANGED <<harness, turn, control, composing, cancelsWaiting, slot, flight, owed,
                   clearedEarly, cancels>>

\* Its prompt reaches the wire after the one that is being composed, and takes the slot.
InjectSent(i) ==
    /\ injection[i] = "accepted" /\ ~composing
    /\ injection' = [injection EXCEPT ![i] = "sent"]
    /\ slot' = [slot EXCEPT ![turn.client] = i]
    /\ flight' = [flight EXCEPT ![turn.client] = Append(@, i)]
    /\ UNCHANGED <<harness, turn, control, composing, cancelsWaiting, owed, clearedEarly, cancels>>

(* ---- Answers ------------------------------------------------------------*)

\* settlePromptBookkeeping: the slot is cleared by the prompt that holds it.
Cleared(c, p) == IF slot[c] = p THEN [slot EXCEPT ![c] = NoPrompt] ELSE slot

\* claude returns its prompts in order, each at the end of its work or when a later one takes
\* over; the others answer turns in order, and an injected prompt whenever they choose.
MayAnswer(c, p) ==
    \A j, k \in DOMAIN flight[c] : (j < k /\ flight[c][k] = p) =>
        harness # "claude" /\ ~({p, flight[c][j]} \subseteq Mains)

\* Its answer takes p off the wire; p is sent once.
Off(c, p) == RemoveAt(flight[c], CHOOSE k \in DOMAIN flight[c] : flight[c][k] = p)

InjectedAnswered(c, i) ==
    /\ i \in OnWire(c) \cap Injected /\ MayAnswer(c, i)
    /\ injection' = [injection EXCEPT ![i] = "settled"]
    /\ flight' = [flight EXCEPT ![c] = Off(c, i)]
    /\ slot' = Cleared(c, i)
    /\ clearedEarly' = (clearedEarly \/ (slot[c] = i /\ OnWire(c) \cap Mains # {}))
    /\ UNCHANGED <<harness, turn, control, composing, cancelsWaiting, owed, cancels>>

\* The answer of the turn's own prompt; of an earlier attempt or turn it is nobody's any more.
MainAnswered(c, m) ==
    /\ m \in OnWire(c) \cap Mains /\ MayAnswer(c, m)
    /\ flight' = [flight EXCEPT ![c] = Off(c, m)]
    /\ slot' = Cleared(c, m)
    /\ turn' = IF turn.phase = "sent" /\ c = turn.client /\ m = Main
               THEN [turn EXCEPT !.phase = "draining"] ELSE turn
    /\ UNCHANGED <<harness, control, composing, cancelsWaiting, injection, owed, clearedEarly,
                   cancels>>

\* The attempt fails: the agent rejects the prompt, or it is overdue (the caller's timeout, the
\* watchdog's second tier) and stays in flight.
AttemptFails(overdue) ==
    /\ turn.phase = "sent" /\ ~composing /\ Main \in OnWire(turn.client)
    /\ overdue \/ MayAnswer(turn.client, Main)
    /\ turn' = [turn EXCEPT !.phase = IF overdue THEN "overdue" ELSE "rejected"]
    /\ IF overdue THEN UNCHANGED <<slot, flight>>
       ELSE /\ flight' = [flight EXCEPT ![turn.client] = Off(turn.client, Main)]
            /\ slot' = Cleared(turn.client, Main)
    /\ UNCHANGED <<harness, control, composing, cancelsWaiting, injection, owed, clearedEarly,
                   cancels>>

(* ---- The drain and the end ----------------------------------------------*)

\* drainInjectedPrompts has nothing left to await, or its silence window ends.
EndDrain ==
    injection' = [i \in Injected |-> IF i \in Unsettled THEN "given up" ELSE injection[i]]

(* Mutated form: one retry more than the policy allows. *)
RetryOnceMore ==
    /\ turn.phase = "rejected" /\ turn.attempt <= MaxRetries
    /\ EndDrain
    /\ turn' = [turn EXCEPT !.phase = "backoff"]
    /\ UNCHANGED <<harness, control, composing, cancelsWaiting, slot, flight, owed, clearedEarly,
                   cancels>>

\* A rejected attempt may be retried after a pause (a timeout never is), the controller active.
Retry ==
    /\ turn.phase = "rejected" /\ turn.attempt < MaxRetries
    /\ EndDrain
    /\ turn' = [turn EXCEPT !.phase = "backoff"]
    /\ UNCHANGED <<harness, control, composing, cancelsWaiting, slot, flight, owed, clearedEarly,
                   cancels>>

BackoffOver ==
    /\ turn.phase = "backoff"
    /\ turn' = [turn EXCEPT !.phase = "connecting", !.attempt = @ + 1]
    /\ UNCHANGED <<harness, control, composing, cancelsWaiting, slot, flight, injection, owed,
                   clearedEarly, cancels>>

\* clearActiveController and endTurn: after the drain, or when the connection fails.
TurnEnds ==
    /\ \/ turn.phase \in {"draining", "rejected", "overdue"} /\ EndDrain
       \/ turn.phase = "connecting" /\ turn.attempt = 0 /\ UNCHANGED injection
    /\ turn' = [turn EXCEPT !.phase = "idle"]
    /\ control' = [state |-> "idle", pendingCancel |-> FALSE, controller |-> FALSE]
    /\ owed' = FALSE
    /\ UNCHANGED <<harness, composing, cancelsWaiting, slot, flight, clearedEarly, cancels>>

TurnNext ==
    \/ \E fresh \in BOOLEAN : TurnBegins(fresh)
    \/ Connected \/ SendPrompt \/ ComposePrompt \/ PromptComposed \/ CancelRequest
    \/ \E i \in Injected : Inject(i) \/ InjectSent(i)
    \/ \E c \in Clients : \/ \E i \in Injected : InjectedAnswered(c, i)
                          \/ \E m \in Mains : MainAnswered(c, m)
    \/ \E overdue \in BOOLEAN : AttemptFails(overdue)
    \/ Retry \/ BackoffOver \/ TurnEnds

TurnSpec == TurnInit /\ [][TurnNext]_turnVars

(* ---- Properties ---------------------------------------------------------*)

\* A cancel the owner accepted while its turn's prompt is on the wire has been sent to the agent,
\* wherever in the start of the turn it came: before the client, before the prompt, while the
\* prompt was composed.  Two cases are left out, in which it is kept for ever: a retried attempt, whose
\* start applies no pending cancel, and a slot an injected prompt cleared under the live prompt.
StartingCancelReachesAgent ==
    (owed /\ turn.phase = "sent" /\ ~composing /\ Main \in OnWire(turn.client))
        => (turn.attempt > 0 \/ clearedEarly)

\* The work an agent does for a session: a turn's own prompt, or the injected one it handed to.
LiveOn(c) ==
    \/ OnWire(c) \cap Mains # {}
    \/ harness = "claude" /\ OnWire(c) \cap Injected # {}

\* Two adapters never work on one session at once, although a turn may be over while the agent
\* still works on its prompt or on one injected into it.  A slot cleared under the live prompt
\* hides that work.
OneLiveAdapter ==
    clearedEarly \/ (\A c, d \in Clients : LiveOn(c) /\ LiveOn(d) => c = d)
====
