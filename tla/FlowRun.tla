------------------------------- MODULE FlowRun -------------------------------
(* One run of a flow (flows/runtime.ts, flows/store.ts): the loop that goes     *)
(* from node to node, the function of each node, its heartbeat, the signal that *)
(* interrupts the run, and the bundle of files they all write.  They are        *)
(* promises of one process: every step between two awaits is atomic, and they   *)
(* interleave at the awaits.  A node that times out is only raced by its timer  *)
(* (async-control.ts): its function goes on, beside the nodes after it.         *)
(*                                                                              *)
(* The graph of the flow is a choice after every outcome.  Attempts are         *)
(* numbered through the run; a session and a client carry the number of the     *)
(* attempt that created them.  All ACP nodes use one session handle; nodes of   *)
(* isolated sessions share nothing and are left out.  "failed" also stands for  *)
(* timed_out, and steps.json, written right after run.json, for itself.         *)
EXTENDS Naturals

CONSTANTS MaxAttempts,     \* nodes the run starts
          MaxBeats,        \* heartbeats that fire
          MaxMishaps       \* writes of the bundle that fail, and signals

ASSUME FlowRunAssumption ==
  MaxAttempts \in Nat \ {0} /\ MaxBeats \in Nat /\ MaxMishaps \in Nat

VARIABLES
  runState,    \* FlowRunState: status, finished (finishedAt is set), current attempt
  flow,        \* executeFlowRun: at, attempt, outcome of its node, whether a save overran it
  body,        \* the function of each attempt: at, late (abandoned), session, client
  saving,      \* the save each writer is in the middle of
  bundle,      \* run.json and live.json, as last renamed into place
  binding,     \* sessionBindings: the session the handle names, or 0
  unused,      \* pendingPersistentSessionClients: a client no prompt has used, or 0
  clients,     \* the clients of created sessions that are open
  signalled,   \* a signal has arrived
  runSettled,     \* who runSettled the promise of withInterrupt: "no", "flow" or "signal"
  left,        \* what may still happen: beats, mishaps
  over         \* the process has ended

runVars == <<runState, flow, body, saving, bundle, binding, unused,
             clients, signalled, runSettled, left, over>>

Attempts == 1 .. MaxAttempts

BundleWriters == {"loop", "handler", "timer"}

Image(s) == [status |-> s.status, current |-> s.current]
Idle == [file |-> "none", image |-> [status |-> "running", current |-> 0]]
Saved(w) == saving[w].file = "none"

Ended(a) == body[a].at \in {"none", "done", "failed"}

FlowRunInit ==
  LET first == [status |-> "running", finished |-> FALSE, current |-> 0]
  IN  /\ runState = first
      /\ bundle = [f \in {"run", "live"} |-> Image(first)]
      /\ flow = [at |-> "next", attempt |-> 0, outcome |-> "ok", overran |-> FALSE]
      /\ body = [a \in Attempts |-> [at |-> "none", late |-> FALSE, session |-> 0, client |-> 0]]
      /\ saving = [w \in BundleWriters |-> Idle]
      /\ binding = 0 /\ unused = 0 /\ clients = {}
      /\ signalled = FALSE /\ runSettled = "no" /\ over = FALSE
      /\ left = [beats |-> MaxBeats, mishaps |-> MaxMishaps]

------------------------------------------------------------------------------
(* Writing the bundle.  writeSnapshot and writeLive write one file after the   *)
(* other: what a file will hold is taken when its write begins, and shows when *)
(* the rename is done.  manifest.json and the trace event follow live.json and *)
(* are left out.                                                               *)

BeginSave(w, first) == saving' = [saving EXCEPT ![w] = [file |-> first, image |-> Image(runState')]]

NextFile == [run |-> "live", live |-> "none"]

Rename(w) ==
  LET s == saving[w]
      next == NextFile[s.file]
  IN  /\ ~Saved(w)
      /\ bundle' = [bundle EXCEPT ![s.file] = s.image]
      /\ saving' = [saving EXCEPT ![w] =
                      IF next = "none" THEN Idle
                      ELSE [s EXCEPT !.file = next, !.image = Image(runState)]]
      /\ UNCHANGED <<runState, flow, body, binding, unused, clients, signalled, runSettled, left, over>>

\* persistRunFailure: the run's failure is saved, unless one is recorded.
AlreadyFailed == runState.finished /\ runState.status = "failed"
Failing(w) ==
  /\ runState' = IF AlreadyFailed THEN runState
                 ELSE [runState EXCEPT !.status = "failed", !.finished = TRUE]
  /\ IF AlreadyFailed THEN saving' = [saving EXCEPT ![w] = Idle]
     ELSE BeginSave(w, "run")

\* A write fails.  The loop records the failure, and gives up when that fails as well; the
\* handler ends all the same; nobody catches the timer's rejection, which ends the process (the
\* heartbeat of an ACP node rejects its function instead, as Work may).
WriteFails(w) ==
  /\ ~Saved(w) /\ left.mishaps > 0
  /\ left' = [left EXCEPT !.mishaps = @ - 1]
  /\ IF w = "loop" /\ flow.at # "failing"
     THEN Failing("loop") /\ flow' = [flow EXCEPT !.at = "failing"]
     ELSE /\ saving' = [saving EXCEPT ![w] = Idle]
          /\ flow' = IF w = "loop" THEN [flow EXCEPT !.at = "threw"] ELSE flow
          /\ UNCHANGED runState
  /\ over' = (w = "timer")
  /\ UNCHANGED <<body, bundle, binding, unused, clients, signalled, runSettled>>

------------------------------------------------------------------------------
(* The loop (executeFlowRun).                                                  *)

Quiet == UNCHANGED <<bundle, binding, unused, clients, signalled, runSettled, left, over>>

StartNode ==
  LET a == flow.attempt + 1
  IN  /\ flow.at = "next" /\ a \in Attempts
      /\ runState' = [runState EXCEPT !.status = "running", !.current = a]
      /\ flow' = [flow EXCEPT !.at = "starting", !.attempt = a]
      /\ BeginSave("loop", "run")
      /\ UNCHANGED body /\ Quiet

\* The node's function begins, with its heartbeat and its timer.
EnterNode ==
  /\ flow.at = "starting" /\ Saved("loop")
  /\ flow' = [flow EXCEPT !.at = "node"]
  /\ \E first \in {"work", "prepare"} : body' = [body EXCEPT ![flow.attempt].at = first]
  /\ UNCHANGED <<runState, saving>> /\ Quiet

\* recordFlowStepOutcome; a checkpoint that waits says so first.
RecordOutcome(outcome) ==
  /\ runState' = [runState EXCEPT !.status = IF outcome = "waiting" THEN outcome ELSE @,
                                  !.current = 0]
  /\ flow' = [flow EXCEPT !.at = "recording", !.outcome = outcome, !.overran = @ \/ ~Saved("timer")]
  /\ BeginSave("loop", "run")

NodeEnds ==
  LET a == flow.attempt
  IN  /\ flow.at = "node" /\ Ended(a)
      /\ \/ body[a].at = "done" /\ RecordOutcome("ok")
         \/ body[a].at = "done" /\ body[a].session = 0 /\ RecordOutcome("waiting")
         \/ body[a].at = "failed" /\ RecordOutcome("failed")
      /\ UNCHANGED body /\ Quiet

\* withTimeout: the race is lost, and the function is left to itself.  (The cancel that follows
\* asks the owner of the session, and a flow prompts without one.)
NodeTimesOut ==
  /\ flow.at = "node" /\ ~Ended(flow.attempt)
  /\ body' = [body EXCEPT ![flow.attempt].late = TRUE]
  /\ RecordOutcome("failed")
  /\ Quiet

\* resolveNextNode, completeFlowRun, or an outcome that has no route.
Route ==
  /\ flow.at = "recording" /\ Saved("loop")
  /\ \/ /\ flow.outcome = "waiting"
        /\ flow' = [flow EXCEPT !.at = "done"] /\ UNCHANGED <<runState, saving>>
     \/ /\ flow.outcome # "waiting"
        /\ flow' = [flow EXCEPT !.at = "next", !.outcome = "ok"] /\ UNCHANGED <<runState, saving>>
     \/ /\ flow.outcome = "ok"
        /\ runState' = [status |-> "completed", finished |-> TRUE, current |-> 0]
        /\ flow' = [flow EXCEPT !.at = "completing"]
        /\ BeginSave("loop", "run")
     \/ /\ flow.outcome # "waiting"
        /\ Failing("loop") /\ flow' = [flow EXCEPT !.at = "failing"]
  /\ UNCHANGED body /\ Quiet

(* Mutated form: the last save of the run is not awaited. *)
LoopEndsUnsaved ==
  /\ flow.at \in {"completing", "failing"}
  /\ flow' = [flow EXCEPT !.at = IF @ = "completing" THEN "done" ELSE "threw"]
  /\ UNCHANGED <<runState, body, saving>> /\ Quiet

LoopEnds ==
  /\ flow.at \in {"completing", "failing"} /\ Saved("loop")
  /\ flow' = [flow EXCEPT !.at = IF @ = "completing" THEN "done" ELSE "threw"]
  /\ UNCHANGED <<runState, body, saving>> /\ Quiet

------------------------------------------------------------------------------
(* The heartbeat and the signals.                                              *)

\* A heartbeat: the timer's, or the one an ACP node writes before its prompt, late or not.
Heartbeat ==
  /\ \/ flow.at = "node" /\ ~Ended(flow.attempt)
     \/ \E a \in Attempts : body[a].at = "prepare"
  /\ Saved("timer") /\ left.beats > 0
  /\ left' = [left EXCEPT !.beats = @ - 1]
  /\ UNCHANGED runState
  /\ BeginSave("timer", "live")
  /\ UNCHANGED <<flow, body, bundle, binding, unused, clients, signalled, runSettled, over>>

\* withInterrupt: the handler saves a failure while the loop goes on.
Interrupt ==
  /\ runSettled = "no" /\ ~signalled /\ left.mishaps > 0
  /\ signalled' = TRUE
  /\ left' = [left EXCEPT !.mishaps = @ - 1]
  /\ Failing("handler")
  /\ UNCHANGED <<flow, body, bundle, binding, unused, clients, runSettled, over>>

(* Mutated form: the run ends without closing the client nobody used. *)
LeaveUnused == UNCHANGED <<clients, unused>>

\* closePendingPersistentSessionClients.
CloseUnused == clients' = clients \ {unused} /\ unused' = 0

\* The first of the two to end settles the run, which closes the client nobody used.  An error
\* then leaves the command with process.exit.
Settle ==
  /\ runSettled = "no"
  /\ \/ flow.at = "done" /\ runSettled' = "flow" /\ UNCHANGED over
     \/ flow.at = "threw" /\ runSettled' = "flow" /\ over' = TRUE
     \/ signalled /\ Saved("handler") /\ runSettled' = "signal" /\ over' = TRUE
  /\ CloseUnused
  /\ UNCHANGED <<runState, flow, body, saving, bundle, binding, signalled, left>>

\* Otherwise the process ends when nothing is left to do, and an open client is something.
CommandExits ==
  /\ runSettled = "flow"
  /\ clients = {} /\ \A a \in Attempts : Ended(a)
  /\ \A w \in BundleWriters : Saved(w)
  /\ over' = TRUE
  /\ UNCHANGED <<runState, flow, body, saving, bundle, binding, unused, clients, signalled, runSettled,
                 left>>

------------------------------------------------------------------------------
(* The function of a node.                                                     *)

Elsewhere == UNCHANGED <<runState, flow, saving, bundle, signalled, runSettled, left, over>>
Moves(a, from, to) == body[a].at = from /\ body' = [body EXCEPT ![a].at = to]

\* A compute, action or checkpoint node; any function may throw before its session is prompted.
Work(a) ==
  /\ \/ Moves(a, "work", "done")
     \/ \E at \in {"work", "creating", "bound"} : Moves(a, at, "failed")
  /\ UNCHANGED <<binding, unused, clients>> /\ Elsewhere

\* ensureSessionBinding: the bound session, or a new one, whose client is kept for its prompt.
Bind(a) ==
  /\ body[a].at = "prepare"
  /\ body' = [body EXCEPT ![a].at = IF binding = 0 THEN "creating" ELSE "bound",
                          ![a].session = binding]
  /\ UNCHANGED <<binding, unused, clients>> /\ Elsewhere

Created(a) ==
  /\ body[a].at = "creating"
  /\ body' = [body EXCEPT ![a].at = "bound", ![a].session = a]
  /\ binding' = a /\ unused' = a /\ clients' = clients \cup {a}
  /\ Elsewhere

(* Mutated form: the client stays in the map it was taken from. *)
PromptLeavingClient(a) ==
  /\ body[a].at = "bound"
  /\ body' = [body EXCEPT ![a].at = "prompting", ![a].client = unused]
  /\ UNCHANGED <<binding, unused, clients>> /\ Elsewhere

\* runPersistentPrompt: over the client kept for the handle, or one that is opened and closed here.
Prompt(a) ==
  /\ body[a].at = "bound"
  /\ body' = [body EXCEPT ![a].at = "prompting", ![a].client = unused]
  /\ unused' = 0
  /\ UNCHANGED <<binding, clients>> /\ Elsewhere

PromptEnds(a) ==
  /\ body[a].at = "prompting"
  /\ clients' = clients \ {body[a].client}
  /\ \/ /\ body' = [body EXCEPT ![a].at = "done", ![a].client = 0]
        /\ binding' = body[a].session
     \/ /\ body' = [body EXCEPT ![a].at = "failed", ![a].session = 0, ![a].client = 0]
        /\ UNCHANGED binding
  /\ UNCHANGED unused /\ Elsewhere

------------------------------------------------------------------------------
Function(a) == Work(a) \/ Bind(a) \/ Created(a) \/ Prompt(a) \/ PromptEnds(a)

FlowRunNext ==
  /\ ~over
  /\ \/ StartNode \/ EnterNode \/ NodeEnds \/ NodeTimesOut \/ Route \/ LoopEnds
     \/ Heartbeat \/ Interrupt \/ Settle \/ CommandExits
     \/ \E a \in Attempts : Function(a)
     \/ \E w \in BundleWriters : Rename(w) \/ WriteFails(w)

FlowRunSpec == FlowRunInit /\ [][FlowRunNext]_runVars

FlowRunTypeOK ==
  LET images == [status : {"running", "waiting", "completed", "failed"}, current : 0 .. MaxAttempts]
  IN  /\ Image(runState) \in images /\ runState.finished \in BOOLEAN
      /\ bundle \in [{"run", "live"} -> images]
      /\ flow.attempt \in 0 .. MaxAttempts /\ flow.outcome \in {"ok", "failed", "waiting"}
      /\ body \in [Attempts -> [at : {"none", "work", "prepare", "creating", "bound",
                                      "prompting", "done", "failed"},
                                late : BOOLEAN, session : 0 .. MaxAttempts,
                                client : 0 .. MaxAttempts]]
      /\ \A w \in BundleWriters : saving[w].image \in images
      /\ binding \in 0 .. MaxAttempts /\ unused \in 0 .. MaxAttempts /\ clients \subseteq Attempts
      /\ runSettled \in {"no", "flow", "signal"} /\ signalled \in BOOLEAN /\ over \in BOOLEAN

------------------------------------------------------------------------------
LateAttempts == {a \in Attempts : body[a].late}
Undisturbed == left.mishaps = MaxMishaps

\* A run that nothing disturbed is found as it ended, by a reader of any file of the bundle; only
\* a live save still under way when a node ended may put an earlier state back.
VerdictStands ==
  (over /\ Undisturbed) =>
    /\ bundle.run = Image(runState) /\ runState.status # "running"
    /\ bundle # [f \in DOMAIN bundle |-> Image(runState)] => flow.overran \/ LateAttempts # {}

\* A session has one prompt at a time, over the client that created it while that is open, and a
\* client is kept for one prompt: a node that timed out is what it takes to break that.
SessionsKeptApart ==
  LateAttempts = {} =>
    /\ \A a, b \in Attempts : (a # b /\ body[a].at = "prompting") => body[b].at # "prompting"
    /\ \A a \in Attempts : body[a].client = 0 \/ body[a].client \in clients \cap {body[a].session}
    /\ clients \subseteq {unused} \cup {body[a].client : a \in Attempts}

\* The command of a run that came to its end ends: once nothing is left to do, no client of the
\* run keeps the process alive, but one that a late attempt created.
NothingKeptOpen ==
  (runSettled = "flow" /\ \A a \in Attempts : Ended(a)) => clients = {} \/ LateAttempts # {}

(* The run of a flow comes out as it was: its files tell how it ended, its     *)
(* prompts do not meet in one session, and its command is not kept alive.      *)
FlowRunAccounted == FlowRunTypeOK /\ VerdictStands /\ SessionsKeptApart /\ NothingKeptOpen
==============================================================================
