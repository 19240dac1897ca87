# acpx: models, checks and proofs

acpx runs coding agents behind the Agent Client Protocol as *sessions* that
survive their processes. A command line talks to a long-lived *queue owner* per
session; owners, commands and sweeps share their state through files, locks,
sockets and signals, across containers that cannot see each other's processes.
This directory holds TLA+ models of the parts of that machinery that are
hard to test, the TLC runs that check them, and TLAPS proofs about them.

All paths below are relative to `src/` of the implementation, that is
`src/src/...` in PROJECT.json. Reading order: `IdentityFileLock`, `QueueLease`,
`Delivery`, `QueueOwner`, `TurnControl`, `OwnerClient` (an owner and its clients);
`SessionRecord`, `MessagesLog`, `SessionIndex`, `CoalescedSaves`, `OutputStyle` (what
is written of a session); `Archive`, `SeatArchive`, `SeatHolders` (where it is
kept, and who sits where); `Admission`, `SpawnLedger`, `Failover`, `FlowRun` (how it comes
to be and runs). The `MC...` modules only put instances together.

## 1. The system

```
 acpx command ──submit / close / cancel (unix socket)──► queue owner ──ACP (stdio)──► agent
      │                                                    │    │
      │  inspect, reap, stop                               │    └─ terminals, permissions, sub-agents
      ▼                                                    ▼
  lease file + socket file ◄──acquire, beat, repair──── owner process
      │                                                    │
      └── guarded by an identity file lock                 ├─ record file  ◄─ identity file lock (record)
                                                           ├─ index file   ◄─ identity file lock (index)
  sweeps: archive, compression, notices ─────────────────► ├─ messages log, event segments
  admission ledger (capacity) ◄── every create             └─ delivery sidecar
  seats.json, ledger of archived seats ◄── seat commands, sweeps
  spawn ledger (SQLite) ◄── a service that spawns sessions
```

| component | state | operations | what makes it correct |
| --- | --- | --- | --- |
| identity file lock (`session/persistence/identity-file-lock.ts`) | one file with its holder's identity, its age | acquire with a wait budget, judge, break, release | mutual exclusion; only a dead or very old holder is broken; an orphan is cleared |
| queue lease and socket (`cli/queue/lease-store.ts`, `lease-mutation.ts`, `paths.ts`) | lease file with generation and heartbeat, socket path, guard | acquire, beat, release, judge, reap, stop, repair | one owner per session; a live owner keeps its lease and its socket; a split brain ends |
| queue owner (`cli/queue/ipc-server.ts`, `cli/session/queue-owner-runtime.ts`, `runtime.ts`) | queue, buffer of mid-turn prompts, injected prompts, turn, closing flags | accept, inject, hand out, run, drain, deferred close, idle release, signal exit | every accepted prompt is run or answered once; nothing starts past a close; everything served |
| turn controller (`cli/queue/owner-turn-controller.ts`, `runtime.ts`, `acp/client.ts`) | the phase of a turn, a pending cancel, the client's prompt slot | begin, retry, cancel, inject, end a previous live turn | an accepted cancel reaches the agent; one live agent per session |
| client of the owner (`cli/queue/ipc.ts`, `session-control-requests.ts`) | the connection, a retry count | submit, retry, spawn or wait for the owner | a submission is neither lost nor run twice |
| session history (`session/messages-log.ts`, `repository.ts`, `conversation-model.ts`) | messages log, inline tail and pointer in the record, window in memory | boundary write, checkpoint, hydrate, compact, trim | every entry is read back once, in order, whole, after any crash |
| record repository (`session/persistence/repository.ts`, `*-merge.ts`) | record file, per-process baselines | locked read, merge and rename; reopening; the closing guard | a stale writer never undoes another writer's field; a close is undone only by a reopen |
| index (`persistence/index-update-queue.ts`, `index-overlay.ts`) | index file, pending set, timers | project, throttle, retry, overlay | the row follows the record |
| live checkpoint, sub-agent records (`session/live-checkpoint.ts`, `subagent-*.ts`) | pending save, timer, serialised chain | request, flush, drain | the last state requested is saved |
| output style (`session/recycle-session-owner.ts`, `runtime/engine/...`) | desired, applied and refused style on the record | set, apply, decline, recycle the owner | the style set last is taken up |
| session control (`cli/session/session-control.ts`, `terminal-close.ts`, `session-reparent.ts`, `handover*.ts`) | record fields, owner | close, reopen, fork, handover, reparent, notify | a close reaches the owner and the record in one order |
| archive (`session/archive/*`) | file sets in two directories, plain and compressed | move, restore, compress, thaw, reconcile, repair | one complete copy at every moment |
| seats (`session/persistence/seat-*.ts`, `cli/session/seat-activate.ts`, `session/seat-backfill.ts`, `cli/seats-command.ts`) | rows of `seats.json`, ledger of archived rows, holder marks and numbers on records | activate, heal, fill, fold and unfold, close | a row is in one place or the other; one holder; a number is given once |
| admission (`capacity/*`) | ledger of reservations, census of owners, queue of automation | admit, bind, release, expire | the budget holds; automation gets its turn |
| spawn ledger (`spawn-ledger.ts`) | SQLite rows with fences | reserve, adopt, revoke, save under a fence | one session per idempotency key |
| failover (`runtime/engine/failover.ts`, `runtime.ts`) | selection on the record, accounts tried | select, switch, defer a message, restore | each account once; the selection survives a failed task |
| flows (`flows/*`) | run.json, live.json, clients per binding | node, time out, heartbeat, interrupt, save | a step is accounted for once; nothing ended reads as running |
| background-task gate (`cli/session/background-task-*.ts`) | tasks seen in tool output | observe, settle, refuse close | an unforced close never cuts a live task |
| terminals (`acp/terminal*`) | process, output cap | create, output, kill, release | no output or exit lost |
| permissions, models, credentials, configuration, output | tables, files | decide, render | decision tables |

PROJECT.json lists every source file of the implementation that belongs to one of its 36 components, with a status.

What is hard in this system: a process may be SIGKILLed between any two system
calls; the two sides of a container boundary judge each other only by file ages;
every handler of the owner is asynchronous, so requests, turns and signals
interleave at each `await`; two files that must agree are written one after the
other; and many operations read a copy, wait, and write it back.

## 2. What is modelled, and how it corresponds to the code

A step is one stretch of code between two awaits, or one call of the file
system where other processes can see the gap. The order of guards, early returns
and error paths is kept; messages and payloads are abstract values.

### An owner and its clients

**IdentityFileLock.** Each process runs the acquire loop of `acquireIdentityFileLock`: create (hard
link, atomic with the content), on EEXIST read, judge, then for a break re-read,
compare and unlink (`removeLockIfUnchanged`), or wait until the budget. `file`
is the content on disk or `NoFile`; `seen[p]` the content the process compares
with; `age` and `waited` count ticks. The constants are the policies of the
callers: record, index and seats locks 20 s budget and 15 s staleness, admission
5 s and 4 s, the lease guard 2 s and 10 s. Only the order of budget and
staleness matters, so runs use 0..2 ticks. `Stamped` says whether the body tells two acquisitions of
one process apart (those of the lease guard, the index and the archive do; the
record lock's does not).

**QueueLease.** `main[o]` is the life of an owner process: acquiring (with its guarded reap of a
dead predecessor), listening, serving, closing, releasing, or in a signal
handler, step by step as `releaseQueueOwnerLeaseSync` does it. `aux[o]` is what
its timers do beside it: the heartbeat between its read and its rename, and the
socket watch between its probe, its close and its bind. Commands inspect, reap,
verify, signal and wait. `guard` is an exclusive lock that is free once its
holder is dead; the protocol behind it is `IdentityFileLock`. `age` is 0 (fresh),
1, or 2 (older than the 30 s after which another scope may judge). A member of `Owners`
is one incarnation; a restart is another member. The exit of an owner that finds
its identity changed has the same effect as `Crash`.

**QueueOwner and Delivery.** `QueueOwner` is one owner: the queue of `SessionQueueOwner` (`pending`, the
parked `nextTask` waiter), the runtime loop (`loop`: polling, in hand, opening,
prompting, settling, writing, boundary, resting, leaving), `midTurnBuffer`, the
prompts injected into the running turn (`steer`), drains and deferred closes
(`draining`, `closePending`, `deferred`, `drain[r]`), and what was written for each
prompt (`outcome`). An agent takes prompts during a turn and answers each, or
absorbs them (and may still answer or refuse one), or takes none. That an injected prompt has no outcome
yet is checked when its answer arrives (`SteerAnswered`, `runtime.ts` 2861) and recorded when the write has landed;
in between the end of the turn writes outcomes of its own (`CutInjected`, `WriteAbsorbed`). A prompt refused before its `accepted` frame leaves
no trace.

`Delivery` is the promise: an accepted prompt is in the queue, in a turn, steered
into one, settled, or dropped; an outcome that says *never delivered* (the client
may send it again) is written only of a prompt no agent saw, and as its only one; an owner that
leaves by itself or on SIGTERM forgets nothing it held. A prompt gets two outcomes in one case only: the turn it joined ends, or
the process is stopped, while its own answer is being written (`AnswerArrives`, `SpokenFor`, `Lands`, `LandsBeside`); both say
that it may have reached the model. `QueueOwner` implements it under the mapping
`Where` (the place of a prompt), with the outcomes and the end of the process.

**TurnControl.** The owner's `QueueOwnerTurnController` with the prompt slot of `AcpClient`: a turn
starts, attaches its client, waits for its context, sends its prompt, may be
tried again, and ends; messages are injected, answered at once or at the end according to the
harness; a cancel is refused, sent, or kept pending. Each `harness` answers an
injected prompt its own way (`claude` at the end, `pi` at once, `codex` when steered).
`StartingCancelReachesAgent` is that an accepted cancel is applied to the turn it
was accepted in; `OneLiveAdapter` that a later turn on a fresh client does not
begin while an agent of an older one still works.

**OwnerClient.** One sender that submits a prompt (`trySubmitToRunningOwner`, the retries of
`ipc.ts`, the spawn of an owner and the wait for it), one session close, and the owners they meet:
dead ones, closing ones, ones that gave up their lease for another's. An owner is what
`QueueLease` and `QueueOwner` leave visible to a client. `TakenAsTold` relates
what the sender is told at last to which owners have accepted its prompt.

### What is written of a session

**SessionRecord.** `disk` is the record as the field groups that the merge tells apart: `closed` (its time, or
`Open`), `reopened` (the warrant), `template`, `parent`, `holder`, `pin`. A member of
`RecordCommands` is a process that reads the record (`Resolve`), changes its copy (`Change`: a
close, a reopen, a template mark or its removal, a re-parent, a seat holder, a model) and
writes it, each after any delay. The owner has one copy that its turns, guards and live
checkpoint share, which takes the session for open once the agent is connected (`OwnerConnects`), and several saves under way at once (`OwnerWrites`). `WriteRecord` is the whole of
`writeSessionRecordInternal` under the record lock: the groups the writer does not own are taken
from the disk, the pin is merged against the baseline, and `closed` is cleared only by a
warrant newer than the close on disk. The end of the write, where the baseline is
remembered, is a step of its own (`SaveEnds`), because the index update is awaited before it.
`now` is `isoNow`, shared and possibly standing still, so that two events may have one time.

**MessagesLog.** `log` is the file of lines, `record` the pointer and the inline tail on disk,
`copyOf[h]` a process's record and conversation in memory, `write[h][w]` a boundary
write or checkpoint under way, `chain[h]` the appends that wait for each other in
one process. A boundary write reads the slice to log (less the entry still
streaming), repairs the file's length to the pointer, appends, moves the count,
may compact, then serialises and renames the record under its lock. A reader
drops from the inline tail what the log holds past the pointer. The pointer
counts lines of one length, `count` and `base_index` are left out, and the
conversation and the record are one array, as `applyConversation` makes them.

**SessionIndex.** One row of `index.json`, as groups that carry the number of the record write that last changed them, next to the
record `onDisk`. Each process has an entry in its dirty set (`dirtyEntry`), a trailing or retry timer (`flushTimer`), callers
inside `flushDir` (`wanted`), and jobs for the index lock (`job`, `line`): a flush, the overlay
of a re-parent, and a template mark, which holds the lock while it writes the record and flushes that.
The lock file is exclusive and free once its holder is dead; `Others` is the writers of
other sessions. `dropped` is history: the groups whose update somebody gave up (a time-out of an
overlay, an error, the end of a process), which the code reports and leaves to the record's next write.

**CoalescedSaves.** The live checkpoint of a turn (`request` after a change, a timer, one save at a time, a flush that
joins the save under way) and the record of one sub-agent (batches that arrive while it is saved, the final
save when its task completes). A state is the number of changes it contains.

**OutputStyle.** The record's desired, applied and refused style; an owner with its own copy of the
record, whose client was built with a style; the three places that notice a difference and recycle
the owner (before a turn, at idle, by the command that set the style); commands that set a style between
the owner's read and its write. `MayDecline` lets the harness refuse a style.

### Where it is kept, and who sits where

**Archive.** One session of two files, its record and its messages log, in the hot and the archive
directory, plain or compressed. Jobs (an archive run, a restore, a compression or thawing sweep, a
reconciliation, a repair) do one call of the file system per step and may be killed between any
two; one rename may fail. A repair takes the files in the order of the manifest's rows, which is the one of their names, so a
record comes before its transcript or after it (`Locate`). A restore that finds a leftover in the archive reads it, compares it
and removes it or puts it aside in calls of their own. The content of a file is the number of lines that somebody wrote into it, so an
old copy differs from a new one.

**SeatArchive.** The row of one seat, in `seats.json` (`seatRow`) and as a file of the archive's ledger
(`ledger`), while its holders move between hot and archived. `rec[r]` is one reconcile from its reads
of store, ledger and tiers over its plan, the write of the ledger file, the hold of the store's lock (one
step: everything in it is synchronous), the deletion of a ledger file and the recheck of raced holders. Rows
carry what must survive: the star of the seat, its counter and its edits. Edits, activations and a backfill write the row
under the lock of the store.

**SeatHolders.** The sessions of one seat: the pointer of the row, its counter, and on each record the mark of the
holder and the number. An activation reads successor and predecessor, retires one, draws a number and
points at the other in one hold, and marks it, each write under the lock of its own file only; it first
heals what an earlier one has left (`HealReads`, `HealRetires`, `HealDraws`). A backfill marks a holder and
then points at it, sessions join, close and reopen, and `seats close` vets the holder before it takes
the lock. An activation or a backfill may be cut off between any two writes.

### How a session comes to be and runs

**Admission.** Create commands of agents and of automation in a box with a memory budget: the ledger of reservations under
its lock, the census of live owners that measure themselves, the queue of automation that waits
for room, and the reservation's life: admitted, bound to its owner, replaced by a measurement, expired, lost.
A live owner is matched with a reservation by the session id in it (`Matched`), which is there once the create has bound it, and from
admission on for a create with `--record-id` (`Named`).

**SpawnLedger.** The rows of one run: its attempts, each with a fence, the child process with its
image of the session record, the lease, and the receipts, with a crash between the rename of a record and the COMMIT. An
operation is one step (`BEGIN IMMEDIATE`). The service that calls these operations is not part of this
repository, so it may call anything at any time.

**Failover.** One task of a session with several profiles, some of which share an account: what is selected before
the first attempt (locks, availability), the loop over the other accounts after a limit, the
messages injected meanwhile that a limit refused (they wait for the end of the turn and are tried
again with failovers of their own), and how the selection of the record comes home.

**FlowRun.** A run of `flows/runtime.ts`: the loop over the nodes, the promise of each node's function, which goes on after
a time-out has ended its node, the heartbeat, an interrupt, the saves of `run.json` and `live.json`, and the persistent
session clients of a binding. Which node comes next is left open. `FlowRunAccounted` names what is accounted:
attempts and their end, the status on disk, and the clients, with the exception of nodes that timed out.

## 3. The runs

Twelve runs. Most put two or more models side by side in one module: they share no state, the
variable `part` picks one of them at the start, and a behaviour is one of that part only, so
a run checks each of its parts as if it were alone.

| run | parts and instances | shows |
| --- | --- | --- |
| `shared_files` | lock: 3 processes of one scope, 2 acquisitions each, 2 deaths. log: an owner and a closer, 2 writes each, 5 entries, window 3, compaction above 3 lines, an end of a process. row: 2 reconciles that run 3 times over 2 holders that move twice, an edit, a cut-off, a backfill. spawn: 2 attempts, 3 programs, a torn commit | `MutualExclusion`, `LiveLockLostOnlyToLateUnlink`; `HistoryStands`; `SeatRowKept`; `SpawnsFenced` |
| `holders` | lease: 3 owner incarnations and a command in one scope, 1 outside removal of the socket. seat: 2 activations over 3 sessions, a backfill, a close or reopen, a cut-off | `OneOwner`, `LiveOwnerKeepsLease`, `ServingSocketKept`; `SeatHeld` |
| `owner_process` | lease: an owner in each of two pods, a command, fair. turns: 3 kinds of harness, 2 turns, 2 injected messages, a retry, a cancel | `TakenOnlyFromTheSilent`, `OwnersSettle`; `StartingCancelReachesAgent`, `OneLiveAdapter` |
| `session_owner` | queue: 3 prompts (first and last wait for completion), 2 closes of any kind, queue of 1, the three kinds of agent. index: the owner, a re-parent, a close with its mark; 2 record writes, 1 hold by others. saves: 4 changes, 3 batches of a sub-agent. style: 2 setters, 2 styles, 2 prompts, refusals. All fair | `OneCustody`, `HandedOutOldest`, `NothingStartsWhileClosing`, `UnforcedCloseSparesTasks`, `Deliveries` (refinement), `QueuedServed`; `RowFollows`; `NothingForgotten`; `StyleTakenUp` |
| `commands` | client: a sender and a closer, 3 owners, 2 spawns, 3 submissions, a death. capacity: 2 agents (one with `--record-id`) and 1 automation, room for two, one loss, kill and expiry each. lock: 2 scopes, a file left by an unidentified holder, 1 death. All fair | `TakenAsTold`, `SenderAnswered`; `NothingPromisedTwice`, `AutomationStarts`; `StaleFilesBroken` |
| `session` | record: 2 commands of any kind, an owner with 2 saves at once, 2 times. archive: 4 jobs, two of them killed, a failed rename. failover: 4 profiles of 3 accounts, an injected message, an expiry, a change of lock. flow: 2 attempts, a heartbeat, a failed write or a signal | `OwnedGroupsKept`, `ClosedUntilReopened`, `PinRegressedOnlyByOverlap`; `ArchiveKeepsFiles`; `SelectionComesHome`, `DeferredToldOnce`; `FlowRunAccounted` |
| `owner_told`, `log_close`, `archive_clobber`, `style_applied`, `failover_terminals`, `seat_archive` | small instances of one module | one violation each (section 6) |

Each run also checks the type invariant of its parts (in `holders` as part of `SeatHeld`; the
types of the lease are checked in `owner_process`).

Some properties are conjunctions that tell one story:

* `HistoryStands`: every entry is read back once (`EachOnce`), none that was promised is lost
  (`Kept`), and what is logged is whole (`LoggedWhole`).
* `SeatRowKept`: a row is in neither place only where two reconciles crossed (`LostOnlyWhereCrossed`), the last
  edit survives (`LastEditKept`), reconciles that finish alone leave the row where its holders are
  (`SettledAlone`), and no seat with a hot holder stays in the ledger (`NoneBehindHotHolder`).
* `SeatHeld`: the marked session is the one pointed at once things settle (`MarkedIsHolder`, `ActivationSettles`), numbers are
  distinct and never change (`OrdinalsDistinct`, `OrdinalIsALabel`), and a seat is not closed over an open holder
  (`ClosedOverNoOpenHolder`), each but for the exceptions below.
* `Deliveries`: `QueueOwner` implements `Delivery` (section 2), whatever answers and refusals injected prompts get, and when.
* `QueuedServed`: the queue runs empty again and again unless the owner is killed, and a close recorded for the end of the turn
  does not wait for ever; no owner decides to go over a recorded close. Not covered is a close recorded after that decision
  (`Going`): it is forgotten with the process, and section 6 says where.
* `OwnersSettle`: of two owners that think each other gone one ends, a
  lost socket comes back or its owner ends, and a start ends. `TakenOnlyFromTheSilent`: a lease is overwritten
  or reaped across pods only if its heartbeat was old when it was judged.
* `StaleFilesBroken`: a holder of another scope is broken only when old, and an orphan is
  cleared, or its waiter gives up within its budget.
* `RowFollows`: the row shows every group of the record or the update is recorded as given up, it never goes back to an
  older write, and in the end it catches up.
* `NothingForgotten`: a flush that resolves has written what was in memory when it was called, and every request is
  followed by a save of its state or of a later one, or by a reported failure.
* `StyleTakenUp`: the style set last stands on the record, and a pending one is applied or refused.
* `ArchiveKeepsFiles`: each line of the transcript is in some copy at every moment, only one directory holds the
  record, and what a crash has split can be put together again (`OneWholeCopy`), but after a repair that was cut off between the record
and its transcript (`parted`); a repair that nobody disturbs
  leaves each file where its last row says (`RepairFoldsBack`).

Why the bounds are enough. *Locks*: the races need a holder that dies, a waiter that
breaks and a waiter that is late, hence three processes; a second acquisition by
the same process is what an unstamped body confuses. *Leases*: a dead owner, its
successor and a third to succeed it, with one command; the age has three values
because the code compares it with one threshold and a heartbeat resets it.
*Owner*: one prompt in hand, one queued with the queue full, one to be turned away or injected;
two closes, because closes interact in pairs (`closePending` and `deferred` are one flag and
one slot). *Turns*: a turn that leaves work behind and one that meets it, two injected messages
because one can be answered while the other is open. *Client*: an owner that closes, its successor, and the one after it. *Log*: window 3 and compaction at 3 so that trimming, compaction and a
non-empty tail happen together in five entries; one process ends, at any call, and the
others meet what it left. *Record*: the merge compares a copy with
the disk, so two writers and the owner's two overlapping saves meet in every order; two
times tell a close from a reopen that is later, and from one within the same tick. *Index*: two record writes make one projection older than another; one hold by others lets any one
job time out. *Archive*: an archive run, a restore and a repair that fall between each
other's calls, and a sweep or second repair that meets what they left. *Seats*: two processes of each kind, with the third run of a reconcile to
meet what two have left, and a third session to be numbered after two. *Admission*: room for two, three who want it. *Failover*: two
profiles of one account, so that skipping an account differs from skipping a profile. *Spawn*: two fences
are what one stale writer needs. *Flow*: a node that timed out and the one after it.

Symmetry is used over names of writes, of commands and of reconciles in runs without liveness. In larger instances, not
kept as runs, `SeatHolders` was also checked with three activations' worth of runs (1.9 million states).

Exceptions. Some passing properties name a case in which they do not hold; each is
reached in its run, and section 6 says what it means: `LiveLockLostOnlyToLateUnlink` (the unlink of an overtaken breaker),
`UnforcedCloseSparesTasks` (a deferred close performed while another is pending), `PinRegressedOnlyByOverlap` (overlapping
saves of the owner), `QueuedServed` (a close recorded as the owner goes), `AutomationStarts` (owners that run before their create has
bound its reservation), `ArchiveKeepsFiles` (repairs that cross other jobs, or part a record from its transcript), `StartingCancelReachesAgent` and `OneLiveAdapter` (a retried attempt; a prompt slot cleared early),
`SelectionComesHome` (a switch that throws), `FlowRunAccounted` (a node that timed out, an interrupt, a heartbeat in flight),
`SpawnsFenced` (a crash in a receipt), `SeatRowKept` and `SeatHeld` (crossing reconciles, racing activations).

`CHECK_DEADLOCK FALSE` is set in every passing run: processes die, an owner exits, and bounds
exhaust the prompts, so a behaviour may end. What must not stop is stated as liveness.

### Fairness

* Lock (`commands`): time passes and a process in the loop takes its next call (`WF`): it is
  a program that runs. No process must start, and none must hold for ever.
* Lease (`owner_process`): the acquire loop is strongly fair, since it polls a guard that is free
  again and again; exits and the second halves of timers run on (`WF`); the heartbeat
  (5 s interval) and the socket watch are repeating timers that find the guard taken
  now and then (`SF`). Nothing forces a crash, a signal, a command or a death.
* Owner (`session_owner`): the loop and the turn go on (`WF`): a turn ends by an answer, an error,
  a cancel or the watchdog; steers that were sent end with it; drains are
  polls with a deadline. No fairness for submissions, closes, signals, background
  tasks or waits that time out.
* Client: the sender and a close that began take their next step, an owner its own, and a turn of somebody else ends (`WF`): all
  have deadlines. Nobody must begin a close, and no owner must die.
* Index: a process takes its next call, its timers fire, and writers of other sessions release
  the lock (`WF`), which they take `MaxHolds` times; a waiter polls, so it gets a lock that
  is free again and again (`SF`). No fairness for writes, errors, time-outs, exits or crashes.
* Saves: timers fire and a save ends or fails (`WF`). Style: the owner's loop takes prompts and its boundary and
  idle steps, and a command that set a style goes on (`WF`).
* Admission: waiting automation decides again (it polls), and a create that was admitted goes on to its end or
  its loss (`WF`); sessions end. Agents are not forced to create, nor to stop.
* All other parts have no fairness and make no liveness claim. Where parts share a run, a condition of one part speaks of its own
  behaviours only (`WF(part = "x" /\ A)`).

## 4. Proofs

All for any values of the constants. The assumptions are the ASSUME of each module, which only say what kind of thing a constant
is, and the hypotheses named below. Each bullet gives the inductive invariant a theorem needs beyond the types
(`TypeCorrect`, or the part of the invariant called `Shape`) and why; a lemma per action, or per group of actions that do
the same to what the invariant reads, shows that a step keeps it.

* `IdentityFileLockProofs`. `BreakersAlwaysRight` (`[]BreakersJudgedRight`) is
  inductive by itself: a verdict "breakable" about a process of one's own scope
  needs that process dead, and the dead stay dead. `LiveLockAlwaysKept` (`LiveLockLostOnlyToLateUnlink`) follows from it.
  `Exclusion` (`[]MutualExclusion`): with
  one scope, an identified first file and nobody dead, no process ever reaches a break (`NobodyBreaks`),
  so the file belongs to whoever holds, a releasing process included; both
  facts are carried as one invariant. Two safe parts of `StaleFilesBroken`: `UnjudgeableAlwaysOld`, if the body carries a time (`Stamped`): no acquisition
  makes its content twice (`Spent`), so what a breaker still finds is the file it judged and no younger one (`SeenIsOld`; without the time a
  second file can look the same), and `OrphanNeverOutlasts`, if the budget is above `staleMs` (as for every lock but the lease's guard): the age of an unattributable file stays above the time waited for it (`OrphanAges`). Of `Admission`, `AdmissionTypeCorrect` and `NothingEverPromisedTwice` (`NothingPromisedTwice`): where a create is
  says what its session and its reservation may be (`Ways`), each session on its way that no reservation stands for is one mishap's
  (`LostByMishap`), what is promised is charged but for those (`PromisedIsCharged`), and no step but an admission promises anything
  (`Eases`, `StepsEase`). Memory is a number of units, the sum over a set of sessions the number of its pairs of a session and a unit, so that
  the library's facts about finite sets are facts about sums; `Creates` is finite.
* `QueueLeaseProofs`. `OneOwnerAlways` and `LiveOwnerAlwaysKeepsLease`, under
  `OneScope`: `IInv` adds who holds the guard in each
  section (`GuardHeld`), that the lease of whoever stands as owner is its own
  (`LeaseStands`), that a heartbeat in flight renames over its own lease or over none
  that matters (`RenameHarmless`), that whoever a reaper or command has judged is dead
  (`JudgedDead`), and that a lease names a born owner (`LeaseBorn`). `ServingSocketAlwaysKept` (`ServingSocketKept`), in one
  scope too, needs that no lease is published between the removal of one and that of its socket (`ReapedEmpty`), and that only an owner
  whose socket is not there closes its listener to open it again (`ReopenLost`). `AlwaysTakenFromTheSilent` (`TakenOnlyFromTheSilent`) holds in any scopes, for processes that are never stalled longer
  than the guard's staleness (`LongPauses = FALSE`: a guard older than `GUARD_STALE_MS` is broken under its holder):
  `Honest` adds to `GuardHeld` and `RenameHarmless` that an owner judged silent is silent still (`SilentStill`), for its heartbeat
  waits for the guard the judge holds.
* `QueueOwnerProofs`. `NothingEverStartsWhileClosing`: what a step that fills `hand` must have
  read, and that a sleeping loop (`parked`) has no recorded close, because
  `scheduleClose` wakes it (`ParkedIsFree`). `AlwaysHandedOutOldest` (`HandedOutOldest`): the queue and the buffer are in order of arrival
  and behind what was handed out (`Ordered`), and a loop sleeps over an empty queue only (`ParkedHasNothing`); what a step may do to the
  queue is one formula (`QueueMoves`). `CustodyIsAlwaysOne` (`OneCustody`): a prompt in hand is in the loop's care
  (`HandIsBusy`), no prompt is in two places (`Apart`), and one without an outcome is in one of them while the owner is
  up (`Kept`). `UnforcedCloseAlwaysSparesTasks`: a request that settles has begun the drain that bars new turns (`SettlingDrains`).
  `DeliveriesAreKept` (`Deliveries`: `QueueOwner` implements `Delivery`), for agents of every kind and answers at any time: a prompt has no outcome before it is
  settled, but for one whose own answer is being written, which has one at most (`Untold`), and nothing is held once the owner is closing (`Emptied`).
  Every step of an owner that goes on gives each prompt a `Fate`: it rests, comes in, goes on from the queue, is told that it never reached the
  agent, is done, is answered, is spoken for by the end of its turn, or its answer lands. A fate for all is a step `Serve` of `Delivery` (`FateServes`); the three ends of the process are its `Leave`, `Stop` and `Crash`.
  Of the client, `ClientTypeCorrect` and `AlwaysTakenAsTold` (`TakenAsTold`): one owner at most has the prompt, in its queue only while it is
  up, and none has it while the sender is between two submits, is about to read that it was turned away, or was told so (`Submitted`).
* `TurnControlProofs`. Every turn that runs has a number, and one in backoff a retry left (`Numbered`). `OneAdapterAlwaysLive`
  (`OneLiveAdapter`): the prompt in a client's slot is the last one on its wire (`SlotIsLast`), and as long as no slot was cleared early, work
  of an adapter shows in its client's slot and belongs to the client of the turn (`SlotShowsWork`, `WorkIsCurrent`).
  `StartingCancelAlwaysReachesAgent`: the main prompts on a wire are older than one still to be sent (`MainsPassed`), and a cancel accepted while a
  turn starts is pending until the prompt goes out (`CancelKept`).
  Of the task and its failover, `AlwaysComesHome` (`SelectionComesHome`): the record is on the target, the copy or the original as the
  failover's place says (`WayHome`), and no account is tried twice (`EachTriedOnce`). `DeferredAlwaysToldOnce`
  (`DeferredToldOnce`): a message is put aside once, and has its terminal when it is no longer put aside nor at work (`ToldInTurn`).
* `MessagesLogProofs`. `HistoryIsKept` (`HistoryStands`), for a session that is not closed while it has an owner (`CloseOverlaps = FALSE`; with
  `TRUE`, `log_close` is the counterexample), any window, compaction threshold and number of entries, writes and ends. Everything is compared with one
  sequence, the conversation as the process with a copy has it: the log up to its pointer, then what it has not logged (`Live`). A copy goes on where the
  log ends and has the end of it (`CopyFits`); a write under way adds only what comes next, never the entry that streams (`Fits`), because one write at a
  time is at the log (`OneAtATime`). The record, and the image a write is about to rename over it, is a less advanced state of that sequence (`Under`,
  `RecordsFollow`): each step but a compaction makes the sequence grow (`Grows`, `Onward`), so what was behind it stays behind, and the history that the
  reader's repair makes of record and log only advances (`HistoryGrows`). Nobody needs to hold a copy for this: when the last one goes, record and
  log are what the next is made of (`Aligned`, `HydratedFacts`). What was put on disk is in the sequence, or a window of later entries is
  (`CopyRemembers`); a compaction keeps just that (`WindowRemembers`), and makes every image taken before it unusable until its own record is
  written (`Current`, `Steady`), which is where `HistoryStands` is silent. A part of an entry reaches the log only if nothing has it whole (`PartsStayParts`).
  The invariant (`LogInv`) was an invariant of the bounded runs before it was proved.
* `SessionRecordProofs`. `OwnedGroupsAlwaysKept`, from what the
  composed merge leaves of the disk's groups (`MergedShape`) and from the fact that only a
  write touches the disk (`OnlyWritesTouchDisk`); `AlwaysClosedUntilReopened`
  also needs that a template mark leaves the record closed in
  the copy it is about to write (`MarksClosed`); `PinAlwaysRegressesByOverlap` that the copy of a command has the pin it read or
  its own choice, and the owner's the pin it remembers or its own, unless one of its saves is between write and memory
  (`PinsKnown`; `MergedPin` is what the merge does to a pin). `Fenced` (`SpawnsFenced`) adds to the types that an attempt
  below a used fence is
  revoked or settled (`Superseded`), that at most one is adopted (`AdoptedOnce`), and that a record is orphaned only for a
  run that is adopted, whose own record is no longer pending (`Marks`).
  Of a flow's run, `FlowRunAlwaysAccounted` (`FlowRunAccounted`): for each place of the loop, which function may be under way
  (`OneFunction`), whose client is open (`ClientsHeld`), who saves and when the run is settled (`Ending`), and which of the two files has
  caught up (`LoopWrites`, `LiveWrites`, `Told`).
  Of the archive, `ArchiveTypeCorrect` and `ArchiveAlwaysKeepsFiles` (`ArchiveKeepsFiles`, both halves), without a bound on jobs, kills, failed
  renames or lines. The workers share no lock, so the argument is about time: a restore makes the session recent (`graced`), a write makes it touched, and
  neither passes while a worker is between two calls; so no run is planned beside a sweep that found the session in the archive, and only a restore takes a
  form from under a sweep (`Apart`). A run and a restore never both have the transcript (`ArchiverOwns`); the forms in the archive are
  either gone or what a sweep or a restore has read, and the lines of a form are elsewhere before it goes (`SweepKeeps`, `RestoreKeeps`). A session that
  was moved in part is told by its rows (`RowsTell`), because a restore has written its rows before it places, and a run before it moves (`RestorerOwns`,
  `ArchiverRows`). A repair that is alone has read the rows as they are (`AloneMeans`), moves what it has seen (`RepairKeeps`), and has folded
  each file it is through with (`RepairFolds`). The invariant (`ArchiveInv`) has four layers: the journal and the one record (`JournalOpen`,
  `OneRecord`) survive anything, the transcript's part holds until a file is `clobbered` or `crossed`, what the rows tell until one is also `late` or
  `skipped` (`LeftAlone`), and that the rows of record and transcript agree (`RowsAgree`) until a repair has `parted` them too (`Straight`). TLC checked
  an earlier form of it, with the first three layers, with up to five jobs and in long random runs, before it was proved.
* `SessionIndexProofs`. `RowNeverGoesBackAlways` and `StaleIsAlwaysOwed`, the two halves of `RowFollows` that say what is safe, for commands
  that may each write, re-parent and mark and an owner that only writes (`IndexAssumption`: the code re-parents and marks from
  commands). Only the head of a process's line is past waiting, and then the process has the lock (`LineSound`, `LockKept`); a
  flush outside the line runs within the mark at the head and somebody waits for it (`NestedWanted`); so one update is under
  way at a time (`OneUpdate`), and what it has read is no older than the row and no newer than the record until it is written
  (`FreshBetween`), whoever writes the record meanwhile. A write that makes the row stale leaves an entry, a timer or a job behind,
  and each step that takes one of them brings the next or gives the update up (`dropped`). A process that is gone owes nothing (`GoneIsEmpty`).
  `NothingIsDropped`, the safe part of `NothingForgotten`: a save that has read an older state leaves the record dirty, and only the turn's own
  first checkpoint runs with nothing armed behind it (`SavesKnown`); a sub-agent's last state is the pending one, else the one being saved, else on disk or told (`ChildKnown`).
  `LastStyleAlwaysStands`, the safe part of `StyleTakenUp`: the record names the last setter's style (`StyleInv`), since a turn's save overlays it from the disk.
* `SeatProofs`. `SeatRowAlwaysKept` (`SeatRowKept`): what a reconcile planned it has read (`PlansRead`), a fold in its hold has its file
  and a file is deleted beside a row that stands (`RowSomewhere`, `FoldsStand`), a seat behind a hot holder is waited for
  (`Covered`), and what a reconcile has read still holds as long as nobody wrote beside it (`ReadsStand`, `EditStands`) or
  nobody moved at all (`QuietKnows`). `SeatAlwaysHeld` (`SeatHeld`): a number is claimed for one session by its record and by every
  copy that may be written to it (`ClaimsDistinct`), and an activation draws one at most (`NumbersBounded`); whoever the pointer or a process
  names is there (`NamedAreThere`); where processes come one after the other, what one has read is what is on disk (`OneAfterAnother`);
  and a close that may close the seat has seen its holder closed (`VettedClosed`).

Trying to prove `SeatRowKept` showed that its exception `replaced` was too narrow: TLC finds the case with three moves and four
reconciles, beyond the bounds of its run. It is stated as it is now since. Trying to prove `DeliveriesAreKept` showed that the place of a prompt in
the refinement (`Where`) was a `CASE` whose arms overlap, which TLC reads in order and TLA+ does not; it is a chain of `IF`s since, and so is the same
form in `CoalescedSaves`. A proof of `ArchiveKeepsFiles` as it stood, checked by TLC with up to six jobs first, failed three ways, all with
a repair. Its renames go by rows read before and take a file from between two calls of others: with four jobs, a restored transcript is moved
back to the archive between a sweep's comparison of two identical forms and its unlink, after the restore has removed the compressed one, and
no copy is left. With more, a restore planned early writes its rows late over those of a later archive run, and no repair brings the record and its
transcript together. And a repair that finds a plain and a compressed form moves the plain one and leaves the other beside it, for the next
repair. So `OneWholeCopy` names a repair that moves a file after something else has moved (`crossed`), although
`operations.ts` 1224 calls it safe to run concurrently with a normal run, and `RepairFoldsBack` the form left beside. A fourth
case came with the order of a repair's files (section 6, `parted`). So stated both are proved.

Only model-checked: liveness (no prover here reasons about fairness and `ENABLED`), with it `OwnersSettle`, `AutomationStarts`, `QueuedServed`, `SenderAnswered`
and the liveness of `RowFollows` (a row catches up), `NothingForgotten` (a change is taken up), `StyleTakenUp` (a pending style is) and `StaleFilesBroken`
(the lock of somebody dead in one's own scope goes while another wants it), whose safe parts are proved; and the type invariants
of the modules that put models side by side, whose parts are proved where the module of the part has a `TypeCorrect` theorem (`LogTypeOK` has none:
a log with broken lines is read through `SelectSeq`, and what that gives is an induction over the log; `HistoryIsKept` proves that there are none,
and `LogShape` the types, until a compaction is cut short).

Each leaf of every proof is split until it takes about a third of the time it is allowed, so that a slower or busier machine proves it too.


## 5. Left out of the modelled parts

* Lock: a guard waiter's budget (2 s) is shorter than its staleness (10 s), so a guard left by an
  unjudgeable process delays and fails starts until somebody comes later; the fair run uses the
  opposite order, the one of the record, index, archive and admission locks. `QueueLease` has `GuardTimeout`.
* Lease: spawning of the owner, its readiness deadline, the status fields.
* Owner: failover retries of a turn or of an injected prompt (see `Failover`), the terminals' codes, the
  stream and record writes of a turn, the deferral of injected prompts. `FatalSignal` is
  one step that settles what is held and may cut the writes under way anywhere.
* Turn controller: requests for mode, model and close through it; what a turn does with its answers is in `QueueOwner`.
* Client: the control requests for mode, model, depth, configuration and tasks; request parsing.
* Log: removal of the log from outside; an owner with more than a window (200) of
  unlogged entries (`RoomToSay`); a record lock broken while its holder lives.
* Record: the merge of metadata, favourites, names and the last provider; records that cannot
  be read or dated (`resolveMonotonicityBasis` falls back to the file's time); the archived-record guard.
* Index: membership, rebuild and reads of the index; several records in one dirty set (an error drops
  all of them); a row whose record cannot be read.
* Style: the hold of background tasks on an idle release; the setters of profile and subscription, which refuse an
  active turn but leave the gap between question, write and recycle.
* Archive: corruption of compressed files, files skipped for size or ratio, space checks, directories on two devices,
  shards and the index, orphans and companions, explicit ids. Only the grace looked up when a run is planned protects a session
  just restored: rename keeps the file's time and decompression restores it, although `move.ts` and `liveness.ts` speak of
  a touched file.
* Seats: index projections of an activation and the index lag in its heal, kinds, archived holders, malformed files, notices,
  the reaping of seats without holders, and the brick, name and favourite legs of a backfill.
* Admission: the guards G3 and G4, where the budget comes from, classes that are not gated, creates let through
  when the gate fails, the successor's exemption, a new container instance, and prompting a finished session again (never gated).
* Spawn ledger: schema, identity of the instance, busy waits, writes by copies that carry no spawn key, and the release
  of the first prompt (`releaseInitialPrompt` looks at the receipts before an await and submits outside the lock).
* Failover: the short cut of one model, the weekly ceiling, interrupts, portability and harnesses that have no
  accounts, how targets are ranked.
* Flow: isolated sessions, artifacts, traces and steps.json, permission checks; "failed" stands for timed out too.

Not modelled, and why: permissions, model matching and configuration are decision tables over strings; harness
configuration, credentials and routing write files for third-party programs; the command line, rendering and the
public façade keep no state of their own; agents are the environment.

## 6. Findings

Each has a run; PROJECT.json quotes the statement it contradicts.

1. `log_close`: a close writes a record read before it stopped the owner: what the owner stored meanwhile leaves the record.
2. `archive_clobber`: a repair moves a file whose last row says "restore" out of the archive without looking at its destination;
   the file it finds is an old copy that a decompression sweep committed late, and it replaces a log written since.
3. `style_applied`: what a client was built with is recorded from the options of the turn, which are younger.
4. `failover_terminals`: a turn that hits a limit writes the failed terminal of its delivery, and the turn tried again on
   another account writes one more for the same delivery.
5. `seat_archive`: reconciles share no lock: a fold writes the ledger file, a restore's reconcile sees the row, the fold
   removes the row, the other deletes the file. Nobody crashes, and the row of the seat is gone.
6. `owner_told`: an absorbing agent answers an injected prompt while its turn ends. The answer finds no terminal for it
   (`runtime.ts` 2861) and is being written; the flag is set after the awaited write, so the end of the turn finds none either
   and writes one too, although "the exactly-one-terminal invariant is held by terminalDeliveryKeys, which suppresses any late IIFE
   terminal for the same delivery" (`runtime.ts` 3853).

The exceptions that passing properties name:

* `LiveLockLostOnlyToLateUnlink`: two waiters break one dead holder's lock; the second unlink
  (`identity-file-lock.ts` 194) removes the lock the first has just created, and two processes run the critical
  section (`record-file-lock.ts` 32: a live holder "is never broken at any age").
* `UnforcedCloseSparesTasks`: `drainDeliveries` (`ipc-server.ts` 532) skips the check for background tasks when
  another close is pending, so a deferred close commits over a live task.
* `QueuedServed`: a close that is recorded once the owner has decided to release itself, or while it rests after a turn or records
  another close, is forgotten with the process: the owner looks for one at a turn's end and after an empty wait only
  (`queue-owner-runtime.ts` 1648).
* `ArchiveKeepsFiles`: a repair moves files in the order of their names (`operations.ts` 1249), so it may move the record before its
  transcript. Killed between the two, it leaves a record in the hot directory whose transcript is archived; a restore then finds the record
  alone and writes a row for it only, and the next repair, going by the rows, leaves or moves the transcript to the archive: a
  visible session without its history, after nothing but repairs and a restore ("IDEMPOTENT, AND SAFE TO RUN AT ANY TIME",
  `operations.ts` 1224; 1232 relies on the "companions-before-anchors ordering" of the moves, which its own do not have). Also
  the repair that crosses another job (`crossed`, section 4).
* `AutomationStarts`: an owner that is prompted before its create has bound its entry is charged for what it measures and for the
  reservation (`pending.ts` 57 compares session ids; the entry has none yet). Sessions that do so again and again may each take the
  slot the agents have left for a waiting automation.
* `PinRegressedOnlyByOverlap`: the first of two overlapping saves of the owner adopts a pin from disk and
  remembers it only later; the second takes it for a choice of its own and writes it over a
  newer pin (`model-merge.ts` 53: "a stale writer can never regress a model another writer pinned").
* `StartingCancelReachesAgent`: the pending cancel is applied when the prompt of attempt 0 goes out (`runtime.ts` 3716), so one
  accepted in the backoff of a retry is never applied. `clearedEarly`: an injected prompt that settles first clears the slot of
  the live main prompt (`client.ts` 2776): a later cancel is kept pending and never sent, and for pi and codex
  the next turn does not see that the old one still works (`OneLiveAdapter`).
* `SelectionComesHome`: a switch of account that throws in the loop leaves the record on the target that failed before it.
* `FlowRunAccounted`: only after a node timed out do two prompts meet in one session, is a prompt sent over another session's
  client (`flows/runtime.ts` 1085: two creations for one binding overwrite each other, and the first client is never
  closed), or is a client created after the run closed them. An interrupted run may stay "running" on disk, since the run goes on beside
  the write of its failure; a heartbeat in flight when a node ends puts "running" back into live.json.
* `SpawnsFenced`: a crash in `confirmSpawnReceipt` leaves a record "orphaned" without its conflict; a revoked attempt may be adopted while
  a higher fence is reserved, whose child may then be launched and write too.
* `SeatRowKept`: a hold compares only pointer and star, so a fold over an edit made since the plan writes the older
  name (`mixed`); a fold writes its ledger file over the one of another row, which it may even have read, and whose holder comes back
  meanwhile ("No ordering leaves the seat in the ledger behind a hot holder" does not hold then: `replaced`).
* `SeatHeld`: of two activations, the later retires the session that the earlier then marks: a retired holder stays marked,
  and a number erased so is drawn anew for that session. A fill cut off between mark and pointer leaves two marked sessions after the next
  activation (`types.ts` 1425: "At most one record per seatId may carry true"; `OneActiveMirror` states that, and is no property of a run).
  A holder reopened between its vetting and the hold is closed under.

Seen while modelling, and shown by an earlier state of a run; the models still contain them:

* `lease-store.ts` 758: a command in another pod judges a silent owner outside the guard, the owner beats, and the command deletes a
  fresh lease: the guarded re-read compares the generation but not the heartbeat (`lease-mutation.ts` 9).
* `index-lock.ts` 93: `sessions template --enable` closes the session and its flush times out; the retry timer fires while the
  mark waits for or holds the index lock, so its flush stands in line behind the mark, and the mark awaits that
  flush (`index-overlay.ts` 133). The event loop is empty: the process ends without a word, leaving the lock file.
* `capacity/admission.ts`: a bind that is lost lets its ledger entry expire while the session lives; the comment at the catch
  of `update` says that such losses "both only ever over-reserve".
* `runtime.ts` 4354 and `manager.ts` 1313: the failure of a turn's last flush is swallowed, and so is the one of
  `closeEventWriter` after it; `live-checkpoint.ts` 17-36 counts on the latter.
* `ipc-server.ts` 800: when a session close ends an owner, a waiting sender gets the retryable "shutting down"; its recovery
  (`ipc.ts` 109) spawns an owner before the close has written the record, and a prompt of a closed session runs.
* `messages-log.ts` 680: a crash between the compaction's rename and the record write leaves a pointer past the
  end: the tail is read twice and the next repair pads the file with NULs. `messages-log.ts` 684: an entry pushed while
  a boundary write compacts the log is overwritten in memory and in neither file. Both are in the model; `excused` is where
  `HistoryStands` stops.

Seen while reading, not shown by a run:

* `command-handlers.ts` 3842: `--disable` writes the whole lifecycle of the copy it read, so one that read
  before a close or a reopen can undo it where the guard allows, although "disabling does not reopen a session".
* `lease-store.ts` 977-1006: a beat that stalls for more than the guard's 10 s between read and rename can be
  declared gone from another scope and then renames over a successor's lease.
* `ipc-server.ts` 993-1045: a prompt whose sender does not wait is acknowledged and then
  dropped without an outcome when the queue is full or has just closed.
* `queue-owner-runtime.ts` 1692: a prompt in hand waits for the idle drain to stop; a drain in that
  gap sees no turn and commits, and the prompt then starts one.
* `ipc-server.ts` 601 and `runtime.ts`: prompts buffered in a turn that has not
  prompted yet are injected when its handler registers, although a close has quiesced the queue.
* An injected prompt of an absorbing agent that opens after its turn ended is listed nowhere.
* A closed or superseded owner answers with the request id "unknown" (`handleConnection`), which a client takes for malformed; an owner that
  defers to another's lease counts as exited, so three deferrals read as "failed to start".
* `repository.ts` 1109-1267 with `runtime.ts` 4351 and 3177: a preference set between the owner's pre-read and
  its locked write is overwritten; `session-metadata.ts` 34 writes a clone without baselines, which
  undoes a concurrent change; baselines are remembered only after the awaited index update.
* After a refused style, the next warm turn stamps the refused style as applied.
* Flow: a time-out does not cancel the promise, and its late writes are filed under the node of that later moment; a flow
  prompts without an owner, so the cancel sent to one on a time-out reaches nobody; a failed heartbeat write ends the process;
  an interrupted attempt never gets its outcome, although each "must have exactly one terminal".
* Seats: `mintSeatRow` says the row comes before the record, `session-management.ts` 845 writes the record first; `--seat` looks at the row
  without a lock and writes its record later, and the reaper of empty seats compares only the pointer, so a join between loses its row; a
  backfill reads the ledger before the store, so it may mint a row while the genuine one returns.

## 7. Plan

Done: `IdentityFileLock`, `QueueLease`, `Delivery`, `QueueOwner` (implements `Delivery`), `MessagesLog`, `SessionRecord`, `SessionIndex`,
`CoalescedSaves`, `OwnerClient`, `Admission`, `Archive`, `Failover`, `TurnControl`, `OutputStyle`, `SpawnLedger`, `FlowRun`, `SeatArchive`,
`SeatHolders`.

To model: the terminals of the client (output cap, exit and release), the detection of background tasks, the segments of the event stream, fork and
handover; permissions and model matching as operators against a reference definition.
