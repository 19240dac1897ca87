----------------------------- MODULE QueueLease -----------------------------
(***************************************************************************)
(* The queue-owner lease of one session (src/cli/queue/lease-store.ts,     *)
(* src/cli/queue/lease-mutation.ts and the lifecycle of the owner process  *)
(* in src/cli/session/queue-owner-runtime.ts).                             *)
(*                                                                         *)
(* An owner process acquires the lease file, binds the socket path, beats, *)
(* repairs a lost socket, and releases both when it closes or is           *)
(* signalled.  Commands judge the lease and reap it or stop its owner.     *)
(* Every mutation but two runs under the lease guard: the release of a     *)
(* signal handler, and the closing of the listener, which cannot wait.     *)
(*                                                                         *)
(* A member of Owners is one incarnation with its own pid and generation.  *)
(* The guard is an exclusive lock here, free again once its holder is      *)
(* dead; IdentityFileLock is the protocol behind it.  One step is one call *)
(* of the file system, or several under the guard that nobody can separate.*)
(***************************************************************************)
EXTENDS Naturals, FiniteSets

CONSTANTS
  Owners,     \* owner incarnations, each started at most once
  Commands,   \* processes that inspect, stop or recover the session's owner
  Scopes,     \* (boot, pid namespace, time namespace) triples
  Scope,      \* Owners \cup Commands -> Scopes
  NoLease,    \* nothing at the lease path
  Garbage,    \* a lease file that does not parse (an older version's)
  NoSocket,   \* nothing at the socket path
  Free,       \* nobody holds the lease guard
  MaxLosses,  \* bound: times an outsider removes the socket path
  LongPauses  \* TRUE: a process of another scope may stall in its guarded
              \* section until the guard is broken (GUARD_STALE_MS)

Procs == Owners \cup Commands

ASSUME LeaseAssumption ==
  /\ Owners \cap Commands = {}
  /\ Scope \in [Owners \cup Commands -> Scopes]
  /\ {NoLease, Garbage, NoSocket, Free} \cap Owners = {}
  /\ NoLease # Garbage
  /\ Free \notin (Owners \cup Commands) \X {"main", "aux"}
  /\ MaxLosses \in Nat
  /\ LongPauses \in BOOLEAN

VARIABLES
  lease,    \* whose generation the lease file holds
  age,      \* its heartbeat: 0 up to 15 s, 1 up to 30 s, 2 older
  socket,   \* which owner's listener inode is at the socket path
  guard,    \* the flow that holds the lease guard
  main,     \* each owner's main flow
  aux,      \* each owner's guarded background work: heartbeat or repair
  stopped,  \* the heartbeat of an owner is stopped
  cmd,      \* each command's next step
  judged,   \* the owner a process last judged
  losses    \* times an outsider has removed the socket path

vars == <<lease, age, socket, guard, main, aux, stopped, cmd, judged, losses>>

Starting == {"acquire", "rmgarbage", "reap", "reapsocket", "rmsocket"}
Serving == {"owned", "serving", "closing", "unbind", "closed"}
Releasing == {"release", "relsocket"}
Signalled == {"sigread", "sigunlink", "sigstat", "sigsocket"}
MainValues == {"unborn", "dead"} \cup Starting \cup Serving \cup Releasing \cup Signalled
AuxValues == {"idle", "rename", "reopen", "relisten"}
CmdValues == {"idle", "dead", "reap", "reapsocket", "verify", "kill", "wait"}

TypeOK ==
  /\ lease \in Owners \cup {NoLease, Garbage}
  /\ age \in 0..2
  /\ socket \in Owners \cup {NoSocket}
  /\ guard \in Procs \X {"main", "aux"} \cup {Free}
  /\ main \in [Owners -> MainValues]
  /\ aux \in [Owners -> AuxValues]
  /\ stopped \in [Owners -> BOOLEAN]
  /\ cmd \in [Commands -> CmdValues]
  /\ judged \in [Procs -> Owners \cup {NoLease}]
  /\ losses \in 0..MaxLosses

Init ==
  /\ lease \in {NoLease, Garbage}
  /\ age = 0
  /\ socket = NoSocket
  /\ guard = Free
  /\ main = [o \in Owners |-> "unborn"]
  /\ aux = [o \in Owners |-> "idle"]
  /\ stopped = [o \in Owners |-> FALSE]
  /\ cmd = [c \in Commands |-> "idle"]
  /\ judged = [p \in Procs |-> NoLease]
  /\ losses = 0

-----------------------------------------------------------------------------
Alive(o) == main[o] \notin {"unborn", "dead"}

(* pingQueueSocket: some live process accepts at the path. *)
Listening == socket \in Owners /\ Alive(socket)

(* Mutated form: a stale heartbeat condemns an owner of any scope. *)
RecoverableByAge(p, o) == age = 2 \/ ~Alive(o)

(* judgeLease and isRecoverableQueueOwnerState: by pid in the judge's own  *)
(* scope, by heartbeat age and one ping in any other.                      *)
Recoverable(p, o) ==
  IF Scope[p] = Scope[o] THEN ~Alive(o) ELSE age = 2 /\ ~Listening

(* The pid of a lease is signalled only when it is provably the owner's.   *)
Signallable(p, o) == Scope[p] = Scope[o] /\ Alive(o)

MainTo(o, step) == main' = [main EXCEPT ![o] = step]
AuxTo(o, step) == aux' = [aux EXCEPT ![o] = step]
CmdTo(c, step) == cmd' = [cmd EXCEPT ![c] = step]

(* withQueueLeaseMutation: the guard is free, its holder is dead, or its   *)
(* holder in another scope has outlived GUARD_STALE_MS.                    *)
HolderGone == IF guard[1] \in Owners THEN ~Alive(guard[1]) ELSE cmd[guard[1]] = "dead"

GuardOpen(p) ==
  \/ guard = Free
  \/ guard # Free /\ HolderGone
  \/ guard # Free /\ LongPauses /\ Scope[guard[1]] # Scope[p]

Hold(p, flow) == guard' = <<p, flow>>
LetGo(p, flow) == guard' = IF guard = <<p, flow>> THEN Free ELSE guard

Publish(o) == lease' = o /\ age' = 0
UnlinkLease == lease' = NoLease /\ UNCHANGED age

-----------------------------------------------------------------------------
(* tryAcquireQueueOwnerLease and the start of runSessionQueueOwner *)

Spawn(o) ==
  /\ main[o] = "unborn"
  /\ MainTo(o, "acquire")
  /\ UNCHANGED <<lease, age, socket, guard, aux, stopped, cmd, judged, losses>>

(* The exclusive create succeeds. *)
AcquireLease(o) ==
  /\ main[o] = "acquire" /\ GuardOpen(o)
  /\ lease = NoLease
  /\ Publish(o)
  /\ Hold(o, "main")
  /\ MainTo(o, "rmsocket")
  /\ UNCHANGED <<socket, aux, stopped, cmd, judged, losses>>

RemoveOldSocket(o) ==
  /\ main[o] = "rmsocket"
  /\ socket' = NoSocket
  /\ LetGo(o, "main")
  /\ MainTo(o, "owned")
  /\ UNCHANGED <<lease, age, aux, stopped, cmd, judged, losses>>

(* Mutated form: the judgement is made before the guard is taken. *)
AcquireTakenUnguarded(o) ==
  /\ main[o] = "acquire" /\ GuardOpen(o)
  /\ lease \in Owners /\ Recoverable(o, lease)
  /\ judged' = [judged EXCEPT ![o] = lease]
  /\ MainTo(o, "reap")
  /\ UNCHANGED <<lease, age, socket, guard, aux, stopped, cmd, losses>>

(* EEXIST: an unparsable lease older than 15 s, or a recoverable owner's,  *)
(* is removed; either way this attempt gives up (the caller retries).      *)
AcquireTaken(o) ==
  /\ main[o] = "acquire" /\ GuardOpen(o)
  /\ lease # NoLease
  /\ \/ /\ lease = Garbage /\ age > 0
        /\ Hold(o, "main") /\ MainTo(o, "rmgarbage")
        /\ UNCHANGED judged
     \/ /\ lease \in Owners /\ Recoverable(o, lease)
        /\ judged' = [judged EXCEPT ![o] = lease]
        /\ Hold(o, "main") /\ MainTo(o, "reap")
     \/ /\ IF lease = Garbage THEN age = 0 ELSE ~Recoverable(o, lease)
        /\ MainTo(o, "dead")
        /\ UNCHANGED <<guard, judged>>
  /\ UNCHANGED <<lease, age, socket, aux, stopped, cmd, losses>>

RemoveGarbage(o) ==
  /\ main[o] = "rmgarbage"
  /\ IF lease = Garbage THEN UnlinkLease ELSE UNCHANGED <<lease, age>>
  /\ LetGo(o, "main")
  /\ MainTo(o, "dead")
  /\ UNCHANGED <<socket, aux, stopped, cmd, judged, losses>>

(* reapJudgedLeaseUnderGuard, called by the acquirer that judged in here. *)
AcquirerReaps(o) ==
  /\ main[o] = "reap"
  /\ IF lease = judged[o]
     THEN UnlinkLease /\ MainTo(o, "reapsocket") /\ UNCHANGED guard
     ELSE LetGo(o, "main") /\ MainTo(o, "dead") /\ UNCHANGED <<lease, age>>
  /\ UNCHANGED <<socket, aux, stopped, cmd, judged, losses>>

AcquirerReapsSocket(o) ==
  /\ main[o] = "reapsocket"
  /\ socket' = NoSocket
  /\ LetGo(o, "main")
  /\ MainTo(o, "dead")
  /\ UNCHANGED <<lease, age, aux, stopped, cmd, judged, losses>>

(* The wait for the guard times out: no lease, or no release. *)
GuardTimeout(o) ==
  /\ main[o] \in {"acquire", "release"} /\ ~GuardOpen(o) /\ guard[1] # o
  /\ MainTo(o, "dead")
  /\ UNCHANGED <<lease, age, socket, guard, aux, stopped, cmd, judged, losses>>

(* listenOnQueueSocket: a taken path fails the start, and the owner closes. *)
Listen(o) ==
  /\ main[o] = "owned"
  /\ \/ socket = NoSocket /\ socket' = o /\ MainTo(o, "serving")
     \/ socket # NoSocket /\ MainTo(o, "closed") /\ UNCHANGED socket
  /\ UNCHANGED <<lease, age, guard, aux, stopped, cmd, judged, losses>>

-----------------------------------------------------------------------------
(* The heartbeat: refreshUnderGuard *)

Beating(o) == main[o] \in Serving /\ ~stopped[o] /\ aux[o] = "idle"

BeatOwnLease(o) ==
  /\ Beating(o) /\ GuardOpen(o)
  /\ lease = o
  /\ Hold(o, "aux")
  /\ AuxTo(o, "rename")
  /\ UNCHANGED <<lease, age, socket, main, stopped, cmd, judged, losses>>

(* The issued rename lands, even while a signal handler runs. *)
BeatRename(o) ==
  /\ aux[o] = "rename" /\ Alive(o)
  /\ Publish(o)
  /\ LetGo(o, "aux")
  /\ AuxTo(o, "idle")
  /\ UNCHANGED <<socket, main, stopped, cmd, judged, losses>>

(* The lease vanished: the same generation is created again. *)
BeatRepublish(o) ==
  /\ Beating(o) /\ GuardOpen(o)
  /\ lease = NoLease
  /\ Publish(o)
  /\ guard' = Free
  /\ UNCHANGED <<socket, main, aux, stopped, cmd, judged, losses>>

(* The fence: another generation holds the lease, and this owner leaves    *)
(* through its fatal shutdown (exitSupersededOwner).                       *)
BeatSuperseded(o) ==
  /\ Beating(o) /\ GuardOpen(o)
  /\ lease \in Owners \ {o}
  /\ stopped' = [stopped EXCEPT ![o] = TRUE]
  /\ MainTo(o, "sigread")
  /\ guard' = Free
  /\ UNCHANGED <<lease, age, socket, aux, cmd, judged, losses>>

-----------------------------------------------------------------------------
(* The socket continuity check: repairOwnerSocketIfQuiescent *)

RepairProbe(o) ==
  /\ main[o] = "serving" /\ aux[o] = "idle" /\ GuardOpen(o)
  /\ lease = o /\ socket = NoSocket
  /\ Hold(o, "aux")
  /\ AuxTo(o, "reopen")
  /\ UNCHANGED <<lease, age, socket, main, stopped, cmd, judged, losses>>

(* server.close() unlinks the bound path by name. *)
RepairClose(o) ==
  /\ aux[o] = "reopen" /\ main[o] \in Serving
  /\ socket' = NoSocket
  /\ AuxTo(o, "relisten")
  /\ UNCHANGED <<lease, age, guard, main, stopped, cmd, judged, losses>>

(* Mutated form: the listener is closed and never bound again. *)
RepairForgetsListen(o) ==
  /\ aux[o] = "relisten" /\ main[o] \in Serving
  /\ LetGo(o, "aux")
  /\ AuxTo(o, "idle")
  /\ UNCHANGED <<lease, age, socket, main, stopped, cmd, judged, losses>>

RepairListen(o) ==
  /\ aux[o] = "relisten" /\ main[o] \in Serving
  /\ socket' = IF main[o] = "serving" /\ socket = NoSocket THEN o ELSE socket
  /\ LetGo(o, "aux")
  /\ AuxTo(o, "idle")
  /\ UNCHANGED <<lease, age, main, stopped, cmd, judged, losses>>

LoseSocket ==
  /\ socket # NoSocket /\ losses < MaxLosses
  /\ socket' = NoSocket
  /\ losses' = losses + 1
  /\ UNCHANGED <<lease, age, guard, main, aux, stopped, cmd, judged>>

-----------------------------------------------------------------------------
(* The graceful exit: closeQueueOwnerRuntime and releaseUnderGuard *)

BeginClose(o) ==
  /\ main[o] = "serving"
  /\ MainTo(o, "closing")
  /\ UNCHANGED <<lease, age, socket, guard, aux, stopped, cmd, judged, losses>>

(* closeListenerIfOwnPath, once a repair in flight has ended. *)
CompareInode(o) ==
  /\ main[o] = "closing" /\ aux[o] \notin {"reopen", "relisten"}
  /\ MainTo(o, IF socket = o THEN "unbind" ELSE "closed")
  /\ UNCHANGED <<lease, age, socket, guard, aux, stopped, cmd, judged, losses>>

Unbind(o) ==
  /\ main[o] = "unbind"
  /\ socket' = NoSocket
  /\ MainTo(o, "closed")
  /\ UNCHANGED <<lease, age, guard, aux, stopped, cmd, judged, losses>>

StopHeartbeat(o) ==
  /\ main[o] = "closed"
  /\ stopped' = [stopped EXCEPT ![o] = TRUE]
  /\ MainTo(o, "release")
  /\ UNCHANGED <<lease, age, socket, guard, aux, cmd, judged, losses>>

ReleaseLease(o) ==
  /\ main[o] = "release" /\ aux[o] = "idle" /\ GuardOpen(o)
  /\ \/ lease = o /\ UnlinkLease /\ Hold(o, "main") /\ MainTo(o, "relsocket")
     \/ lease # o /\ MainTo(o, "dead") /\ UNCHANGED <<lease, age, guard>>
  /\ UNCHANGED <<socket, aux, stopped, cmd, judged, losses>>

ReleaseSocket(o) ==
  /\ main[o] = "relsocket"
  /\ socket' = IF socket = o THEN NoSocket ELSE socket
  /\ LetGo(o, "main")
  /\ MainTo(o, "dead")
  /\ UNCHANGED <<lease, age, aux, stopped, cmd, judged, losses>>

-----------------------------------------------------------------------------
(* The signal path: installQueueOwnerFatalShutdown and                     *)
(* releaseQueueOwnerLeaseSync.  No guard, and no other JavaScript runs.    *)

Handling(o) == main[o] \in Serving \cup Releasing

FatalSignal(o) ==
  /\ Handling(o)
  /\ MainTo(o, "sigread")
  /\ UNCHANGED <<lease, age, socket, guard, aux, stopped, cmd, judged, losses>>

SyncReadLease(o) ==
  /\ main[o] = "sigread"
  /\ MainTo(o, IF lease = o THEN "sigunlink" ELSE "dead")
  /\ UNCHANGED <<lease, age, socket, guard, aux, stopped, cmd, judged, losses>>

SyncUnlinkLease(o) ==
  /\ main[o] = "sigunlink"
  /\ UnlinkLease
  /\ MainTo(o, "sigstat")
  /\ UNCHANGED <<socket, guard, aux, stopped, cmd, judged, losses>>

SyncStatSocket(o) ==
  /\ main[o] = "sigstat"
  /\ MainTo(o, IF socket = o THEN "sigsocket" ELSE "dead")
  /\ UNCHANGED <<lease, age, socket, guard, aux, stopped, cmd, judged, losses>>

SyncUnlinkSocket(o) ==
  /\ main[o] = "sigsocket"
  /\ socket' = NoSocket
  /\ MainTo(o, "dead")
  /\ UNCHANGED <<lease, age, guard, aux, stopped, cmd, judged, losses>>

(* SIGKILL, out of memory, or a signal before the handler is installed. *)
Crash(o) ==
  /\ Alive(o)
  /\ MainTo(o, "dead")
  /\ UNCHANGED <<lease, age, socket, guard, aux, stopped, cmd, judged, losses>>

-----------------------------------------------------------------------------
(* Commands: the read verbs, terminateQueueOwnerForSession and             *)
(* recoverQueueOwnerForSession                                             *)

(* The judgement is made outside the guard. *)
Inspect(c) ==
  /\ cmd[c] = "idle" /\ lease \in Owners
  /\ judged' = [judged EXCEPT ![c] = lease]
  /\ \/ Recoverable(c, lease) /\ CmdTo(c, "reap")
     \/ ~Recoverable(c, lease) /\ Signallable(c, lease) /\ CmdTo(c, "verify")
  /\ UNCHANGED <<lease, age, socket, guard, main, aux, stopped, losses>>

(* Mutated forms: the generation is not read again; the guard is let go    *)
(* before the socket is removed.                                           *)
CommandReapsUnchecked(c) ==
  /\ cmd[c] = "reap" /\ GuardOpen(c)
  /\ UnlinkLease /\ Hold(c, "main") /\ CmdTo(c, "reapsocket")
  /\ UNCHANGED <<socket, main, aux, stopped, judged, losses>>

CommandReapsLettingGo(c) ==
  /\ cmd[c] = "reap" /\ GuardOpen(c)
  /\ lease = judged[c]
  /\ UnlinkLease /\ guard' = Free /\ CmdTo(c, "reapsocket")
  /\ UNCHANGED <<socket, main, aux, stopped, judged, losses>>

(* reapJudgedLease: the same generation, re-read under the guard. *)
CommandReaps(c) ==
  /\ cmd[c] = "reap" /\ GuardOpen(c)
  /\ \/ /\ lease = judged[c]
        /\ UnlinkLease /\ Hold(c, "main") /\ CmdTo(c, "reapsocket")
     \/ lease # judged[c] /\ CmdTo(c, "idle") /\ UNCHANGED <<lease, age, guard>>
  /\ UNCHANGED <<socket, main, aux, stopped, judged, losses>>

CommandReapsSocket(c) ==
  /\ cmd[c] = "reapsocket"
  /\ socket' = NoSocket
  /\ LetGo(c, "main")
  /\ CmdTo(c, "idle")
  /\ UNCHANGED <<lease, age, main, aux, stopped, judged, losses>>

(* stopVerifiedOwner: the generation again, then signals outside the guard. *)
VerifyOwner(c) ==
  /\ cmd[c] = "verify" /\ GuardOpen(c)
  /\ CmdTo(c, IF lease \in {NoLease, Garbage, judged[c]} THEN "kill" ELSE "idle")
  /\ guard' = Free
  /\ UNCHANGED <<lease, age, socket, main, aux, stopped, judged, losses>>

Terminate(c) ==
  /\ cmd[c] = "kill"
  /\ CmdTo(c, "wait")
  /\ MainTo(judged[c], IF Handling(judged[c]) THEN "sigread"
                       ELSE IF main[judged[c]] \in Signalled THEN main[judged[c]]
                       ELSE "dead")
  /\ UNCHANGED <<lease, age, socket, guard, aux, stopped, judged, losses>>

(* The exit within the grace, or SIGKILL after it; then the cleanup. *)
AwaitExit(c) ==
  /\ cmd[c] = "wait"
  /\ MainTo(judged[c], "dead")
  /\ CmdTo(c, "reap")
  /\ UNCHANGED <<lease, age, socket, guard, aux, stopped, judged, losses>>

CommandTimeout(c) ==
  /\ cmd[c] \in {"reap", "verify"} /\ ~GuardOpen(c)
  /\ CmdTo(c, "idle")
  /\ UNCHANGED <<lease, age, socket, guard, main, aux, stopped, judged, losses>>

CommandCrash(c) ==
  /\ cmd[c] # "dead"
  /\ CmdTo(c, "dead")
  /\ UNCHANGED <<lease, age, socket, guard, main, aux, stopped, judged, losses>>

-----------------------------------------------------------------------------
Tick ==
  /\ age < 2
  /\ age' = age + 1
  /\ UNCHANGED <<lease, socket, guard, main, aux, stopped, cmd, judged, losses>>

Acquire(o) ==
  \/ AcquireLease(o) \/ RemoveOldSocket(o) \/ AcquireTaken(o) \/ RemoveGarbage(o)
  \/ AcquirerReaps(o) \/ AcquirerReapsSocket(o) \/ Listen(o)

Background(o) ==
  \/ BeatOwnLease(o) \/ BeatRename(o) \/ BeatRepublish(o) \/ BeatSuperseded(o)
  \/ RepairProbe(o) \/ RepairClose(o) \/ RepairListen(o)

BackgroundEnds(o) == BeatRename(o) \/ RepairClose(o) \/ RepairListen(o)

Exit(o) ==
  \/ CompareInode(o) \/ Unbind(o) \/ StopHeartbeat(o) \/ ReleaseLease(o)
  \/ ReleaseSocket(o) \/ SyncReadLease(o) \/ SyncUnlinkLease(o)
  \/ SyncStatSocket(o) \/ SyncUnlinkSocket(o)

OwnerStep(o) ==
  \/ Spawn(o) \/ Acquire(o) \/ GuardTimeout(o) \/ Background(o)
  \/ BeginClose(o) \/ Exit(o) \/ FatalSignal(o) \/ Crash(o)

Finish(c) ==
  CommandReaps(c) \/ CommandReapsSocket(c) \/ VerifyOwner(c) \/ Terminate(c) \/ AwaitExit(c)

CommandStep(c) == Inspect(c) \/ Finish(c) \/ CommandTimeout(c) \/ CommandCrash(c)

Next ==
  \/ \E o \in Owners : OwnerStep(o)
  \/ \E c \in Commands : CommandStep(c)
  \/ LoseSocket \/ Tick

Spec == Init /\ [][Next]_vars

(* A process that runs keeps running, and a waiter that polls a guard that *)
(* is free again and again gets it.  Nobody has to start, close or die.    *)
Fairness ==
  /\ \A o \in Owners :
       /\ SF_vars(Acquire(o)) /\ WF_vars(Exit(o)) /\ WF_vars(BackgroundEnds(o))
       /\ SF_vars(BeatSuperseded(o)) /\ SF_vars(RepairProbe(o))
  /\ \A c \in Commands : WF_vars(CommandReapsSocket(c))

FairSpec == Spec /\ Fairness

-----------------------------------------------------------------------------
(* Properties *)

(* The owner process believes it owns the session.                         *)
Owning(o) == main[o] \in Serving \cup {"rmsocket", "release"}

(* In one scope a session never has two owners: an owner is succeeded only *)
(* once it has released its lease or is dead (tryAcquireQueueOwnerLease).  *)
OneOwner == \A o, q \in Owners : Owning(o) /\ Owning(q) => o = q

(* In one scope the lease of a live owner goes away only by that owner's   *)
(* own release, guarded or from its signal handler: no reaper, heartbeat,  *)
(* command or late release of a former owner takes it.                     *)
LiveOwnerKeepsLease ==
  [][\A o \in Owners :
       lease = o /\ Alive(o) /\ lease' # o => main[o] \in {"release", "sigunlink"}]_vars

(* No owner writes its lease over another's: an existing lease is removed  *)
(* first (O_EXCL).  And an acquirer reaps the lease of another scope's     *)
(* owner only while that owner's heartbeat is still older than 30 s:       *)
(* judgement and delete share one guarded section (acquireUnderGuard).     *)
TakenOnlyFromTheSilent ==
  /\ [][(lease \in Owners /\ lease' \in Owners) => lease' = lease]_vars
  /\ [][\A o, q \in Owners :
          /\ Scope[o] # Scope[q]
          /\ main[o] = "reap" /\ main'[o] = "reapsocket" /\ lease = q
          => age = 2]_vars

(* In one scope the socket of the owner that serves goes away only by its  *)
(* own hand, by an outsider's, or by a signal handler whose comparison of  *)
(* the inode had been overtaken (releaseQueueOwnerLeaseSync).              *)
ServingSocketKept ==
  [][\A o \in Owners :
       socket = o /\ lease = o /\ main[o] = "serving" /\ socket' # o
       => \/ losses' # losses
          \/ \E q \in Owners : main[q] = "sigsocket"]_vars

(* Owners settle whatever died or vanished: one whose lease was taken over *)
(* in another scope notices and leaves, so that two do not serve a session *)
(* for ever (the heartbeat's fence); one whose socket path was removed     *)
(* binds it again; and starting always ends, with a lease or without,      *)
(* though any process may die while it holds the guard.                    *)
OwnersSettle ==
  \A o \in Owners :
    /\ (main[o] \in Serving /\ lease \in Owners \ {o})
         ~> (main[o] \notin Serving \/ lease \notin Owners \ {o})
    /\ (main[o] = "serving" /\ lease = o /\ socket = NoSocket)
         ~> (socket # NoSocket \/ main[o] # "serving" \/ lease # o)
    /\ main[o] \in Starting ~> main[o] \notin Starting

=============================================================================
