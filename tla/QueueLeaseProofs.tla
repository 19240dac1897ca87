-------------------------- MODULE QueueLeaseProofs --------------------------
(* Theorems about QueueLease, for every set of owners and commands.        *)
EXTENDS QueueLease, TLAPS

(* Every reachable state has its type, in any scopes and with any pauses.  *)
THEOREM TypeCorrect == Spec => []TypeOK
<1> USE LeaseAssumption
    DEF TypeOK, Procs, MainValues, AuxValues, CmdValues, Starting, Serving, Releasing,
        Signalled, MainTo, AuxTo, CmdTo, Hold, LetGo, Publish, UnlinkLease
<1>1. Init => TypeOK
  BY DEF Init
<1>2. TypeOK /\ [Next]_vars => TypeOK'
  <2> SUFFICES ASSUME TypeOK, [Next]_vars PROVE TypeOK'
    OBVIOUS
  <2>1. CASE UNCHANGED vars
    BY <2>1 DEF vars
  <2>2. CASE Tick
    BY <2>2 DEF Tick
  <2>3. CASE LoseSocket
    BY <2>3 DEF LoseSocket
  <2>4. ASSUME NEW o \in Owners, Acquire(o) PROVE TypeOK'
    <3>1. CASE AcquireLease(o) \/ RemoveOldSocket(o)
      BY <3>1 DEF AcquireLease, RemoveOldSocket
    <3>2. CASE AcquireTaken(o)
      BY <3>2 DEF AcquireTaken
    <3>3. CASE RemoveGarbage(o) \/ Listen(o)
      BY <3>3 DEF RemoveGarbage, Listen
    <3>4. CASE AcquirerReaps(o) \/ AcquirerReapsSocket(o)
      BY <3>4 DEF AcquirerReaps, AcquirerReapsSocket
    <3> QED
      BY <2>4, <3>1, <3>2, <3>3, <3>4 DEF Acquire
  <2>5. ASSUME NEW o \in Owners, Background(o) PROVE TypeOK'
    <3>1. CASE BeatOwnLease(o) \/ BeatRename(o)
      BY <3>1 DEF BeatOwnLease, BeatRename
    <3>2. CASE BeatRepublish(o)
      BY <3>2 DEF BeatRepublish
    <3>4. CASE BeatSuperseded(o)
      BY <3>4 DEF BeatSuperseded
    <3>3. CASE RepairProbe(o) \/ RepairClose(o) \/ RepairListen(o)
      BY <3>3 DEF RepairProbe, RepairClose, RepairListen
    <3> QED
      BY <2>5, <3>1, <3>2, <3>3, <3>4 DEF Background
  <2>6. ASSUME NEW o \in Owners, Exit(o) PROVE TypeOK'
    <3>1. CASE CompareInode(o) \/ Unbind(o) \/ StopHeartbeat(o)
      BY <3>1 DEF CompareInode, Unbind, StopHeartbeat
    <3>2. CASE ReleaseLease(o) \/ ReleaseSocket(o)
      BY <3>2 DEF ReleaseLease, ReleaseSocket
    <3>3. CASE SyncReadLease(o) \/ SyncUnlinkLease(o) \/ SyncStatSocket(o) \/ SyncUnlinkSocket(o)
      BY <3>3 DEF SyncReadLease, SyncUnlinkLease, SyncStatSocket, SyncUnlinkSocket
    <3> QED
      BY <2>6, <3>1, <3>2, <3>3 DEF Exit
  <2>7. ASSUME NEW o \in Owners,
               Spawn(o) \/ GuardTimeout(o) \/ BeginClose(o) \/ FatalSignal(o) \/ Crash(o)
        PROVE  TypeOK'
    BY <2>7 DEF Spawn, GuardTimeout, BeginClose, FatalSignal, Crash
  <2>8. ASSUME NEW c \in Commands, CommandStep(c) PROVE TypeOK'
    <3>1. CASE Inspect(c) \/ CommandTimeout(c) \/ CommandCrash(c)
      BY <3>1 DEF Inspect, CommandTimeout, CommandCrash
    <3>2. CASE CommandReaps(c) \/ CommandReapsSocket(c) \/ VerifyOwner(c)
      BY <3>2 DEF CommandReaps, CommandReapsSocket, VerifyOwner
    <3>3. CASE Terminate(c) \/ AwaitExit(c)
      BY <3>3 DEF Terminate, AwaitExit, Handling
    <3> QED
      BY <2>8, <3>1, <3>2, <3>3 DEF CommandStep, Finish
  <2> QED
    BY <2>1, <2>2, <2>3, <2>4, <2>5, <2>6, <2>7, <2>8 DEF Next, OwnerStep
<1> QED
  BY <1>1, <1>2, PTL DEF Spec

-----------------------------------------------------------------------------
(* One scope.  The lease of an owner stands because every flow that could  *)
(* remove it must hold the guard and must have judged a dead process, and  *)
(* a process of the same scope is judged dead only when it is.             *)

OneScope == \A p, q \in Procs : Scope[p] = Scope[q]

(* Who is inside a guarded section holds the guard.                        *)
GuardHeld ==
  /\ \A o \in Owners :
       /\ main[o] \in {"rmgarbage", "reap", "reapsocket", "rmsocket", "relsocket"}
            => guard = <<o, "main">>
       /\ aux[o] # "idle" /\ Alive(o) => guard = <<o, "aux">>
       /\ main[o] = "unborn" => aux[o] = "idle"
  /\ \A c \in Commands : cmd[c] = "reapsocket" => guard = <<c, "main">>

(* Until its release takes effect, an owner's lease holds its generation.  *)
Standing == Serving \cup {"rmsocket", "release", "sigunlink"}
LeaseStands == \A o \in Owners : main[o] \in Standing => lease = o

(* A rename in flight can only meet its own lease, or none.                *)
RenameHarmless ==
  \A o \in Owners : aux[o] = "rename" /\ Alive(o) => lease \in {o, NoLease}

(* Whoever is about to reap judged an owner that is dead for good.         *)
JudgedDead ==
  /\ \A o \in Owners :
       main[o] = "reap" => judged[o] \in Owners /\ main[judged[o]] = "dead"
  /\ \A c \in Commands :
       /\ cmd[c] = "reap" => judged[c] \in Owners /\ main[judged[c]] = "dead"
       /\ cmd[c] \in {"verify", "kill", "wait"}
            => judged[c] \in Owners /\ main[judged[c]] # "unborn"

LeaseBorn == lease \in Owners => main[lease] # "unborn"

IInv ==
  /\ TypeOK /\ GuardHeld /\ LeaseStands /\ RenameHarmless /\ JudgedDead /\ LeaseBorn

(* In one scope, or where nobody stalls in a guarded section, a guard that *)
(* can be taken is held by no running flow (withQueueLeaseMutation over    *)
(* the identity lock's judgement).                                         *)
LEMMA OpenGuard ==
  ASSUME OneScope \/ LongPauses = FALSE, TypeOK, GuardHeld, NEW p \in Procs, GuardOpen(p)
  PROVE  /\ \A o \in Owners :
              /\ main[o] \notin {"rmgarbage", "reap", "reapsocket", "rmsocket", "relsocket"}
              /\ aux[o] # "idle" => ~Alive(o)
         /\ \A c \in Commands : cmd[c] # "reapsocket"
<1> USE LeaseAssumption DEF Procs
<1>1. \A q \in Procs, f \in {"main", "aux"} :
        guard = <<q, f>> => guard # Free /\ guard[1] = q /\ HolderGone
  BY DEF GuardOpen, OneScope
<1>2. ASSUME NEW o \in Owners, guard = <<o, "main">> \/ guard = <<o, "aux">>
      PROVE  ~Alive(o)
  BY <1>1, <1>2 DEF HolderGone
<1>3. ASSUME NEW c \in Commands, guard = <<c, "main">>
      PROVE  cmd[c] = "dead"
  BY <1>1, <1>3 DEF HolderGone
<1> QED
  BY <1>2, <1>3 DEF GuardHeld, Alive

(* No step brings a dead owner back or makes a born one unborn.            *)
LEMMA OwnersDieOnce ==
  ASSUME TypeOK, JudgedDead, [Next]_vars, NEW q \in Owners
  PROVE  /\ main[q] = "dead" => main'[q] = "dead"
         /\ main[q] # "unborn" => main'[q] # "unborn"
<1> USE DEF TypeOK, MainTo
<1>1. CASE UNCHANGED vars \/ Tick \/ LoseSocket
  BY <1>1 DEF vars, Tick, LoseSocket
<1>2. ASSUME NEW o \in Owners, Acquire(o)
      PROVE  main' = main \/ (main[o] # "dead" /\ \E s \in MainValues \ {"unborn"} : MainTo(o, s))
  <2> USE DEF MainValues, Starting, Serving
  <2>1. CASE AcquireLease(o) \/ RemoveOldSocket(o) \/ RemoveGarbage(o)
    BY <2>1 DEF AcquireLease, RemoveOldSocket, RemoveGarbage
  <2>4. CASE Listen(o)
    <3>1. main[o] = "owned" /\ (MainTo(o, "serving") \/ MainTo(o, "closed"))
      BY <2>4 DEF Listen
    <3> QED
      BY <3>1
  <2>2. CASE AcquireTaken(o)
    <3>1. main[o] = "acquire" /\ (MainTo(o, "rmgarbage") \/ MainTo(o, "reap") \/ MainTo(o, "dead"))
      BY <2>2 DEF AcquireTaken
    <3> QED
      BY <3>1
  <2>3. CASE AcquirerReaps(o) \/ AcquirerReapsSocket(o)
    BY <2>3 DEF AcquirerReaps, AcquirerReapsSocket
  <2> QED
    BY <1>2, <2>1, <2>2, <2>3, <2>4 DEF Acquire
<1>3. ASSUME NEW o \in Owners, Background(o)
      PROVE  main' = main \/ (main[o] # "dead" /\ MainTo(o, "sigread"))
  <2>1. ASSUME BeatOwnLease(o) \/ BeatRename(o) \/ BeatRepublish(o) PROVE main' = main
    BY <2>1 DEF BeatOwnLease, BeatRename, BeatRepublish
  <2>2. ASSUME BeatSuperseded(o) PROVE main[o] # "dead" /\ MainTo(o, "sigread")
    BY <2>2 DEF BeatSuperseded, Beating, Serving
  <2>3. ASSUME RepairProbe(o) \/ RepairClose(o) \/ RepairListen(o) PROVE main' = main
    BY <2>3 DEF RepairProbe, RepairClose, RepairListen
  <2> QED
    BY ONLY <1>3, <2>1, <2>2, <2>3 DEF Background
<1>4. ASSUME NEW o \in Owners, Exit(o)
      PROVE  main[o] # "dead" /\ \E s \in MainValues \ {"unborn"} : MainTo(o, s)
  <2> USE DEF MainValues, Serving, Releasing, Signalled
  <2>1. CASE CompareInode(o) \/ Unbind(o) \/ StopHeartbeat(o)
    BY <2>1 DEF CompareInode, Unbind, StopHeartbeat
  <2>2. CASE ReleaseLease(o) \/ ReleaseSocket(o)
    BY <2>2 DEF ReleaseLease, ReleaseSocket
  <2>3. CASE SyncReadLease(o) \/ SyncUnlinkLease(o) \/ SyncStatSocket(o) \/ SyncUnlinkSocket(o)
    BY <2>3 DEF SyncReadLease, SyncUnlinkLease, SyncStatSocket, SyncUnlinkSocket
  <2> QED
    BY <1>4, <2>1, <2>2, <2>3 DEF Exit
<1>5. ASSUME NEW o \in Owners,
             Spawn(o) \/ GuardTimeout(o) \/ BeginClose(o) \/ FatalSignal(o) \/ Crash(o)
      PROVE  main[o] # "dead" /\ \E s \in MainValues \ {"unborn"} : MainTo(o, s)
  BY <1>5 DEF Spawn, GuardTimeout, BeginClose, FatalSignal, Crash, Alive, Handling,
              MainValues, Starting, Serving, Releasing, Signalled
<1>6. ASSUME NEW c \in Commands, CommandStep(c)
      PROVE  \/ main' = main
             \/ /\ judged[c] \in Owners
                /\ \/ MainTo(judged[c], "dead")
                   \/ main[judged[c]] # "dead" /\ MainTo(judged[c], "sigread")
  <2>1. CASE Inspect(c) \/ CommandTimeout(c) \/ CommandCrash(c)
    BY <2>1 DEF Inspect, CommandTimeout, CommandCrash
  <2>2. CASE CommandReaps(c) \/ CommandReapsSocket(c) \/ VerifyOwner(c)
    BY <2>2 DEF CommandReaps, CommandReapsSocket, VerifyOwner
  <2>3. CASE Terminate(c)
    <3>1. judged[c] \in Owners
      BY <2>3 DEF Terminate, JudgedDead
    <3>2. CASE main[judged[c]] \in Signalled
      BY <2>3, <3>1, <3>2 DEF Terminate, Handling, Signalled, Serving, Releasing
    <3>3. CASE main[judged[c]] \notin Signalled
      BY <2>3, <3>1, <3>3 DEF Terminate, Handling, Signalled, Serving, Releasing
    <3> QED
      BY <3>2, <3>3
  <2>4. CASE AwaitExit(c)
    BY <2>4 DEF AwaitExit, JudgedDead
  <2> QED
    BY <1>6, <2>1, <2>2, <2>3, <2>4 DEF CommandStep, Finish
<1> QED
  BY <1>1, <1>2, <1>3, <1>4, <1>5, <1>6 DEF Next, OwnerStep

(* JudgedDead survives a step that judges nobody and moves no command.     *)
LEMMA JudgementStands ==
  ASSUME TypeOK, TypeOK', JudgedDead, [Next]_vars, judged' = judged, cmd' = cmd,
         \A o \in Owners : main'[o] = "reap" => main[o] = "reap"
  PROVE  JudgedDead'
<1>1. \A q \in Owners : /\ main[q] = "dead" => main'[q] = "dead"
                        /\ main[q] # "unborn" => main'[q] # "unborn"
  BY OwnersDieOnce
<1> QED
  BY <1>1 DEF JudgedDead

(* A lease that does not change hands stays a born owner's.                *)
LEMMA LeaseStaysBorn ==
  ASSUME TypeOK, TypeOK', JudgedDead, LeaseBorn, [Next]_vars,
         \/ lease' \in {lease, NoLease}
         \/ lease' \in Owners /\ main[lease'] # "unborn"
  PROVE  LeaseBorn'
<1>1. \A q \in Owners : main[q] # "unborn" => main'[q] # "unborn"
  BY OwnersDieOnce
<1> QED
  BY <1>1, LeaseAssumption DEF LeaseBorn, TypeOK

(* In one scope a step of the acquisition keeps the invariant.             *)
LEMMA AcquireKeeps ==
  ASSUME OneScope, IInv, TypeOK', [Next]_vars, NEW o \in Owners, Acquire(o)
  PROVE  GuardHeld' /\ LeaseStands' /\ RenameHarmless' /\ JudgedDead' /\ LeaseBorn'
<1> USE LeaseAssumption
    DEF IInv, TypeOK, MainTo, MainValues, Starting, Serving, Releasing, Signalled, Standing
<1>1. CASE AcquireLease(o)
  <2>1. /\ main[o] = "acquire" /\ lease = NoLease /\ GuardOpen(o) /\ lease' = o
        /\ guard' = <<o, "main">> /\ main' = [main EXCEPT ![o] = "rmsocket"]
        /\ aux' = aux /\ cmd' = cmd /\ judged' = judged
    BY <1>1 DEF AcquireLease, Publish, Hold
  <2>2. /\ \A q \in Owners :
              /\ main[q] \notin {"rmgarbage", "reap", "reapsocket", "rmsocket", "relsocket"}
              /\ aux[q] # "idle" => ~Alive(q)
        /\ \A c \in Commands : cmd[c] # "reapsocket"
    BY <2>1, OpenGuard DEF Procs
  <2>3. aux[o] = "idle"
    BY <2>1, <2>2 DEF Alive
  <2>4. GuardHeld'
    BY <2>1, <2>2, <2>3 DEF GuardHeld, Alive
  <2>5. LeaseStands'
    BY <2>1 DEF LeaseStands
  <2>6. RenameHarmless'
    BY <2>1, <2>2, <2>3 DEF RenameHarmless, Alive
  <2>7. JudgedDead'
    BY <2>1, JudgementStands
  <2>8. LeaseBorn'
    BY <2>1, LeaseStaysBorn
  <2> QED
    BY <2>4, <2>5, <2>6, <2>7, <2>8
<1>2. CASE RemoveOldSocket(o)
  <2>1. /\ main[o] = "rmsocket" /\ main' = [main EXCEPT ![o] = "owned"] /\ lease' = lease
        /\ guard' = (IF guard = <<o, "main">> THEN Free ELSE guard)
        /\ aux' = aux /\ cmd' = cmd /\ judged' = judged
    BY <1>2 DEF RemoveOldSocket, LetGo
  <2>2. guard = <<o, "main">> /\ (aux[o] = "idle" \/ ~Alive(o))
    BY <2>1 DEF GuardHeld
  <2>3. GuardHeld'
    BY <2>1, <2>2 DEF GuardHeld, Alive
  <2>4. LeaseStands' /\ RenameHarmless'
    BY <2>1 DEF LeaseStands, RenameHarmless, Alive
  <2>5. JudgedDead'
    BY <2>1, JudgementStands
  <2>6. LeaseBorn'
    BY <2>1, LeaseStaysBorn
  <2> QED
    BY <2>3, <2>4, <2>5, <2>6
<1>3. CASE AcquireTaken(o)
  <2>1. /\ main[o] = "acquire" /\ GuardOpen(o) /\ lease # NoLease
        /\ lease' = lease /\ aux' = aux /\ cmd' = cmd
        /\ \/ main' = [main EXCEPT ![o] = "rmgarbage"] /\ guard' = <<o, "main">> /\ judged' = judged
           \/ /\ main' = [main EXCEPT ![o] = "reap"] /\ guard' = <<o, "main">>
              /\ lease \in Owners /\ Recoverable(o, lease)
              /\ judged' = [judged EXCEPT ![o] = lease]
           \/ main' = [main EXCEPT ![o] = "dead"] /\ guard' = guard /\ judged' = judged
    BY <1>3 DEF AcquireTaken, Hold
  <2>2. /\ \A q \in Owners :
              /\ main[q] \notin {"rmgarbage", "reap", "reapsocket", "rmsocket", "relsocket"}
              /\ aux[q] # "idle" => ~Alive(q)
        /\ \A c \in Commands : cmd[c] # "reapsocket"
    BY <2>1, OpenGuard DEF Procs
  <2>3. GuardHeld'
    BY <2>1, <2>2 DEF GuardHeld, Alive
  <2>4. LeaseStands' /\ RenameHarmless'
    BY <2>1 DEF LeaseStands, RenameHarmless, Alive
  <2>5. JudgedDead'
    <3>1. CASE main'[o] # "reap"
      <4>1. judged' = judged /\ \A q \in Owners : main'[q] = "reap" => main[q] = "reap"
        BY <2>1, <3>1
      <4> QED
        BY <2>1, <4>1, JudgementStands
    <3>2. CASE main'[o] = "reap"
      <4>1. main[lease] = "dead" /\ lease \in Owners /\ o # lease /\ judged' = [judged EXCEPT ![o] = lease]
        <5>1. lease \in Owners /\ Recoverable(o, lease) /\ judged' = [judged EXCEPT ![o] = lease]
          BY <2>1, <3>2
        <5>2. ~Alive(lease)
          BY <5>1 DEF Recoverable, OneScope, Procs
        <5> QED
          BY <2>1, <5>1, <5>2 DEF Alive, LeaseBorn
      <4>2. \A q \in Owners : main[q] # "reap"
        BY <2>2
      <4> QED
        BY <2>1, <4>1, <4>2 DEF JudgedDead, Procs
    <3> QED
      BY <3>1, <3>2
  <2>6. LeaseBorn'
    BY <2>1, LeaseStaysBorn
  <2> QED
    BY <2>3, <2>4, <2>5, <2>6
<1>4. CASE RemoveGarbage(o)
  <2>1. /\ main[o] = "rmgarbage" /\ main' = [main EXCEPT ![o] = "dead"]
        /\ lease' = lease \/ (lease = Garbage /\ lease' = NoLease)
        /\ guard' = (IF guard = <<o, "main">> THEN Free ELSE guard)
        /\ aux' = aux /\ cmd' = cmd /\ judged' = judged
    BY <1>4 DEF RemoveGarbage, LetGo, UnlinkLease
  <2>2. guard = <<o, "main">>
    BY <2>1 DEF GuardHeld
  <2>3. GuardHeld'
    BY <2>1, <2>2 DEF GuardHeld, Alive
  <2>4. LeaseStands' /\ RenameHarmless'
    BY <2>1 DEF LeaseStands, RenameHarmless, Alive
  <2>5. JudgedDead'
    BY <2>1, JudgementStands
  <2>6. LeaseBorn'
    BY <2>1, LeaseStaysBorn
  <2> QED
    BY <2>3, <2>4, <2>5, <2>6
<1>5. CASE AcquirerReaps(o)
  <2>1. /\ main[o] = "reap" /\ aux' = aux /\ cmd' = cmd /\ judged' = judged
        /\ \/ /\ lease = judged[o] /\ lease' = NoLease
              /\ main' = [main EXCEPT ![o] = "reapsocket"] /\ guard' = guard
           \/ /\ lease' = lease /\ main' = [main EXCEPT ![o] = "dead"]
              /\ guard' = (IF guard = <<o, "main">> THEN Free ELSE guard)
    BY <1>5 DEF AcquirerReaps, LetGo, UnlinkLease
  <2>2. guard = <<o, "main">> /\ main[judged[o]] = "dead"
    BY <2>1 DEF GuardHeld, JudgedDead
  <2>3. GuardHeld'
    BY <2>1, <2>2 DEF GuardHeld, Alive
  <2>4. LeaseStands'
    BY <2>1, <2>2 DEF LeaseStands
  <2>5. RenameHarmless'
    BY <2>1, <2>2 DEF RenameHarmless, Alive
  <2>6. JudgedDead'
    BY <2>1, JudgementStands
  <2>7. LeaseBorn'
    BY <2>1, LeaseStaysBorn
  <2> QED
    BY <2>3, <2>4, <2>5, <2>6, <2>7
<1>6. CASE AcquirerReapsSocket(o)
  <2>1. /\ main[o] = "reapsocket" /\ main' = [main EXCEPT ![o] = "dead"] /\ lease' = lease
        /\ guard' = (IF guard = <<o, "main">> THEN Free ELSE guard)
        /\ aux' = aux /\ cmd' = cmd /\ judged' = judged
    BY <1>6 DEF AcquirerReapsSocket, LetGo
  <2>2. guard = <<o, "main">>
    BY <2>1 DEF GuardHeld
  <2>3. GuardHeld'
    BY <2>1, <2>2 DEF GuardHeld, Alive
  <2>4. LeaseStands' /\ RenameHarmless'
    BY <2>1 DEF LeaseStands, RenameHarmless, Alive
  <2>5. JudgedDead'
    BY <2>1, JudgementStands
  <2>6. LeaseBorn'
    BY <2>1, LeaseStaysBorn
  <2> QED
    BY <2>3, <2>4, <2>5, <2>6
<1>7. CASE Listen(o)
  <2>1. /\ main[o] = "owned" /\ lease' = lease /\ guard' = guard
        /\ main' = [main EXCEPT ![o] = "serving"] \/ main' = [main EXCEPT ![o] = "closed"]
        /\ aux' = aux /\ cmd' = cmd /\ judged' = judged
    BY <1>7 DEF Listen
  <2>2. GuardHeld'
    BY <2>1 DEF GuardHeld, Alive
  <2>3. LeaseStands' /\ RenameHarmless'
    BY <2>1 DEF LeaseStands, RenameHarmless, Alive
  <2>4. JudgedDead'
    BY <2>1, JudgementStands
  <2>5. LeaseBorn'
    BY <2>1, LeaseStaysBorn
  <2> QED
    BY <2>2, <2>3, <2>4, <2>5
<1> QED
  BY <1>1, <1>2, <1>3, <1>4, <1>5, <1>6, <1>7 DEF Acquire

(* A step that only moves one owner, neither into a guarded section nor    *)
(* into the standing of a lease it does not have, keeps the invariant.     *)
LEMMA QuietMove ==
  ASSUME IInv, TypeOK', [Next]_vars, NEW o \in Owners, NEW s, main' = [main EXCEPT ![o] = s],
         s \notin {"rmgarbage", "reap", "reapsocket", "rmsocket", "relsocket", "unborn"},
         s \in Standing => lease = o,
         main[o] # "dead" \/ s = "dead",
         lease' = lease, guard' = guard, aux' = aux, cmd' = cmd, judged' = judged
  PROVE  GuardHeld' /\ LeaseStands' /\ RenameHarmless' /\ JudgedDead' /\ LeaseBorn'
<1> USE DEF IInv, TypeOK
<1>1. GuardHeld'
  BY DEF GuardHeld, Alive
<1>2. LeaseStands'
  BY DEF LeaseStands
<1>3. RenameHarmless'
  BY DEF RenameHarmless, Alive, GuardHeld
<1>4. JudgedDead'
  BY JudgementStands
<1>5. LeaseBorn'
  BY LeaseStaysBorn
<1> QED
  BY <1>1, <1>2, <1>3, <1>4, <1>5

(* In one scope a heartbeat or a repair keeps the invariant.               *)
LEMMA BackgroundKeeps ==
  ASSUME OneScope, IInv, TypeOK', [Next]_vars, NEW o \in Owners, Background(o)
  PROVE  GuardHeld' /\ LeaseStands' /\ RenameHarmless' /\ JudgedDead' /\ LeaseBorn'
<1> USE LeaseAssumption DEF IInv, TypeOK, MainTo, AuxTo, Serving, Standing
<1>1. ASSUME GuardOpen(o)
      PROVE  /\ \A q \in Owners :
                   /\ main[q] \notin {"rmgarbage", "reap", "reapsocket", "rmsocket", "relsocket"}
                   /\ aux[q] # "idle" => ~Alive(q)
             /\ \A c \in Commands : cmd[c] # "reapsocket"
  BY <1>1, OpenGuard DEF Procs
<1>2. CASE BeatOwnLease(o) \/ RepairProbe(o)
  <2>1. /\ GuardOpen(o) /\ main[o] \in Serving /\ lease = o /\ lease' = lease
        /\ guard' = <<o, "aux">>
        /\ aux' = [aux EXCEPT ![o] = "rename"] \/ aux' = [aux EXCEPT ![o] = "reopen"]
        /\ main' = main /\ cmd' = cmd /\ judged' = judged
    BY <1>2 DEF BeatOwnLease, RepairProbe, Beating, Hold
  <2>2. GuardHeld'
    BY <1>1, <2>1 DEF GuardHeld, Alive
  <2>3. LeaseStands' /\ RenameHarmless'
    BY <1>1, <2>1 DEF LeaseStands, RenameHarmless, Alive
  <2>4. JudgedDead'
    BY <2>1, JudgementStands
  <2>5. LeaseBorn'
    BY <2>1, LeaseStaysBorn
  <2> QED
    BY <2>2, <2>3, <2>4, <2>5
<1>3. CASE BeatRename(o)
  <2>1. /\ aux[o] = "rename" /\ Alive(o) /\ lease' = o
        /\ guard' = (IF guard = <<o, "aux">> THEN Free ELSE guard)
        /\ aux' = [aux EXCEPT ![o] = "idle"]
        /\ main' = main /\ cmd' = cmd /\ judged' = judged
    BY <1>3 DEF BeatRename, Publish, LetGo
  <2>2. guard = <<o, "aux">> /\ lease \in {o, NoLease}
    BY <2>1 DEF GuardHeld, RenameHarmless
  <2>3. GuardHeld'
    BY <2>1, <2>2 DEF GuardHeld, Alive
  <2>4. LeaseStands'
    BY <2>1, <2>2 DEF LeaseStands
  <2>5. \A q \in Owners : aux'[q] = "rename" /\ Alive(q) => FALSE
    BY <2>1, <2>2 DEF GuardHeld
  <2>6. RenameHarmless'
    BY <2>1, <2>5 DEF RenameHarmless, Alive
  <2>7. JudgedDead'
    BY <2>1, JudgementStands
  <2>8. LeaseBorn'
    BY <2>1, LeaseStaysBorn DEF Alive
  <2> QED
    BY <2>3, <2>4, <2>6, <2>7, <2>8
<1>4. CASE BeatRepublish(o)
  <2>1. /\ GuardOpen(o) /\ main[o] \in Serving /\ lease = NoLease
        /\ lease' = o /\ guard' = Free
        /\ aux' = aux /\ main' = main /\ cmd' = cmd /\ judged' = judged
    BY <1>4 DEF BeatRepublish, Publish, Beating
  <2>2. FALSE
    BY <2>1 DEF LeaseStands
  <2> QED
    BY <2>2
<1>5. CASE BeatSuperseded(o)
  <2>1. main[o] \in Serving /\ lease \in Owners \ {o}
    BY <1>5 DEF BeatSuperseded, Beating
  <2>2. FALSE
    BY <2>1 DEF LeaseStands
  <2> QED
    BY <2>2
<1>6. CASE RepairClose(o)
  <2>1. /\ aux[o] = "reopen" /\ main[o] \in Serving
        /\ aux' = [aux EXCEPT ![o] = "relisten"] /\ guard' = guard /\ lease' = lease
        /\ main' = main /\ cmd' = cmd /\ judged' = judged
    BY <1>6 DEF RepairClose
  <2>2. GuardHeld'
    BY <2>1 DEF GuardHeld, Alive
  <2>3. LeaseStands' /\ RenameHarmless'
    BY <2>1 DEF LeaseStands, RenameHarmless, Alive
  <2>4. JudgedDead'
    BY <2>1, JudgementStands
  <2>5. LeaseBorn'
    BY <2>1, LeaseStaysBorn
  <2> QED
    BY <2>2, <2>3, <2>4, <2>5
<1>7. CASE RepairListen(o)
  <2>1. /\ aux[o] = "relisten" /\ main[o] \in Serving
        /\ aux' = [aux EXCEPT ![o] = "idle"] /\ lease' = lease
        /\ guard' = (IF guard = <<o, "aux">> THEN Free ELSE guard)
        /\ main' = main /\ cmd' = cmd /\ judged' = judged
    BY <1>7 DEF RepairListen, LetGo
  <2>2. guard = <<o, "aux">>
    BY <2>1 DEF GuardHeld, Alive
  <2>3. GuardHeld'
    BY <2>1, <2>2 DEF GuardHeld, Alive
  <2>4. LeaseStands' /\ RenameHarmless'
    BY <2>1 DEF LeaseStands, RenameHarmless, Alive
  <2>5. JudgedDead'
    BY <2>1, JudgementStands
  <2>6. LeaseBorn'
    BY <2>1, LeaseStaysBorn
  <2> QED
    BY <2>3, <2>4, <2>5, <2>6
<1> QED
  BY <1>2, <1>3, <1>4, <1>5, <1>6, <1>7 DEF Background

(* In one scope a graceful or a signalled exit keeps the invariant.        *)
LEMMA ExitKeeps ==
  ASSUME OneScope, IInv, TypeOK', [Next]_vars, NEW o \in Owners, Exit(o)
  PROVE  GuardHeld' /\ LeaseStands' /\ RenameHarmless' /\ JudgedDead' /\ LeaseBorn'
<1> USE LeaseAssumption DEF IInv, TypeOK, MainTo, Serving, Standing
<1>1. CASE CompareInode(o) \/ Unbind(o) \/ StopHeartbeat(o) \/ SyncReadLease(o)
           \/ SyncStatSocket(o) \/ SyncUnlinkSocket(o)
  <2>1. /\ lease' = lease /\ guard' = guard /\ aux' = aux /\ cmd' = cmd /\ judged' = judged
        /\ \/ /\ main[o] \in Serving
              /\ \E s \in {"unbind", "closed", "release"} : main' = [main EXCEPT ![o] = s]
           \/ main[o] = "sigread" /\ lease = o /\ main' = [main EXCEPT ![o] = "sigunlink"]
           \/ main[o] = "sigstat" /\ main' = [main EXCEPT ![o] = "sigsocket"]
           \/ main' = [main EXCEPT ![o] = "dead"]
    <3>1. CASE CompareInode(o)
      BY <3>1 DEF CompareInode
    <3>2. CASE Unbind(o) \/ StopHeartbeat(o)
      BY <3>2 DEF Unbind, StopHeartbeat
    <3>3. CASE SyncReadLease(o)
      BY <3>3 DEF SyncReadLease
    <3>4. CASE SyncStatSocket(o) \/ SyncUnlinkSocket(o)
      BY <3>4 DEF SyncStatSocket, SyncUnlinkSocket
    <3> QED
      BY <1>1, <3>1, <3>2, <3>3, <3>4
  <2>2. PICK s : /\ main' = [main EXCEPT ![o] = s]
                 /\ s \in {"unbind", "closed", "release", "sigunlink", "sigsocket", "dead"}
                 /\ s \in Standing => lease = o
                 /\ main[o] # "dead" \/ s = "dead"
    BY <2>1 DEF LeaseStands
  <2> QED
    BY <2>1, <2>2, QuietMove
<1>2. CASE ReleaseLease(o)
  <2>1. CASE lease # o
    BY <1>2, <2>1 DEF ReleaseLease, LeaseStands
  <2>2. CASE lease = o
    <3>1. /\ main[o] = "release" /\ aux[o] = "idle" /\ GuardOpen(o) /\ lease' = NoLease
          /\ guard' = <<o, "main">> /\ main' = [main EXCEPT ![o] = "relsocket"]
          /\ aux' = aux /\ cmd' = cmd /\ judged' = judged
      BY <1>2, <2>2 DEF ReleaseLease, UnlinkLease, Hold
    <3>2. /\ \A q \in Owners :
                /\ main[q] \notin {"rmgarbage", "reap", "reapsocket", "rmsocket", "relsocket"}
                /\ aux[q] # "idle" => ~Alive(q)
          /\ \A c \in Commands : cmd[c] # "reapsocket"
      BY <3>1, OpenGuard DEF Procs
    <3>3. GuardHeld'
      BY <3>1, <3>2 DEF GuardHeld, Alive
    <3>4. LeaseStands' /\ RenameHarmless'
      BY <2>2, <3>1 DEF LeaseStands, RenameHarmless
    <3>5. JudgedDead'
      BY <3>1, JudgementStands
    <3>6. LeaseBorn'
      BY <3>1, LeaseStaysBorn
    <3> QED
      BY <3>3, <3>4, <3>5, <3>6
  <2> QED
    BY <2>1, <2>2
<1>3. CASE ReleaseSocket(o)
  <2>1. /\ main[o] = "relsocket" /\ main' = [main EXCEPT ![o] = "dead"] /\ lease' = lease
        /\ guard' = (IF guard = <<o, "main">> THEN Free ELSE guard)
        /\ aux' = aux /\ cmd' = cmd /\ judged' = judged
    BY <1>3 DEF ReleaseSocket, LetGo
  <2>2. guard = <<o, "main">>
    BY <2>1 DEF GuardHeld
  <2>3. GuardHeld'
    BY <2>1, <2>2 DEF GuardHeld, Alive
  <2>4. LeaseStands' /\ RenameHarmless'
    BY <2>1 DEF LeaseStands, RenameHarmless, Alive
  <2>5. JudgedDead'
    BY <2>1, JudgementStands
  <2>6. LeaseBorn'
    BY <2>1, LeaseStaysBorn
  <2> QED
    BY <2>3, <2>4, <2>5, <2>6
<1>4. CASE SyncUnlinkLease(o)
  <2>1. /\ main[o] = "sigunlink" /\ main' = [main EXCEPT ![o] = "sigstat"]
        /\ lease = o /\ lease' = NoLease /\ guard' = guard
        /\ aux' = aux /\ cmd' = cmd /\ judged' = judged
    BY <1>4 DEF SyncUnlinkLease, UnlinkLease, LeaseStands
  <2>2. GuardHeld'
    BY <2>1 DEF GuardHeld, Alive
  <2>3. LeaseStands' /\ RenameHarmless'
    BY <2>1 DEF LeaseStands, RenameHarmless
  <2>4. JudgedDead'
    BY <2>1, JudgementStands
  <2>5. LeaseBorn'
    BY <2>1, LeaseStaysBorn
  <2> QED
    BY <2>2, <2>3, <2>4, <2>5
<1> QED
  BY <1>1, <1>2, <1>3, <1>4 DEF Exit

(* In one scope a command that judges, reaps or stops keeps the invariant. *)
LEMMA CommandKeeps ==
  ASSUME OneScope, IInv, TypeOK', [Next]_vars, NEW c \in Commands, CommandStep(c)
  PROVE  GuardHeld' /\ LeaseStands' /\ RenameHarmless' /\ JudgedDead' /\ LeaseBorn'
<1> USE LeaseAssumption DEF IInv, TypeOK, MainTo, CmdTo
<1>1. \A q \in Owners : /\ main[q] = "dead" => main'[q] = "dead"
                        /\ main[q] # "unborn" => main'[q] # "unborn"
  BY OwnersDieOnce
<1>2. CASE Inspect(c)
  <2>1. /\ lease \in Owners /\ judged' = [judged EXCEPT ![c] = lease]
        /\ \/ Recoverable(c, lease) /\ cmd' = [cmd EXCEPT ![c] = "reap"]
           \/ Signallable(c, lease) /\ cmd' = [cmd EXCEPT ![c] = "verify"]
        /\ lease' = lease /\ guard' = guard /\ main' = main /\ aux' = aux
    BY <1>2 DEF Inspect
  <2>2. \/ main[lease] = "dead" /\ cmd' = [cmd EXCEPT ![c] = "reap"]
        \/ main[lease] # "unborn" /\ cmd' = [cmd EXCEPT ![c] = "verify"]
    BY <2>1 DEF Recoverable, Signallable, OneScope, Procs, Alive, LeaseBorn
  <2>3. GuardHeld' /\ LeaseStands' /\ RenameHarmless'
    BY <2>1, <2>2 DEF GuardHeld, LeaseStands, RenameHarmless, Alive
  <2>4. JudgedDead'
    BY <2>1, <2>2 DEF JudgedDead, Procs
  <2>5. LeaseBorn'
    BY <2>1, LeaseStaysBorn
  <2> QED
    BY <2>3, <2>4, <2>5
<1>3. CASE CommandReaps(c)
  <2>1. /\ cmd[c] = "reap" /\ GuardOpen(c)
        /\ \/ /\ lease = judged[c] /\ lease' = NoLease /\ guard' = <<c, "main">>
              /\ cmd' = [cmd EXCEPT ![c] = "reapsocket"]
           \/ lease' = lease /\ guard' = guard /\ cmd' = [cmd EXCEPT ![c] = "idle"]
        /\ main' = main /\ aux' = aux /\ judged' = judged
    BY <1>3 DEF CommandReaps, UnlinkLease, Hold
  <2>2. /\ \A q \in Owners :
              /\ main[q] \notin {"rmgarbage", "reap", "reapsocket", "rmsocket", "relsocket"}
              /\ aux[q] # "idle" => ~Alive(q)
        /\ \A d \in Commands : cmd[d] # "reapsocket"
    BY <2>1, OpenGuard DEF Procs
  <2>3. main[judged[c]] = "dead"
    BY <2>1 DEF JudgedDead
  <2>4. GuardHeld'
    BY <2>1, <2>2 DEF GuardHeld, Alive
  <2>5. LeaseStands' /\ RenameHarmless'
    BY <2>1, <2>2, <2>3 DEF LeaseStands, RenameHarmless, Standing, Serving, Alive
  <2>6. JudgedDead'
    BY <2>1 DEF JudgedDead
  <2>7. LeaseBorn'
    BY <2>1, LeaseStaysBorn
  <2> QED
    BY <2>4, <2>5, <2>6, <2>7
<1>4. CASE CommandReapsSocket(c)
  <2>1. /\ cmd[c] = "reapsocket" /\ cmd' = [cmd EXCEPT ![c] = "idle"] /\ lease' = lease
        /\ guard' = (IF guard = <<c, "main">> THEN Free ELSE guard)
        /\ main' = main /\ aux' = aux /\ judged' = judged
    BY <1>4 DEF CommandReapsSocket, LetGo
  <2>2. guard = <<c, "main">>
    BY <2>1 DEF GuardHeld
  <2>3. GuardHeld'
    BY <2>1, <2>2 DEF GuardHeld, Alive
  <2>4. LeaseStands' /\ RenameHarmless' /\ JudgedDead'
    BY <2>1 DEF LeaseStands, RenameHarmless, Alive, JudgedDead
  <2>5. LeaseBorn'
    BY <2>1, LeaseStaysBorn
  <2> QED
    BY <2>3, <2>4, <2>5
<1>5. CASE VerifyOwner(c)
  <2>1. /\ cmd[c] = "verify" /\ GuardOpen(c) /\ guard' = Free /\ lease' = lease
        /\ \E s \in {"kill", "idle"} : cmd' = [cmd EXCEPT ![c] = s]
        /\ main' = main /\ aux' = aux /\ judged' = judged
    BY <1>5 DEF VerifyOwner
  <2>2. /\ \A q \in Owners :
              /\ main[q] \notin {"rmgarbage", "reap", "reapsocket", "rmsocket", "relsocket"}
              /\ aux[q] # "idle" => ~Alive(q)
        /\ \A d \in Commands : cmd[d] # "reapsocket"
    BY <2>1, OpenGuard DEF Procs
  <2>3. GuardHeld'
    BY <2>1, <2>2 DEF GuardHeld, Alive
  <2>4. LeaseStands' /\ RenameHarmless' /\ JudgedDead'
    BY <2>1 DEF LeaseStands, RenameHarmless, Alive, JudgedDead
  <2>5. LeaseBorn'
    BY <2>1, LeaseStaysBorn
  <2> QED
    BY <2>3, <2>4, <2>5
<1>6. CASE Terminate(c) \/ AwaitExit(c)
  <2>1. /\ lease' = lease /\ guard' = guard /\ aux' = aux /\ judged' = judged
        /\ judged[c] \in Owners /\ main[judged[c]] # "unborn"
        /\ \/ cmd' = [cmd EXCEPT ![c] = "wait"]
           \/ cmd' = [cmd EXCEPT ![c] = "reap"] /\ main' = [main EXCEPT ![judged[c]] = "dead"]
    BY <1>6 DEF Terminate, AwaitExit, JudgedDead
  <2>2. \/ main' = main
        \/ /\ main[judged[c]] # "dead"
           /\ main' = [main EXCEPT ![judged[c]] = "sigread"]
        \/ main' = [main EXCEPT ![judged[c]] = "dead"]
    <3>1. CASE Terminate(c)
      <4>1. CASE Handling(judged[c])
        BY <3>1, <4>1 DEF Terminate, Handling, Serving, Releasing
      <4>2. CASE ~Handling(judged[c])
        BY <2>1, <3>1, <4>2 DEF Terminate
      <4> QED
        BY <4>1, <4>2
    <3>2. CASE AwaitExit(c)
      BY <3>2 DEF AwaitExit
    <3> QED
      BY <1>6, <3>1, <3>2
  <2>3. GuardHeld'
    BY <2>1, <2>2 DEF GuardHeld, Alive
  <2>4. LeaseStands' /\ RenameHarmless'
    BY <2>1, <2>2 DEF LeaseStands, RenameHarmless, Alive, Standing, Serving
  <2>5. \A q \in Owners : main'[q] = "reap" => main[q] = "reap"
    BY <2>1, <2>2
  <2>6. JudgedDead'
    BY <1>1, <2>1, <2>5 DEF JudgedDead
  <2>7. LeaseBorn'
    BY <2>1, LeaseStaysBorn
  <2> QED
    BY <2>3, <2>4, <2>6, <2>7
<1>7. CASE CommandTimeout(c) \/ CommandCrash(c)
  <2>1. /\ lease' = lease /\ guard' = guard /\ main' = main /\ aux' = aux /\ judged' = judged
        /\ \E s \in {"idle", "dead"} : cmd' = [cmd EXCEPT ![c] = s]
    BY <1>7 DEF CommandTimeout, CommandCrash
  <2>2. GuardHeld' /\ LeaseStands' /\ RenameHarmless' /\ JudgedDead'
    BY <2>1 DEF GuardHeld, LeaseStands, RenameHarmless, Alive, JudgedDead
  <2>3. LeaseBorn'
    BY <2>1, LeaseStaysBorn
  <2> QED
    BY <2>2, <2>3
<1> QED
  BY <1>2, <1>3, <1>4, <1>5, <1>6, <1>7 DEF CommandStep, Finish

(* The inductive invariant of one scope.                                   *)
LEMMA Inductive == ASSUME OneScope PROVE Spec => []IInv
<1>1. Init => IInv
  <2> SUFFICES ASSUME Init PROVE IInv
    OBVIOUS
  <2>1. TypeOK
    BY LeaseAssumption DEF Init, TypeOK, Procs, MainValues, AuxValues, CmdValues
  <2>2. GuardHeld /\ LeaseStands /\ RenameHarmless /\ JudgedDead /\ LeaseBorn
    BY LeaseAssumption DEF Init, GuardHeld, LeaseStands, Standing, Serving, RenameHarmless,
                           JudgedDead, LeaseBorn
  <2> QED
    BY <2>1, <2>2 DEF IInv
<1>2. IInv /\ TypeOK' /\ [Next]_vars => IInv'
  <2> SUFFICES ASSUME IInv, TypeOK', [Next]_vars
               PROVE  GuardHeld' /\ LeaseStands' /\ RenameHarmless' /\ JudgedDead' /\ LeaseBorn'
    BY DEF IInv
  <2>1. CASE UNCHANGED vars
    BY <2>1 DEF vars, IInv, GuardHeld, LeaseStands, RenameHarmless, JudgedDead, LeaseBorn, Alive
  <2>2. CASE Tick \/ LoseSocket
    <3>1. /\ lease' = lease /\ guard' = guard /\ main' = main
          /\ aux' = aux /\ cmd' = cmd /\ judged' = judged
      BY <2>2 DEF Tick, LoseSocket
    <3> QED
      BY <3>1 DEF IInv, GuardHeld, LeaseStands, RenameHarmless, JudgedDead, LeaseBorn, Alive
  <2>3. ASSUME NEW o \in Owners, OwnerStep(o)
        PROVE  GuardHeld' /\ LeaseStands' /\ RenameHarmless' /\ JudgedDead' /\ LeaseBorn'
    <3>1. CASE Acquire(o) \/ Background(o) \/ Exit(o)
      BY <3>1, AcquireKeeps, BackgroundKeeps, ExitKeeps
    <3>2. CASE Spawn(o) \/ GuardTimeout(o) \/ BeginClose(o) \/ FatalSignal(o) \/ Crash(o)
      <4>1. /\ lease' = lease /\ guard' = guard /\ aux' = aux /\ cmd' = cmd /\ judged' = judged
            /\ \/ main[o] = "unborn" /\ main' = [main EXCEPT ![o] = "acquire"]
               \/ main' = [main EXCEPT ![o] = "dead"]
               \/ main[o] = "serving" /\ main' = [main EXCEPT ![o] = "closing"]
               \/ Handling(o) /\ main' = [main EXCEPT ![o] = "sigread"]
        BY <3>2 DEF Spawn, GuardTimeout, BeginClose, FatalSignal, Crash, MainTo
      <4>2. PICK s : /\ main' = [main EXCEPT ![o] = s]
                     /\ s \in {"acquire", "dead", "closing", "sigread"}
                     /\ s = "closing" => lease = o
                     /\ main[o] # "dead" \/ s = "dead"
        BY <4>1 DEF IInv, LeaseStands, Standing, Handling, Serving, Releasing
      <4> QED
        BY <4>1, <4>2, QuietMove DEF Standing, Serving
    <3> QED
      BY <2>3, <3>1, <3>2 DEF OwnerStep
  <2> QED
    BY <2>1, <2>2, <2>3, CommandKeeps DEF Next
<1> QED
  BY <1>1, <1>2, TypeCorrect, PTL DEF Spec

(* In one scope a session never has two owners (tryAcquireQueueOwnerLease):*)
(* an owner that believes in its lease has it, and one file holds one.     *)
THEOREM OneOwnerAlways == ASSUME OneScope PROVE Spec => []OneOwner
<1>1. IInv => OneOwner
  BY LeaseAssumption DEF IInv, LeaseStands, Standing, OneOwner, Owning
<1> QED
  BY <1>1, Inductive, PTL

(* In one scope a live owner loses its lease only by its own release: the  *)
(* reapers judged a dead process, and no rename meets a successor's lease. *)
THEOREM LiveOwnerAlwaysKeepsLease == ASSUME OneScope PROVE Spec => LiveOwnerKeepsLease
<1>1. IInv /\ [Next]_vars =>
        [\A o \in Owners :
           lease = o /\ Alive(o) /\ lease' # o => main[o] \in {"release", "sigunlink"}]_vars
  <2> SUFFICES ASSUME IInv, [Next]_vars, NEW o \in Owners, lease = o, Alive(o), lease' # o
               PROVE  main[o] \in {"release", "sigunlink"}
    OBVIOUS
  <2> USE LeaseAssumption DEF IInv, TypeOK
  <2>1. CASE UNCHANGED vars \/ Tick \/ LoseSocket
    BY <2>1 DEF vars, Tick, LoseSocket
  <2>2. ASSUME NEW q \in Owners, Acquire(q) PROVE FALSE
    <3>1. CASE AcquireLease(q) \/ RemoveGarbage(q)
      BY <3>1 DEF AcquireLease, RemoveGarbage
    <3>2. CASE AcquirerReaps(q)
      BY <3>2 DEF AcquirerReaps, JudgedDead, Alive
    <3>3. CASE RemoveOldSocket(q) \/ AcquireTaken(q) \/ AcquirerReapsSocket(q) \/ Listen(q)
      BY <3>3 DEF RemoveOldSocket, AcquireTaken, AcquirerReapsSocket, Listen
    <3> QED
      BY <2>2, <3>1, <3>2, <3>3 DEF Acquire
  <2>3. ASSUME NEW q \in Owners, Background(q) PROVE FALSE
    <3>1. CASE BeatRename(q)
      BY <3>1 DEF BeatRename, Publish, RenameHarmless
    <3>2. CASE BeatRepublish(q)
      BY <3>2 DEF BeatRepublish
    <3>3. CASE BeatOwnLease(q) \/ BeatSuperseded(q)
      BY <3>3 DEF BeatOwnLease, BeatSuperseded
    <3>4. CASE RepairProbe(q) \/ RepairClose(q) \/ RepairListen(q)
      BY <3>4 DEF RepairProbe, RepairClose, RepairListen
    <3> QED
      BY <2>3, <3>1, <3>2, <3>3, <3>4 DEF Background
  <2>4. ASSUME NEW q \in Owners, Exit(q) PROVE main[o] \in {"release", "sigunlink"}
    <3>1. CASE ReleaseLease(q)
      BY <3>1 DEF ReleaseLease
    <3>2. CASE SyncUnlinkLease(q)
      BY <3>2 DEF SyncUnlinkLease, LeaseStands, Standing
    <3>3. CASE CompareInode(q) \/ Unbind(q) \/ StopHeartbeat(q) \/ ReleaseSocket(q)
      BY <3>3 DEF CompareInode, Unbind, StopHeartbeat, ReleaseSocket
    <3>4. CASE SyncReadLease(q) \/ SyncStatSocket(q) \/ SyncUnlinkSocket(q)
      BY <3>4 DEF SyncReadLease, SyncStatSocket, SyncUnlinkSocket
    <3> QED
      BY <2>4, <3>1, <3>2, <3>3, <3>4 DEF Exit
  <2>5. ASSUME NEW q \in Owners,
               Spawn(q) \/ GuardTimeout(q) \/ BeginClose(q) \/ FatalSignal(q) \/ Crash(q)
        PROVE  FALSE
    BY <2>5 DEF Spawn, GuardTimeout, BeginClose, FatalSignal, Crash
  <2>6. ASSUME NEW c \in Commands, CommandStep(c) PROVE FALSE
    <3>1. CASE CommandReaps(c)
      BY <3>1 DEF CommandReaps, JudgedDead, Alive
    <3>2. CASE Inspect(c) \/ CommandReapsSocket(c) \/ VerifyOwner(c)
      BY <3>2 DEF Inspect, CommandReapsSocket, VerifyOwner
    <3>3. CASE Terminate(c) \/ AwaitExit(c) \/ CommandTimeout(c) \/ CommandCrash(c)
      BY <3>3 DEF Terminate, AwaitExit, CommandTimeout, CommandCrash
    <3> QED
      BY <2>6, <3>1, <3>2, <3>3 DEF CommandStep, Finish
  <2> QED
    BY <2>1, <2>2, <2>3, <2>4, <2>5, <2>6 DEF Next, OwnerStep
<1> QED
  BY <1>1, Inductive, PTL DEF Spec, LiveOwnerKeepsLease

-----------------------------------------------------------------------------
(* The socket of one scope.  Whoever removes a socket by name does so      *)
(* under the guard, with the lease gone, or has seen that none was there.  *)

(* From the removal of a lease to that of its socket no lease is published. *)
ReapedEmpty ==
  /\ \A o \in Owners : main[o] = "reapsocket" => lease = NoLease
  /\ \A c \in Commands : cmd[c] = "reapsocket" => lease = NoLease

Early == Starting \cup {"unborn", "owned"}

(* A repair closes the listener of an owner whose socket is not there; it  *)
(* begins when the owner serves, and only then.                            *)
ReopenLost ==
  \A o \in Owners :
    /\ aux[o] \in {"reopen", "relisten"} => main[o] \notin Early
    /\ aux[o] = "reopen" => socket # o

(* Nobody is between the removal of a lease and that of its socket.        *)
NobodyReaps ==
  /\ \A o \in Owners : main[o] # "reapsocket"
  /\ \A c \in Commands : cmd[c] # "reapsocket"

LEMMA ReapedEmptyKept ==
  ASSUME OneScope, IInv, ReapedEmpty, [Next]_vars
  PROVE  ReapedEmpty'
<1> USE LeaseAssumption DEF ReapedEmpty, IInv, TypeOK, MainTo, CmdTo
<1>a. ASSUME NEW p \in Procs, GuardOpen(p) PROVE NobodyReaps
  BY <1>a, OpenGuard DEF NobodyReaps
<1>b. ASSUME lease' \in {lease, NoLease},
             \A o \in Owners : main'[o] = "reapsocket" => main[o] = "reapsocket",
             \A c \in Commands : cmd'[c] = "reapsocket" => cmd[c] = "reapsocket"
      PROVE  ReapedEmpty'
  BY <1>b
<1>1. CASE UNCHANGED vars \/ Tick \/ LoseSocket
  BY <1>1 DEF vars, Tick, LoseSocket
<1>2. ASSUME NEW o \in Owners, Acquire(o) PROVE ReapedEmpty'
  <2>1. CASE AcquireLease(o)
    BY <1>a, <2>1 DEF AcquireLease, Procs, NobodyReaps
  <2>2. CASE AcquirerReaps(o)
    BY <2>2 DEF AcquirerReaps, UnlinkLease
  <2>3. CASE RemoveGarbage(o)
    BY <1>b, <2>3 DEF RemoveGarbage, UnlinkLease
  <2>4. CASE RemoveOldSocket(o) \/ AcquireTaken(o) \/ AcquirerReapsSocket(o) \/ Listen(o)
    <3>1. /\ lease' = lease /\ cmd' = cmd
          /\ \E s \in MainValues \ {"reapsocket"} : main' = [main EXCEPT ![o] = s]
      <4>1. CASE AcquireTaken(o)
        BY <4>1 DEF AcquireTaken, MainValues, Starting
      <4>2. CASE RemoveOldSocket(o) \/ AcquirerReapsSocket(o) \/ Listen(o)
        BY <4>2 DEF RemoveOldSocket, AcquirerReapsSocket, Listen, MainValues, Serving
      <4> QED
        BY <2>4, <4>1, <4>2
    <3> QED
      BY <1>b, <3>1
  <2> QED
    BY <1>2, <2>1, <2>2, <2>3, <2>4 DEF Acquire
<1>3. ASSUME NEW o \in Owners, Background(o) PROVE ReapedEmpty'
  <2>1. CASE BeatRename(o)
    <3>1. guard = <<o, "aux">>
      BY <2>1 DEF BeatRename, GuardHeld
    <3>2. NobodyReaps
      BY <3>1 DEF GuardHeld, NobodyReaps
    <3> QED
      BY <2>1, <3>2 DEF BeatRename, NobodyReaps
  <2>2. CASE BeatRepublish(o)
    BY <1>a, <2>2 DEF BeatRepublish, Procs, NobodyReaps
  <2>3. CASE BeatOwnLease(o) \/ BeatSuperseded(o)
    BY <1>b, <2>3 DEF BeatOwnLease, BeatSuperseded
  <2>4. CASE RepairProbe(o) \/ RepairClose(o) \/ RepairListen(o)
    BY <1>b, <2>4 DEF RepairProbe, RepairClose, RepairListen
  <2> QED
    BY <1>3, <2>1, <2>2, <2>3, <2>4 DEF Background
<1>4. ASSUME NEW o \in Owners, Exit(o) PROVE ReapedEmpty'
  <2>1. /\ lease' \in {lease, NoLease} /\ cmd' = cmd
        /\ \E s \in MainValues \ {"reapsocket"} : main' = [main EXCEPT ![o] = s]
    <3> USE DEF MainValues, Serving, Releasing, Signalled
    <3>1. CASE CompareInode(o) \/ Unbind(o) \/ StopHeartbeat(o)
      BY <3>1 DEF CompareInode, Unbind, StopHeartbeat
    <3>2. CASE ReleaseLease(o) \/ ReleaseSocket(o)
      BY <3>2 DEF ReleaseLease, ReleaseSocket, UnlinkLease
    <3>3. CASE SyncReadLease(o) \/ SyncUnlinkLease(o) \/ SyncStatSocket(o) \/ SyncUnlinkSocket(o)
      BY <3>3 DEF SyncReadLease, SyncUnlinkLease, SyncStatSocket, SyncUnlinkSocket, UnlinkLease
    <3> QED
      BY <1>4, <3>1, <3>2, <3>3 DEF Exit
  <2> QED
    BY <1>b, <2>1
<1>5. ASSUME NEW o \in Owners,
             Spawn(o) \/ GuardTimeout(o) \/ BeginClose(o) \/ FatalSignal(o) \/ Crash(o)
      PROVE  ReapedEmpty'
  BY <1>b, <1>5 DEF Spawn, GuardTimeout, BeginClose, FatalSignal, Crash
<1>6. ASSUME NEW c \in Commands, CommandStep(c) PROVE ReapedEmpty'
  <2>1. CASE CommandReaps(c)
    BY <2>1 DEF CommandReaps, UnlinkLease
  <2>2. CASE Inspect(c) \/ CommandReapsSocket(c) \/ VerifyOwner(c)
    BY <1>b, <2>2 DEF Inspect, CommandReapsSocket, VerifyOwner
  <2>3. CASE Terminate(c)
    <3>1. CASE Handling(judged[c])
      BY <1>b, <2>3, <3>1 DEF Terminate
    <3>2. CASE ~Handling(judged[c])
      BY <1>b, <2>3, <3>2 DEF Terminate
    <3> QED
      BY <3>1, <3>2
  <2>4. CASE AwaitExit(c) \/ CommandTimeout(c) \/ CommandCrash(c)
    BY <1>b, <2>4 DEF AwaitExit, CommandTimeout, CommandCrash
  <2> QED
    BY <1>6, <2>1, <2>2, <2>3, <2>4 DEF CommandStep, Finish
<1> QED
  BY <1>1, <1>2, <1>3, <1>4, <1>5, <1>6 DEF Next, OwnerStep

LEMMA ReopenLostKept ==
  ASSUME IInv, ReopenLost, [Next]_vars
  PROVE  ReopenLost'
<1> USE LeaseAssumption DEF ReopenLost, IInv, TypeOK, MainTo, AuxTo
<1>b. ASSUME aux' = aux, \A o \in Owners : main'[o] \in Early => main[o] \in Early,
             socket' \in {socket, NoSocket}
      PROVE  ReopenLost'
  BY <1>b
<1>c. ASSUME NEW o \in Owners, aux' = aux, socket' \in {socket, NoSocket},
             \E s \in MainValues : /\ main' = [main EXCEPT ![o] = s]
                                   /\ s \in Early => main[o] \in Early
      PROVE  ReopenLost'
  <2>1. PICK s \in MainValues : /\ main' = [main EXCEPT ![o] = s]
                                /\ s \in Early => main[o] \in Early
    BY <1>c
  <2>2. \A q \in Owners : main'[q] \in Early => main[q] \in Early
    BY <2>1
  <2> QED
    BY <1>b, <1>c, <2>2
<1> USE DEF Early
<1>1. CASE UNCHANGED vars \/ Tick \/ LoseSocket
  BY <1>1 DEF vars, Tick, LoseSocket
<1>2. ASSUME NEW o \in Owners, Acquire(o) PROVE ReopenLost'
  <2> USE DEF MainValues, Starting, Serving
  <2>1. CASE AcquireLease(o) \/ RemoveOldSocket(o) \/ RemoveGarbage(o)
    BY <1>c, <2>1 DEF AcquireLease, RemoveOldSocket, RemoveGarbage
  <2>2. CASE AcquireTaken(o)
    BY <1>c, <2>2 DEF AcquireTaken
  <2>3. CASE AcquirerReaps(o) \/ AcquirerReapsSocket(o)
    BY <1>c, <2>3 DEF AcquirerReaps, AcquirerReapsSocket
  <2>4. CASE Listen(o)
    BY <2>4 DEF Listen
  <2> QED
    BY <1>2, <2>1, <2>2, <2>3, <2>4 DEF Acquire
<1>3. ASSUME NEW o \in Owners, Background(o) PROVE ReopenLost'
  <2>1. CASE BeatOwnLease(o) \/ BeatRename(o) \/ BeatRepublish(o)
    BY <2>1 DEF BeatOwnLease, BeatRename, BeatRepublish
  <2>2. CASE BeatSuperseded(o)
    BY <1>c, <2>2 DEF BeatSuperseded, MainValues, Signalled, Starting
  <2>3. CASE RepairProbe(o)
    BY <2>3 DEF RepairProbe, Starting
  <2>4. CASE RepairClose(o) \/ RepairListen(o)
    BY <2>4 DEF RepairClose, RepairListen
  <2> QED
    BY <1>3, <2>1, <2>2, <2>3, <2>4 DEF Background
<1>4. ASSUME NEW o \in Owners, Exit(o) PROVE ReopenLost'
  <2> USE DEF MainValues, Serving, Releasing, Signalled, Starting
  <2>1. CASE CompareInode(o) \/ Unbind(o) \/ StopHeartbeat(o)
    BY <1>c, <2>1 DEF CompareInode, Unbind, StopHeartbeat
  <2>2. CASE ReleaseLease(o) \/ ReleaseSocket(o)
    BY <1>c, <2>2 DEF ReleaseLease, ReleaseSocket
  <2>3. CASE SyncReadLease(o) \/ SyncUnlinkLease(o) \/ SyncStatSocket(o) \/ SyncUnlinkSocket(o)
    BY <1>c, <2>3 DEF SyncReadLease, SyncUnlinkLease, SyncStatSocket, SyncUnlinkSocket
  <2> QED
    BY <1>4, <2>1, <2>2, <2>3 DEF Exit
<1>5. ASSUME NEW o \in Owners,
             Spawn(o) \/ GuardTimeout(o) \/ BeginClose(o) \/ FatalSignal(o) \/ Crash(o)
      PROVE  ReopenLost'
  BY <1>c, <1>5 DEF Spawn, GuardTimeout, BeginClose, FatalSignal, Crash,
     MainValues, Serving, Releasing, Signalled, Starting
<1>6. ASSUME NEW c \in Commands, CommandStep(c) PROVE ReopenLost'
  <2>1. CASE Inspect(c) \/ CommandTimeout(c) \/ CommandCrash(c)
    BY <2>1 DEF Inspect, CommandTimeout, CommandCrash
  <2>2. CASE CommandReaps(c) \/ CommandReapsSocket(c) \/ VerifyOwner(c)
    BY <2>2 DEF CommandReaps, CommandReapsSocket, VerifyOwner
  <2>3. CASE Terminate(c)
    <3> DEFINE o == judged[c]
    <3>1. o \in Owners
      BY <2>3 DEF Terminate, JudgedDead
    <3>2. \E s \in MainValues : /\ main' = [main EXCEPT ![o] = s]
                                /\ s \in Early => main[o] \in Early
      <4>0. {"sigread", "dead"} \subseteq MainValues \ Early
        BY DEF MainValues, Signalled, Starting
      <4>1. CASE main[o] \in Signalled /\ ~Handling(o)
        BY <2>3, <3>1, <4>1 DEF Terminate, MainValues, Signalled, Starting
      <4>2. CASE Handling(o)
        <5>1. main' = [main EXCEPT ![o] = "sigread"]
          BY <2>3, <4>2 DEF Terminate
        <5> QED
          BY <5>1, <4>0
      <4>3. CASE main[o] \notin Signalled /\ ~Handling(o)
        <5>1. main' = [main EXCEPT ![o] = "dead"]
          BY <2>3, <4>3 DEF Terminate
        <5> QED
          BY <5>1, <4>0
      <4> QED
        BY <4>1, <4>2, <4>3
    <3> QED
      BY <1>c, <2>3, <3>1, <3>2 DEF Terminate
  <2>4. CASE AwaitExit(c)
    BY <1>c, <2>4 DEF AwaitExit, JudgedDead, MainValues, Starting
  <2> QED
    BY <1>6, <2>1, <2>2, <2>3, <2>4 DEF CommandStep, Finish
<1> QED
  BY <1>1, <1>2, <1>3, <1>4, <1>5, <1>6 DEF Next, OwnerStep

(* In one scope the socket of the owner that serves goes away only by an   *)
(* outsider's hand or by a signal handler that compared the inode before   *)
(* another owner bound the path: no reaper, repair or start takes it.      *)
THEOREM ServingSocketAlwaysKept == ASSUME OneScope PROVE Spec => ServingSocketKept
<1>1. Init => ReapedEmpty /\ ReopenLost
  BY DEF Init, ReapedEmpty, ReopenLost
<1>2. IInv /\ (ReapedEmpty /\ ReopenLost) /\ [Next]_vars => (ReapedEmpty /\ ReopenLost)'
  BY ReapedEmptyKept, ReopenLostKept
<1>3. IInv /\ ReapedEmpty /\ ReopenLost /\ [Next]_vars =>
        [\A o \in Owners :
           socket = o /\ lease = o /\ main[o] = "serving" /\ socket' # o
           => \/ losses' # losses
              \/ \E q \in Owners : main[q] = "sigsocket"]_vars
  <2> SUFFICES ASSUME IInv, ReapedEmpty, ReopenLost, [Next]_vars, NEW o \in Owners,
                      socket = o, lease = o, main[o] = "serving", socket' # o,
                      \A q \in Owners : main[q] # "sigsocket"
               PROVE  losses' # losses
    OBVIOUS
  <2> USE LeaseAssumption DEF IInv, TypeOK
  <2>1. CASE UNCHANGED vars \/ Tick \/ LoseSocket
    BY <2>1 DEF vars, Tick, LoseSocket
  <2>2. ASSUME NEW q \in Owners, Acquire(q) PROVE FALSE
    <3>1. CASE RemoveOldSocket(q)
      BY <3>1 DEF RemoveOldSocket, LeaseStands, Standing
    <3>2. CASE AcquirerReapsSocket(q)
      BY <3>2 DEF AcquirerReapsSocket, ReapedEmpty
    <3>3. CASE AcquireLease(q) \/ AcquireTaken(q) \/ RemoveGarbage(q) \/ AcquirerReaps(q)
      BY <3>3 DEF AcquireLease, AcquireTaken, RemoveGarbage, AcquirerReaps
    <3>4. CASE Listen(q)
      BY <3>4 DEF Listen
    <3> QED
      BY <2>2, <3>1, <3>2, <3>3, <3>4 DEF Acquire
  <2>3. ASSUME NEW q \in Owners, Background(q) PROVE FALSE
    <3>1. CASE RepairClose(q)
      BY <3>1 DEF RepairClose, ReopenLost, LeaseStands, Standing
    <3>2. CASE RepairListen(q)
      BY <3>2 DEF RepairListen
    <3>3. CASE BeatOwnLease(q) \/ BeatRename(q) \/ BeatRepublish(q) \/ BeatSuperseded(q)
               \/ RepairProbe(q)
      BY <3>3 DEF BeatOwnLease, BeatRename, BeatRepublish, BeatSuperseded, RepairProbe
    <3> QED
      BY <2>3, <3>1, <3>2, <3>3 DEF Background
  <2>4. ASSUME NEW q \in Owners, Exit(q) PROVE FALSE
    <3>1. CASE Unbind(q)
      BY <3>1 DEF Unbind, LeaseStands, Standing, Serving
    <3>2. CASE ReleaseSocket(q)
      BY <3>2 DEF ReleaseSocket
    <3>3. CASE CompareInode(q) \/ StopHeartbeat(q) \/ ReleaseLease(q)
      BY <3>3 DEF CompareInode, StopHeartbeat, ReleaseLease
    <3>4. CASE SyncReadLease(q) \/ SyncUnlinkLease(q) \/ SyncStatSocket(q) \/ SyncUnlinkSocket(q)
      BY <3>4 DEF SyncReadLease, SyncUnlinkLease, SyncStatSocket, SyncUnlinkSocket
    <3> QED
      BY <2>4, <3>1, <3>2, <3>3, <3>4 DEF Exit
  <2>5. ASSUME NEW q \in Owners,
               Spawn(q) \/ GuardTimeout(q) \/ BeginClose(q) \/ FatalSignal(q) \/ Crash(q)
        PROVE  FALSE
    BY <2>5 DEF Spawn, GuardTimeout, BeginClose, FatalSignal, Crash
  <2>6. ASSUME NEW c \in Commands, CommandStep(c) PROVE FALSE
    <3>1. CASE CommandReapsSocket(c)
      BY <3>1 DEF CommandReapsSocket, ReapedEmpty
    <3>2. CASE Inspect(c) \/ CommandReaps(c) \/ VerifyOwner(c)
      BY <3>2 DEF Inspect, CommandReaps, VerifyOwner
    <3>3. CASE Terminate(c) \/ AwaitExit(c) \/ CommandTimeout(c) \/ CommandCrash(c)
      BY <3>3 DEF Terminate, AwaitExit, CommandTimeout, CommandCrash
    <3> QED
      BY <2>6, <3>1, <3>2, <3>3 DEF CommandStep, Finish
  <2> QED
    BY <2>1, <2>2, <2>3, <2>4, <2>5, <2>6 DEF Next, OwnerStep
<1> QED
  BY <1>1, <1>2, <1>3, Inductive, PTL DEF Spec, ServingSocketKept

-----------------------------------------------------------------------------
(* Several scopes, nobody stalled in a guarded section past its breaking.  *)

(* The lease an acquirer is about to reap in another scope is as silent as *)
(* it was when it was judged.                                              *)
SilentStill ==
  \A o \in Owners :
    main[o] = "reap" /\ lease \in Owners /\ Scope[lease] # Scope[o] => age = 2

Honest == GuardHeld /\ RenameHarmless /\ SilentStill

Inside == {"rmgarbage", "reap", "reapsocket", "rmsocket", "relsocket"}
NobodyInside ==
  /\ \A q \in Owners : main[q] \notin Inside /\ (aux[q] # "idle" => ~Alive(q))
  /\ \A c \in Commands : cmd[c] # "reapsocket"

(* An owner outside the guard, or on its way out of it, publishes nothing. *)
LEMMA OutsideHonest ==
  ASSUME TypeOK, Honest, NEW o \in Owners, NEW s, main' = [main EXCEPT ![o] = s],
         s \notin Inside \cup {"unborn"},
         main[o] # "dead" \/ s = "dead",
         lease' \in {lease, NoLease}, age' = age, aux' = aux, cmd' = cmd,
         guard' = guard \/ (guard' = Free /\ guard = <<o, "main">>)
  PROVE  Honest'
<1> USE LeaseAssumption DEF TypeOK, Honest, Inside
<1>1. \A q \in Owners : main'[q] = (IF q = o THEN s ELSE main[q])
  OBVIOUS
<1>2. \A q \in Owners : aux[q] # "idle" /\ Alive(q)' => Alive(q)
  BY <1>1 DEF Alive, GuardHeld
<1>3. GuardHeld'
  BY <1>1, <1>2 DEF GuardHeld
<1>4. RenameHarmless'
  BY <1>2 DEF RenameHarmless
<1>5. SilentStill'
  BY <1>1 DEF SilentStill
<1> QED
  BY <1>3, <1>4, <1>5

(* Whoever enters a guarded section finds nobody in one.                   *)
LEMMA EnteringHonest ==
  ASSUME TypeOK, Honest, NobodyInside, NEW o \in Owners, NEW s,
         main' = [main EXCEPT ![o] = s], s \in Inside, main[o] \notin {"dead", "unborn"},
         guard' = <<o, "main">>, aux' = aux, cmd' = cmd,
         s = "reap" =>
           lease' = lease /\ age' = age /\ (Scope[lease] # Scope[o] => age = 2)
  PROVE  Honest'
<1> USE LeaseAssumption DEF TypeOK, Honest, Inside
<1>1. \A q \in Owners : main'[q] = (IF q = o THEN s ELSE main[q])
  OBVIOUS
<1>2. \A q \in Owners : aux[q] # "idle" => ~Alive(q)'
  BY <1>1 DEF Alive, NobodyInside
<1>3. GuardHeld'
  BY <1>1, <1>2 DEF GuardHeld, NobodyInside
<1>4. RenameHarmless'
  BY <1>2 DEF RenameHarmless
<1>5. SilentStill'
  BY <1>1 DEF SilentStill, NobodyInside
<1> QED
  BY <1>3, <1>4, <1>5

(* A command that holds nothing and stops at most one owner.               *)
LEMMA CommandHonest ==
  ASSUME TypeOK, Honest, NEW c \in Commands, NEW s, cmd' = [cmd EXCEPT ![c] = s],
         s # "reapsocket", lease' = lease, age' = age, aux' = aux,
         \/ guard' = guard
         \/ guard' = Free /\ (guard = <<c, "main">> \/ NobodyInside),
         \/ main' = main
         \/ \E o \in Owners, m \in {"sigread", "dead"} :
              /\ main' = [main EXCEPT ![o] = m]
              /\ main[o] \notin {"dead", "unborn"} \/ m = "dead"
  PROVE  Honest'
<1> USE LeaseAssumption DEF TypeOK, Honest, Inside
<1>1. \A q \in Owners : \/ main'[q] = main[q]
                        \/ main'[q] = "dead"
                        \/ main'[q] = "sigread" /\ main[q] \notin {"dead", "unborn"}
  OBVIOUS
<1>2. \A q \in Owners : aux[q] # "idle" /\ Alive(q)' => Alive(q)
  BY <1>1 DEF Alive, GuardHeld
<1>3. GuardHeld'
  BY <1>1, <1>2 DEF GuardHeld, NobodyInside
<1>4. RenameHarmless'
  BY <1>2 DEF RenameHarmless
<1>5. SilentStill'
  BY <1>1 DEF SilentStill
<1> QED
  BY <1>3, <1>4, <1>5

LEMMA HonestKept ==
  ASSUME LongPauses = FALSE, TypeOK, Honest, [Next]_vars
  PROVE  Honest'
<1> USE LeaseAssumption DEF MainTo, AuxTo, CmdTo
<1>t. /\ guard \in Procs \X {"main", "aux"} \cup {Free} /\ main \in [Owners -> MainValues]
      /\ aux \in [Owners -> AuxValues] /\ cmd \in [Commands -> CmdValues]
      /\ lease \in Owners \cup {NoLease, Garbage}
  BY DEF TypeOK
<1>a. ASSUME NEW p \in Procs, GuardOpen(p) PROVE NobodyInside
  BY <1>a, OpenGuard DEF NobodyInside, Inside, Honest
<1>1. CASE UNCHANGED vars \/ LoseSocket
  BY <1>1 DEF vars, LoseSocket, Honest, GuardHeld, RenameHarmless, SilentStill, Alive
<1>2. CASE Tick
  BY <1>2 DEF Tick, Honest, GuardHeld, RenameHarmless, SilentStill, Alive
<1>3. ASSUME NEW o \in Owners, Acquire(o) PROVE Honest'
  <2>1. CASE AcquireLease(o)
    <3>1. NobodyInside
      BY <1>a, <2>1 DEF AcquireLease, Procs
    <3> QED
      BY <2>1, <3>1, EnteringHonest DEF AcquireLease, Hold, Inside
  <2>2. CASE AcquireTaken(o)
    <3>1. NobodyInside
      BY <1>a, <2>2 DEF AcquireTaken, Procs
    <3>2. CASE Hold(o, "main") /\ MainTo(o, "rmgarbage")
      BY <2>2, <3>1, <3>2, EnteringHonest DEF AcquireTaken, Hold, Inside
    <3>3. CASE lease \in Owners /\ Recoverable(o, lease) /\ Hold(o, "main") /\ MainTo(o, "reap")
      BY <2>2, <3>1, <3>3, EnteringHonest DEF AcquireTaken, Hold, Inside, Recoverable
    <3>4. CASE MainTo(o, "dead") /\ UNCHANGED guard
      BY <2>2, <3>4, OutsideHonest DEF AcquireTaken, Inside
    <3> QED
      BY <2>2, <3>2, <3>3, <3>4 DEF AcquireTaken
  <2>3. CASE RemoveOldSocket(o) \/ RemoveGarbage(o) \/ AcquirerReapsSocket(o) \/ Listen(o)
    <3>1. /\ main[o] # "dead" /\ lease' \in {lease, NoLease} /\ age' = age
          /\ aux' = aux /\ cmd' = cmd
          /\ guard' = guard \/ (guard' = Free /\ guard = <<o, "main">>)
      BY <2>3 DEF RemoveOldSocket, RemoveGarbage, AcquirerReapsSocket, Listen, LetGo, UnlinkLease
    <3>2. \E s \in {"owned", "dead", "serving", "closed"} : main' = [main EXCEPT ![o] = s]
      BY <2>3 DEF RemoveOldSocket, RemoveGarbage, AcquirerReapsSocket, Listen
    <3> QED
      BY <3>1, <3>2, OutsideHonest DEF Inside
  <2>4. CASE AcquirerReaps(o)
    <3>1. CASE lease' = NoLease /\ main' = [main EXCEPT ![o] = "reapsocket"] /\ guard' = guard
      <4>1. main[o] = "reap" /\ aux' = aux /\ cmd' = cmd
        BY <2>4 DEF AcquirerReaps
      <4>2. /\ GuardHeld' /\ RenameHarmless' /\ SilentStill'
        BY <1>t, <3>1, <4>1 DEF Honest, GuardHeld, RenameHarmless, SilentStill, Alive
      <4> QED
        BY <4>2 DEF Honest
    <3>2. CASE LetGo(o, "main") /\ MainTo(o, "dead") /\ lease' = lease /\ age' = age
      BY <2>4, <3>2, OutsideHonest DEF AcquirerReaps, LetGo, Inside
    <3> QED
      BY <2>4, <3>1, <3>2 DEF AcquirerReaps, UnlinkLease
  <2> QED
    BY <1>3, <2>1, <2>2, <2>3, <2>4 DEF Acquire
<1>4. ASSUME NEW o \in Owners, Background(o) PROVE Honest'
  <2> USE DEF Beating, Serving
  <2>1. CASE BeatOwnLease(o) \/ RepairProbe(o)
    <3>1. NobodyInside
      BY <1>a, <2>1 DEF BeatOwnLease, RepairProbe, Procs
    <3>2. /\ lease = o /\ lease' = lease /\ age' = age /\ main' = main /\ cmd' = cmd
          /\ guard' = <<o, "aux">> /\ main[o] \in Serving
          /\ \E a \in {"rename", "reopen"} : aux' = [aux EXCEPT ![o] = a]
      BY <2>1 DEF BeatOwnLease, RepairProbe, Hold
    <3>3. GuardHeld'
      BY <1>t, <3>1, <3>2 DEF NobodyInside, Inside, Honest, GuardHeld, Alive
    <3>4. RenameHarmless' /\ SilentStill'
      BY <1>t, <3>1, <3>2 DEF NobodyInside, Honest, RenameHarmless, SilentStill, Alive
    <3> QED
      BY <3>3, <3>4 DEF Honest
  <2>2. CASE BeatRename(o)
    <3>1. /\ aux[o] = "rename" /\ Alive(o) /\ lease' = o /\ main' = main /\ cmd' = cmd
          /\ aux' = [aux EXCEPT ![o] = "idle"]
          /\ guard' = (IF guard = <<o, "aux">> THEN Free ELSE guard)
      BY <2>2 DEF BeatRename, Publish, LetGo
    <3>2. guard = <<o, "aux">>
      BY <3>1 DEF Honest, GuardHeld
    <3>3. /\ \A q \in Owners : main[q] \notin Inside /\ (q # o /\ aux[q] # "idle" => ~Alive(q))
          /\ \A c \in Commands : cmd[c] # "reapsocket"
      BY <3>2 DEF Honest, GuardHeld, Inside
    <3>4. GuardHeld'
      BY <1>t, <3>1, <3>3 DEF Honest, GuardHeld, Inside, Alive
    <3>5. RenameHarmless' /\ SilentStill'
      BY <1>t, <3>1, <3>3 DEF RenameHarmless, SilentStill, Inside, Alive
    <3> QED
      BY <3>4, <3>5 DEF Honest
  <2>3. CASE BeatRepublish(o) \/ BeatSuperseded(o)
    <3>1. NobodyInside
      BY <1>a, <2>3 DEF BeatRepublish, BeatSuperseded, Procs
    <3>2. /\ guard' = Free /\ aux' = aux /\ cmd' = cmd
          /\ main' = main \/ (main' = [main EXCEPT ![o] = "sigread"] /\ main[o] \in Serving)
      BY <2>3 DEF BeatRepublish, BeatSuperseded
    <3>3. \A q \in Owners : /\ main'[q] \notin Inside /\ (aux[q] # "idle" => ~Alive(q)')
                            /\ main'[q] = "unborn" => main[q] = "unborn"
      BY <1>t, <3>1, <3>2 DEF NobodyInside, Inside, Alive
    <3>4. GuardHeld'
      BY <3>1, <3>2, <3>3 DEF Honest, GuardHeld, NobodyInside, Inside
    <3>5. RenameHarmless' /\ SilentStill'
      BY <3>2, <3>3 DEF RenameHarmless, SilentStill, Inside
    <3> QED
      BY <3>4, <3>5 DEF Honest
  <2>4. CASE RepairClose(o) \/ RepairListen(o)
    <3>1. /\ lease' = lease /\ age' = age /\ main' = main /\ cmd' = cmd /\ Alive(o)
          /\ aux[o] \in {"reopen", "relisten"}
          /\ \/ aux' = [aux EXCEPT ![o] = "relisten"] /\ guard' = guard
             \/ /\ aux' = [aux EXCEPT ![o] = "idle"]
                /\ guard' = (IF guard = <<o, "aux">> THEN Free ELSE guard)
      BY <2>4 DEF RepairClose, RepairListen, LetGo, Alive
    <3>2. guard = <<o, "aux">>
      BY <3>1 DEF Honest, GuardHeld
    <3>3. GuardHeld'
      BY <1>t, <3>1, <3>2 DEF Honest, GuardHeld, Alive
    <3>4. RenameHarmless' /\ SilentStill'
      BY <1>t, <3>1 DEF Honest, RenameHarmless, SilentStill, Alive
    <3> QED
      BY <3>3, <3>4 DEF Honest
  <2> QED
    BY <1>4, <2>1, <2>2, <2>3, <2>4 DEF Background
<1>5. ASSUME NEW o \in Owners, Exit(o) PROVE Honest'
  <2>1. CASE ReleaseLease(o) /\ lease = o
    <3>1. NobodyInside
      BY <1>a, <2>1 DEF ReleaseLease, Procs
    <3> QED
      BY <2>1, <3>1, EnteringHonest DEF ReleaseLease, Hold, Inside
  <2>2. CASE ~(ReleaseLease(o) /\ lease = o)
    <3>1. /\ main[o] # "dead" /\ lease' \in {lease, NoLease} /\ age' = age
          /\ aux' = aux /\ cmd' = cmd
          /\ guard' = guard \/ (guard' = Free /\ guard = <<o, "main">>)
      BY <1>5, <2>2 DEF Exit, CompareInode, Unbind, StopHeartbeat, ReleaseLease, ReleaseSocket,
         SyncReadLease, SyncUnlinkLease, SyncStatSocket, SyncUnlinkSocket, LetGo, UnlinkLease
    <3>2. \E s \in {"unbind", "closed", "release", "dead", "sigunlink", "sigstat", "sigsocket"} :
            main' = [main EXCEPT ![o] = s]
      BY <1>5, <2>2 DEF Exit, CompareInode, Unbind, StopHeartbeat, ReleaseLease, ReleaseSocket,
         SyncReadLease, SyncUnlinkLease, SyncStatSocket, SyncUnlinkSocket
    <3> QED
      BY <3>1, <3>2, OutsideHonest DEF Inside
  <2> QED
    BY <2>1, <2>2
<1>6. ASSUME NEW o \in Owners,
             Spawn(o) \/ GuardTimeout(o) \/ BeginClose(o) \/ FatalSignal(o) \/ Crash(o)
      PROVE  Honest'
  <2>1. /\ main[o] # "dead" /\ lease' = lease /\ age' = age /\ aux' = aux /\ cmd' = cmd
        /\ guard' = guard
        /\ \E s \in {"acquire", "dead", "closing", "sigread"} : main' = [main EXCEPT ![o] = s]
    BY <1>6 DEF Spawn, GuardTimeout, BeginClose, FatalSignal, Crash, Alive, Handling, Serving,
       Releasing
  <2> QED
    BY <2>1, OutsideHonest DEF Inside
<1>7. ASSUME NEW c \in Commands, CommandStep(c) PROVE Honest'
  <2>1. CASE Inspect(c) \/ CommandTimeout(c) \/ CommandCrash(c)
    <3>1. /\ lease' = lease /\ age' = age /\ aux' = aux /\ guard' = guard /\ main' = main
          /\ \E s \in {"reap", "verify", "idle", "dead"} : cmd' = [cmd EXCEPT ![c] = s]
      BY <2>1 DEF Inspect, CommandTimeout, CommandCrash
    <3> QED
      BY <3>1, CommandHonest
  <2>2. CASE CommandReaps(c)
    <3>1. NobodyInside
      BY <1>a, <2>2 DEF CommandReaps, Procs
    <3>2. CASE lease' = lease /\ age' = age /\ guard' = guard /\ CmdTo(c, "idle")
      BY <2>2, <3>2, CommandHonest DEF CommandReaps
    <3>3. CASE lease' = NoLease /\ guard' = <<c, "main">> /\ CmdTo(c, "reapsocket")
      <4>1. main' = main /\ aux' = aux
        BY <2>2 DEF CommandReaps
      <4>2. GuardHeld' /\ RenameHarmless' /\ SilentStill'
        BY <1>t, <3>1, <3>3, <4>1
           DEF Honest, GuardHeld, NobodyInside, Inside, RenameHarmless, SilentStill, Alive
      <4> QED
        BY <4>2 DEF Honest
    <3> QED
      BY <2>2, <3>2, <3>3 DEF CommandReaps, UnlinkLease, Hold
  <2>3. CASE CommandReapsSocket(c)
    <3>1. /\ lease' = lease /\ age' = age /\ aux' = aux /\ main' = main
          /\ guard' = guard \/ (guard' = Free /\ guard = <<c, "main">>)
          /\ cmd' = [cmd EXCEPT ![c] = "idle"]
      BY <2>3 DEF CommandReapsSocket, LetGo
    <3> QED
      BY <3>1, CommandHonest
  <2>4. CASE VerifyOwner(c)
    <3>1. NobodyInside
      BY <1>a, <2>4 DEF VerifyOwner, Procs
    <3>2. /\ lease' = lease /\ age' = age /\ aux' = aux /\ main' = main /\ guard' = Free
          /\ \E s \in {"kill", "idle"} : cmd' = [cmd EXCEPT ![c] = s]
      BY <2>4 DEF VerifyOwner
    <3> QED
      BY <3>1, <3>2, CommandHonest
  <2>5. CASE Terminate(c) \/ AwaitExit(c)
    <3>1. /\ lease' = lease /\ age' = age /\ aux' = aux /\ guard' = guard
          /\ \E s \in {"wait", "reap"} : cmd' = [cmd EXCEPT ![c] = s]
      BY <2>5 DEF Terminate, AwaitExit
    <3> DEFINE o == judged[c]
    <3>2. \E m : /\ main' = [main EXCEPT ![o] = m]
                 /\ \/ m = "sigread" /\ main[o] \in Serving \cup Releasing
                    \/ m = main[o] \/ m = "dead"
      BY <2>5 DEF Terminate, AwaitExit, Handling
    <3>3. CASE o \in Owners
      <4>1. \/ main' = main
            \/ \E m \in {"sigread", "dead"} :
                 /\ main' = [main EXCEPT ![o] = m]
                 /\ main[o] \notin {"dead", "unborn"} \/ m = "dead"
        <5>1. PICK m : /\ main' = [main EXCEPT ![o] = m]
                       /\ \/ m = "sigread" /\ main[o] \in Serving \cup Releasing
                          \/ m = main[o] \/ m = "dead"
          BY <3>2
        <5>2. CASE m = main[o]
          BY <1>t, <5>1, <5>2
        <5>3. CASE m = "dead"
          BY <5>1, <5>3
        <5>4. CASE m = "sigread" /\ main[o] \in Serving \cup Releasing
          BY <5>1, <5>4 DEF Serving, Releasing
        <5> QED
          BY <5>1, <5>2, <5>3, <5>4
      <4> QED
        BY <3>1, <3>3, <4>1, CommandHonest
    <3>4. CASE o \notin Owners
      <4>1. main' = main
        BY <1>t, <3>2, <3>4
      <4> QED
        BY <3>1, <4>1, CommandHonest
    <3> QED
      BY <3>3, <3>4
  <2> QED
    BY <1>7, <2>1, <2>2, <2>3, <2>4, <2>5 DEF CommandStep, Finish
<1> QED
  BY <1>1, <1>2, <1>3, <1>4, <1>5, <1>6, <1>7 DEF Next, OwnerStep

(* As long as nobody stalls in a guarded section until it is broken, and   *)
(* whatever crashes, signals and scopes there are: no lease is written     *)
(* over another's, and the owner of another scope loses its lease to an    *)
(* acquirer only while its heartbeat is old (acquireUnderGuard).           *)
THEOREM AlwaysTakenFromTheSilent ==
  ASSUME LongPauses = FALSE PROVE Spec => TakenOnlyFromTheSilent
<1>1. Init => Honest
  BY LeaseAssumption DEF Init, Honest, GuardHeld, RenameHarmless, SilentStill
<1>2. TypeOK /\ Honest /\ [Next]_vars => Honest'
  BY HonestKept
<1>3. TypeOK /\ Honest /\ [Next]_vars =>
        [(lease \in Owners /\ lease' \in Owners) => lease' = lease]_vars
  <2> SUFFICES ASSUME TypeOK, Honest, [Next]_vars, lease \in Owners, lease' # lease
               PROVE  lease' \notin Owners
    OBVIOUS
  <2> USE LeaseAssumption
  <2>1. CASE UNCHANGED vars \/ Tick \/ LoseSocket
    BY <2>1 DEF vars, Tick, LoseSocket
  <2>2. ASSUME NEW o \in Owners, Acquire(o) PROVE lease' \notin Owners
    BY <2>2 DEF Acquire, AcquireLease, RemoveOldSocket, AcquireTaken, RemoveGarbage,
       AcquirerReaps, AcquirerReapsSocket, Listen, UnlinkLease
  <2>3. ASSUME NEW o \in Owners, Background(o) PROVE FALSE
    <3>1. CASE BeatRename(o)
      BY <3>1 DEF BeatRename, Publish, Honest, RenameHarmless
    <3>2. CASE ~BeatRename(o)
      BY <2>3, <3>2 DEF Background, BeatOwnLease, BeatRepublish, BeatSuperseded, RepairProbe,
         RepairClose, RepairListen
    <3> QED
      BY <3>1, <3>2
  <2>4. ASSUME NEW o \in Owners, Exit(o) PROVE lease' \notin Owners
    BY <2>4 DEF Exit, CompareInode, Unbind, StopHeartbeat, ReleaseLease, ReleaseSocket,
       SyncReadLease, SyncUnlinkLease, SyncStatSocket, SyncUnlinkSocket, UnlinkLease
  <2>5. ASSUME NEW o \in Owners,
               Spawn(o) \/ GuardTimeout(o) \/ BeginClose(o) \/ FatalSignal(o) \/ Crash(o)
        PROVE  FALSE
    BY <2>5 DEF Spawn, GuardTimeout, BeginClose, FatalSignal, Crash
  <2>6. ASSUME NEW c \in Commands, CommandStep(c) PROVE lease' \notin Owners
    BY <2>6 DEF CommandStep, Finish, Inspect, CommandReaps, CommandReapsSocket, VerifyOwner,
       Terminate, AwaitExit, CommandTimeout, CommandCrash, UnlinkLease
  <2> QED
    BY <2>1, <2>2, <2>3, <2>4, <2>5, <2>6 DEF Next, OwnerStep
<1>4. Honest =>
        [\A o, q \in Owners :
           /\ Scope[o] # Scope[q]
           /\ main[o] = "reap" /\ main'[o] = "reapsocket" /\ lease = q
           => age = 2]_vars
  BY DEF Honest, SilentStill
<1> QED
  BY <1>1, <1>2, <1>3, <1>4, TypeCorrect, PTL DEF Spec, TakenOnlyFromTheSilent

=============================================================================
