-------------------------- MODULE IdentityFileLock --------------------------
(***************************************************************************)
(* The lock primitive behind every cross-process file lock of acpx         *)
(* (src/session/persistence/identity-file-lock.ts): the record lock, the   *)
(* index lock, the archive lock, the seats lock, the admission lock and    *)
(* the queue lease guard are policies over it.                             *)
(*                                                                         *)
(* A process creates the lock file atomically with its content (a hard     *)
(* link of a finished temporary file).  When the path is taken it reads    *)
(* the holder, judges it, and breaks the lock of a holder that is gone, or *)
(* of one it cannot judge once the file is older than staleMs.  Breaking   *)
(* and releasing are both "read again, compare, unlink", three calls of    *)
(* the file system between which other processes run.                      *)
(*                                                                         *)
(* A member of Procs is one incarnation: a restarted process is another    *)
(* member.  Time is counted in ticks.                                      *)
(***************************************************************************)
EXTENDS Naturals, FiniteSets

CONSTANTS
  Procs,        \* process incarnations
  Scopes,       \* (boot, pid namespace, time namespace) triples
  Scope,        \* Procs -> Scopes: where each incarnation runs
  Unidentified, \* the holder of a lock file no reader can attribute
  NoFile,       \* what readHolder sees at an empty path
  StaleAge,     \* staleMs of the policy, in ticks
  Budget,       \* budgetMs of the policy, in ticks
  MaxAcquire,   \* bound: acquisitions attempted per incarnation
  MaxCrashes,   \* bound: incarnations that die while the system runs
  Stamped,      \* TRUE: the policy's body carries a time, as all but the record
                \* lock's do, so two acquisitions of a process differ
  LeftOver,     \* TRUE: the path may start with a file nobody can attribute
  Prompt        \* TRUE: no tick passes while a process is between two calls

ASSUME LockAssumption ==
  /\ Scope \in [Procs -> Scopes]
  /\ Unidentified \notin Procs
  /\ StaleAge \in Nat /\ Budget \in Nat
  /\ MaxAcquire \in Nat /\ MaxCrashes \in Nat
  /\ Stamped \in BOOLEAN /\ LeftOver \in BOOLEAN /\ Prompt \in BOOLEAN
  /\ NoFile \notin [by : Procs \cup {Unidentified}, n : 0..MaxAcquire]

VARIABLES
  file,    \* the content at the lock path, or NoFile
  age,     \* ticks since that file was created (its mtime age)
  pc,      \* the call each process is about to make
  seen,    \* the raw content a breaker read when it judged
  waited,  \* ticks since each process began to acquire
  turn     \* acquisitions each incarnation has begun

vars == <<file, age, pc, seen, waited, turn>>

Content == [by : Procs \cup {Unidentified}, n : 0..MaxAcquire]
Orphan == [by |-> Unidentified, n |-> 0]

(* identityLockBody: the policy's own fields and the holder's birth identity. *)
Mine(p) == [by |-> p, n |-> IF Stamped THEN turn[p] ELSE 0]

AcquireSteps == {"create", "read", "recheck", "unlink", "backoff"}
ReleaseSteps == {"release", "delete"}
PcValues == {"idle", "hold", "timedout", "dead"} \cup AcquireSteps \cup ReleaseSteps

Dead == {p \in Procs : pc[p] = "dead"}

(* The critical section: withIdentityFileLock is running its action. *)
Holding == {p \in Procs : pc[p] = "hold"}

TypeOK ==
  /\ file \in Content \cup {NoFile}
  /\ age \in 0..(StaleAge + 1)
  /\ pc \in [Procs -> PcValues]
  /\ seen \in [Procs -> Content \cup {NoFile}]
  /\ waited \in [Procs -> 0..Budget]
  /\ turn \in [Procs -> 0..MaxAcquire]

(* An empty path, or one where an unattributable lock file was left behind. *)
Init ==
  /\ file \in IF LeftOver THEN {NoFile, Orphan} ELSE {NoFile}
  /\ age = 0
  /\ pc = [p \in Procs |-> "idle"]
  /\ seen = [p \in Procs |-> NoFile]
  /\ waited = [p \in Procs |-> 0]
  /\ turn = [p \in Procs |-> 0]

-----------------------------------------------------------------------------
(* Judging a holder: by pid only in the judge's own scope. *)

(* Mutated form: the pid is judged in every scope, where it means nothing. *)
VerdictScopeBlind(p, h) ==
  IF h \in Procs /\ (Scope[h] # Scope[p] \/ h \in Dead) THEN "breakable"
  ELSE IF h = Unidentified THEN "unjudgeable" ELSE "live"

Verdict(p, h) ==
  IF h = Unidentified \/ (h \in Procs /\ Scope[h] # Scope[p])
  THEN "unjudgeable"
  ELSE IF h \in Dead THEN "breakable" ELSE "live"

(* Mutated forms of Breakable: the age alone decides; a dead holder's lock *)
(* is never broken.                                                        *)
BreakableByAge(p) == age > StaleAge
BreakableDeadIgnored(p) == Verdict(p, file.by) = "unjudgeable" /\ age > StaleAge

Breakable(p) ==
  \/ Verdict(p, file.by) = "breakable"
  \/ Verdict(p, file.by) = "unjudgeable" /\ age > StaleAge

Goto(p, step) == pc' = [pc EXCEPT ![p] = step]

(* The attempt failed: throw once the budget is spent, otherwise back off. *)
GiveUpOrWait(p) ==
  Goto(p, IF waited[p] >= Budget THEN "timedout" ELSE "backoff")

-----------------------------------------------------------------------------
(* The operations *)

StartAcquire(p) ==
  /\ pc[p] \in {"idle", "timedout"}
  /\ turn[p] < MaxAcquire
  /\ turn' = [turn EXCEPT ![p] = @ + 1]
  /\ waited' = [waited EXCEPT ![p] = 0]
  /\ Goto(p, "create")
  /\ UNCHANGED <<file, age, seen>>

(* Mutated form: the temporary file is renamed over the path. *)
CreateByRename(p) ==
  /\ pc[p] = "create"
  /\ file' = Mine(p) /\ age' = 0
  /\ Goto(p, "hold")
  /\ UNCHANGED <<seen, waited, turn>>

(* tryCreateLockFile: link(temporary, lockPath); EEXIST means held. *)
Create(p) ==
  /\ pc[p] = "create"
  /\ \/ /\ file = NoFile
        /\ file' = Mine(p)
        /\ age' = 0
        /\ Goto(p, "hold")
     \/ /\ file # NoFile
        /\ Goto(p, "read")
        /\ UNCHANGED <<file, age>>
  /\ UNCHANGED <<seen, waited, turn>>

(* readHolder and breakReason: a vanished file is retried at once. *)
Judge(p) ==
  /\ pc[p] = "read"
  /\ \/ /\ file = NoFile
        /\ Goto(p, "create")
        /\ UNCHANGED seen
     \/ /\ file # NoFile
        /\ Breakable(p)
        /\ seen' = [seen EXCEPT ![p] = file]
        /\ Goto(p, "recheck")
     \/ /\ file # NoFile
        /\ ~Breakable(p)
        /\ GiveUpOrWait(p)
        /\ UNCHANGED seen
  /\ UNCHANGED <<file, age, waited, turn>>

(* removeLockIfUnchanged, first half: the second read and the comparison. *)
Recheck(p) ==
  /\ pc[p] = "recheck"
  /\ IF file = seen[p] THEN Goto(p, "unlink") ELSE GiveUpOrWait(p)
  /\ UNCHANGED <<file, age, seen, waited, turn>>

(* removeLockIfUnchanged, second half: unlink whatever is at the path now. *)
BreakUnlink(p) ==
  /\ pc[p] = "unlink"
  /\ file' = NoFile
  /\ Goto(p, "create")
  /\ UNCHANGED <<age, seen, waited, turn>>

Retry(p) ==
  /\ pc[p] = "backoff"
  /\ Goto(p, "create")
  /\ UNCHANGED <<file, age, seen, waited, turn>>

(* releaseIdentityFileLock: the same compare-and-delete, on the own content. *)
FinishAction(p) ==
  /\ pc[p] = "hold"
  /\ Goto(p, "release")
  /\ UNCHANGED <<file, age, seen, waited, turn>>

ReleaseCompare(p) ==
  /\ pc[p] = "release"
  /\ Goto(p, IF file = Mine(p) THEN "delete" ELSE "idle")
  /\ UNCHANGED <<file, age, seen, waited, turn>>

ReleaseUnlink(p) ==
  /\ pc[p] = "delete"
  /\ file' = NoFile
  /\ Goto(p, "idle")
  /\ UNCHANGED <<age, seen, waited, turn>>

(* A process may die between any two calls; its lock file stays. *)
Crash(p) ==
  /\ pc[p] # "dead"
  /\ Cardinality(Dead) < MaxCrashes
  /\ Goto(p, "dead")
  /\ UNCHANGED <<file, age, seen, waited, turn>>

Resting == {"idle", "hold", "timedout", "backoff", "dead"}

Tick ==
  /\ Prompt => \A p \in Procs : pc[p] \in Resting
  /\ age' = IF age > StaleAge THEN age ELSE age + 1
  /\ waited' = [p \in Procs |->
                  IF pc[p] \in AcquireSteps /\ waited[p] < Budget
                  THEN waited[p] + 1 ELSE waited[p]]
  /\ UNCHANGED <<file, pc, seen, turn>>

(* What an acquirer or a holder does by itself once it has begun. *)
Proceed(p) ==
  \/ Create(p) \/ Judge(p) \/ Recheck(p) \/ BreakUnlink(p) \/ Retry(p)
  \/ FinishAction(p) \/ ReleaseCompare(p) \/ ReleaseUnlink(p)

Next == (\E p \in Procs : StartAcquire(p) \/ Proceed(p) \/ Crash(p)) \/ Tick

Spec == Init /\ [][Next]_vars

(* A live process keeps running and clocks advance; nobody has to begin. *)
Fairness == WF_vars(Tick) /\ \A p \in Procs : WF_vars(Proceed(p))

FairSpec == Spec /\ Fairness

-----------------------------------------------------------------------------
(* Properties *)

(* Until the first death two processes of one scope are never inside the   *)
(* critical section together (withIdentityFileLock runs its action between *)
(* acquire and release).                                                   *)
MutualExclusion == Dead = {} => \A p, q \in Holding : p = q

(* The lock of a live process is lost to nothing but its own release, a    *)
(* breaker of another scope, or an unlink of its own scope whose           *)
(* comparison had already been overtaken (removeLockIfUnchanged).          *)
LiveLockLostOnlyToLateUnlink ==
  [][\A p \in Procs :
       pc[p] = "hold" /\ file = Mine(p) /\ file' # file
         => \E q \in Procs \ {p} :
              \/ pc[q] = "unlink" /\ (Scope[q] = Scope[p] => seen[q] # file)
              \/ pc[q] = "delete" /\ Mine(q) # file]_vars

(* "matching => NEVER breakable, at any age": whoever is about to break a  *)
(* lock of its own scope judged a holder that is dead.                     *)
BreakersJudgedRight ==
  \A p \in Procs :
    pc[p] \in {"recheck", "unlink"} /\ seen[p].by \in Procs
      => \/ Scope[seen[p].by] # Scope[p]
         \/ seen[p].by \in Dead

(* "An unjudgeable holder is broken only once the lock is older than       *)
(* staleMs": the comparison that licenses the unlink of a lock of another  *)
(* scope passes only on a file of that age.                                *)
UnjudgeableBrokenOnlyOld ==
  [][\A p, q \in Procs :
       /\ pc[p] = "recheck" /\ pc'[p] = "unlink"
       /\ file = Mine(q) /\ Scope[q] # Scope[p]
       => age > StaleAge]_vars

(* "Must exceed staleMs so a waiter clears an orphan": nobody throws the   *)
(* timeout while the lock file left behind before it began is still there. *)
(* Nor does the file of a dead holder stay while a live process of its     *)
(* scope is about to judge it: the waiter breaks it (breakStaleHolder).  A *)
(* breaker whose comparison fails at its deadline throws instead.          *)
OrphanCleared ==
  /\ [][\A p \in Procs :
          pc[p] # "timedout" /\ pc'[p] = "timedout" => file # Orphan]_vars
  /\ \A p \in Procs : \A q \in {r \in Procs \ {p} : Scope[r] = Scope[p]} :
       ( /\ pc[p] \in {"create", "read", "backoff"} /\ pc[q] = "dead"
         /\ file # NoFile /\ file.by = q )
       ~> (file = NoFile \/ file.by # q \/ pc[p] = "dead")

(* What a waiter may do about a holder it cannot judge, and does about one *)
(* that is gone.                                                           *)
StaleFilesBroken == UnjudgeableBrokenOnlyOld /\ OrphanCleared

=============================================================================
