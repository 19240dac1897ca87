----------------------- MODULE IdentityFileLockProofs -----------------------
(* Theorems about IdentityFileLock, for every set of processes and scopes, *)
(* and about Admission, for every size of the box and set of creates.      *)
EXTENDS IdentityFileLock, Admission, FiniteSetTheorems, TLAPS

(* Every reachable state has its type: the clocks stay within their caps   *)
(* and every step of the protocol leads to a step of the protocol.         *)
THEOREM TypeCorrect == Spec => []TypeOK
<1> USE LockAssumption DEF TypeOK, Content, PcValues, AcquireSteps, ReleaseSteps, Goto, Mine
<1>1. Init => TypeOK
  BY DEF Init, Orphan
<1>2. TypeOK /\ [Next]_vars => TypeOK'
  <2> SUFFICES ASSUME TypeOK, [Next]_vars PROVE TypeOK'
    OBVIOUS
  <2>1. CASE UNCHANGED vars
    BY <2>1 DEF vars
  <2>2. CASE Tick
    BY <2>2 DEF Tick
  <2>3. ASSUME NEW p \in Procs, StartAcquire(p) PROVE TypeOK'
    BY <2>3 DEF StartAcquire
  <2>4. ASSUME NEW p \in Procs, Create(p) PROVE TypeOK'
    BY <2>4 DEF Create
  <2>5. ASSUME NEW p \in Procs, Judge(p) PROVE TypeOK'
    BY <2>5 DEF Judge, GiveUpOrWait
  <2>6. ASSUME NEW p \in Procs, Recheck(p) PROVE TypeOK'
    BY <2>6 DEF Recheck, GiveUpOrWait
  <2>7. ASSUME NEW p \in Procs, BreakUnlink(p) \/ ReleaseUnlink(p) PROVE TypeOK'
    BY <2>7 DEF BreakUnlink, ReleaseUnlink
  <2>8. ASSUME NEW p \in Procs, Retry(p) \/ FinishAction(p) \/ ReleaseCompare(p) \/ Crash(p)
        PROVE TypeOK'
    BY <2>8 DEF Retry, FinishAction, ReleaseCompare, Crash
  <2> QED
    BY <2>1, <2>2, <2>3, <2>4, <2>5, <2>6, <2>7, <2>8 DEF Next, Proceed
<1> QED
  BY <1>1, <1>2, PTL DEF Spec

(* No step brings a dead process back, and only Crash makes one.           *)
LEMMA DeadStaysDead == TypeOK /\ [Next]_vars => Dead \subseteq Dead'
<1> SUFFICES ASSUME TypeOK, [Next]_vars, NEW q \in Procs, pc[q] = "dead"
             PROVE  pc'[q] = "dead"
  BY DEF Dead
<1> USE DEF TypeOK, Goto
<1>1. CASE UNCHANGED vars
  BY <1>1 DEF vars
<1>2. CASE Tick
  BY <1>2 DEF Tick
<1>3. ASSUME NEW p \in Procs, StartAcquire(p) \/ Crash(p) \/ Create(p) \/ Judge(p)
      PROVE  pc'[q] = "dead"
  BY <1>3 DEF StartAcquire, Crash, Create, Judge, GiveUpOrWait
<1>4. ASSUME NEW p \in Procs, Recheck(p) \/ BreakUnlink(p) \/ Retry(p)
      PROVE  pc'[q] = "dead"
  BY <1>4 DEF Recheck, GiveUpOrWait, BreakUnlink, Retry
<1>5. ASSUME NEW p \in Procs, FinishAction(p) \/ ReleaseCompare(p) \/ ReleaseUnlink(p)
      PROVE  pc'[q] = "dead"
  BY <1>5 DEF FinishAction, ReleaseCompare, ReleaseUnlink
<1> QED
  BY <1>1, <1>2, <1>3, <1>4, <1>5 DEF Next, Proceed

(* "matching => NEVER breakable": at every instant, whoever is about to    *)
(* break the lock of a process of its own scope judged a dead process.     *)
THEOREM BreakersAlwaysRight == Spec => []BreakersJudgedRight
<1>1. Init => BreakersJudgedRight
  BY DEF Init, BreakersJudgedRight
<1>2. TypeOK /\ BreakersJudgedRight /\ [Next]_vars => BreakersJudgedRight'
  <2> SUFFICES ASSUME TypeOK, BreakersJudgedRight, [Next]_vars,
                      NEW r \in Procs, pc'[r] \in {"recheck", "unlink"}, seen'[r].by \in Procs
               PROVE  Scope[seen'[r].by] # Scope[r] \/ seen'[r].by \in Dead'
    BY DEF BreakersJudgedRight
  <2>0. Dead \subseteq Dead'
    BY DeadStaysDead
  <2>1. CASE pc[r] \in {"recheck", "unlink"} /\ seen'[r] = seen[r]
    BY <2>0, <2>1 DEF BreakersJudgedRight
  <2>2. ASSUME Judge(r), seen'[r] = file, Breakable(r)
        PROVE  Scope[seen'[r].by] # Scope[r] \/ seen'[r].by \in Dead'
    BY <2>0, <2>2, LockAssumption DEF Breakable, Verdict
  <2> USE DEF TypeOK, Goto
  <2>3. CASE UNCHANGED vars
    BY <2>1, <2>3 DEF vars
  <2>4. CASE Tick
    BY <2>1, <2>4 DEF Tick
  <2>5. ASSUME NEW p \in Procs, StartAcquire(p) \/ Crash(p) \/ Create(p)
        PROVE  pc[r] \in {"recheck", "unlink"} /\ seen'[r] = seen[r]
    BY <2>5 DEF StartAcquire, Crash, Create
  <2>6. ASSUME NEW p \in Procs, Judge(p)
        PROVE  \/ pc[r] \in {"recheck", "unlink"} /\ seen'[r] = seen[r]
               \/ p = r /\ seen'[r] = file /\ Breakable(r)
    BY <2>6 DEF Judge, GiveUpOrWait
  <2>7. ASSUME NEW p \in Procs, Recheck(p) \/ BreakUnlink(p) \/ Retry(p)
        PROVE  pc[r] \in {"recheck", "unlink"} /\ seen'[r] = seen[r]
    BY <2>7 DEF Recheck, GiveUpOrWait, BreakUnlink, Retry
  <2>8. ASSUME NEW p \in Procs, FinishAction(p) \/ ReleaseCompare(p) \/ ReleaseUnlink(p)
        PROVE  pc[r] \in {"recheck", "unlink"} /\ seen'[r] = seen[r]
    BY <2>8 DEF FinishAction, ReleaseCompare, ReleaseUnlink
  <2> QED
    BY <2>1, <2>2, <2>3, <2>4, <2>5, <2>6, <2>7, <2>8 DEF Next, Proceed
<1> QED
  BY <1>1, <1>2, TypeCorrect, PTL DEF Spec

-----------------------------------------------------------------------------
(* Mutual exclusion until the first death.  The lock is safe because a     *)
(* live holder of the same scope is never judged breakable, so no process  *)
(* ever reaches the unlink that could be overtaken.                        *)

InCharge == {p \in Procs : pc[p] \in {"hold", "release", "delete"}}

NobodyBreaks ==
  /\ \A p \in Procs : pc[p] \notin {"recheck", "unlink"}
  /\ file # NoFile => file.by \in Procs
  /\ \A p \in InCharge : file = Mine(p)

(* In one scope, without leftovers and until somebody dies, at most one    *)
(* process is inside the critical section (withIdentityFileLock).          *)
THEOREM Exclusion ==
  ASSUME LeftOver = FALSE, \A p, q \in Procs : Scope[p] = Scope[q]
  PROVE  Spec => []MutualExclusion
<1> DEFINE Inv == Dead = {} => NobodyBreaks
<1>1. Init => Inv
  BY DEF Init, NobodyBreaks, InCharge
<1>2. TypeOK /\ Inv /\ [Next]_vars => Inv'
  <2> SUFFICES ASSUME TypeOK, NobodyBreaks, [Next]_vars, Dead = {}, Dead' = {}
               PROVE  NobodyBreaks'
    BY DeadStaysDead
  <2> USE LockAssumption DEF TypeOK, NobodyBreaks, Dead, InCharge, Mine, Goto
  <2>1. CASE UNCHANGED vars
    BY <2>1 DEF vars
  <2>2. CASE Tick
    BY <2>2 DEF Tick
  <2>3. ASSUME NEW p \in Procs, StartAcquire(p) PROVE NobodyBreaks'
    BY <2>3 DEF StartAcquire
  <2>4. ASSUME NEW p \in Procs, Create(p) PROVE NobodyBreaks'
    BY <2>4 DEF Create
  <2>5. ASSUME NEW p \in Procs, Judge(p) PROVE NobodyBreaks'
    <3>1. ~(file # NoFile /\ Breakable(p))
      BY DEF Breakable, Verdict
    <3> QED
      BY <2>5, <3>1 DEF Judge, GiveUpOrWait
  <2>6. ASSUME NEW p \in Procs, Recheck(p) \/ BreakUnlink(p) PROVE NobodyBreaks'
    BY <2>6 DEF Recheck, BreakUnlink
  <2>7. ASSUME NEW p \in Procs, Retry(p) \/ FinishAction(p) \/ ReleaseCompare(p)
        PROVE  NobodyBreaks'
    BY <2>7 DEF Retry, FinishAction, ReleaseCompare
  <2>8. ASSUME NEW p \in Procs, ReleaseUnlink(p) PROVE NobodyBreaks'
    BY <2>8 DEF ReleaseUnlink
  <2>9. ASSUME NEW p \in Procs, Crash(p) PROVE NobodyBreaks'
    BY <2>9 DEF Crash
  <2> QED
    BY <2>1, <2>2, <2>3, <2>4, <2>5, <2>6, <2>7, <2>8, <2>9 DEF Next, Proceed
<1>3. Inv => MutualExclusion
  BY DEF NobodyBreaks, MutualExclusion, InCharge, Holding, Mine
<1> QED
  BY <1>1, <1>2, <1>3, TypeCorrect, PTL DEF Spec

-----------------------------------------------------------------------------
(* The lock of a live process.                                             *)

(* In any scopes, with any deaths and leftovers: the lock of a process     *)
(* that runs its action is removed by nobody but a breaker of another      *)
(* scope, or by an unlink whose comparison was of something else: a        *)
(* breaker of its own scope judged a dead process, and a releaser itself.  *)
THEOREM LiveLockAlwaysKept == Spec => LiveLockLostOnlyToLateUnlink
<1>1. TypeOK /\ BreakersJudgedRight /\ [Next]_vars =>
        [\A p \in Procs :
           pc[p] = "hold" /\ file = Mine(p) /\ file' # file
             => \E q \in Procs \ {p} :
                  \/ pc[q] = "unlink" /\ (Scope[q] = Scope[p] => seen[q] # file)
                  \/ pc[q] = "delete" /\ Mine(q) # file]_vars
  <2> SUFFICES ASSUME TypeOK, BreakersJudgedRight, [Next]_vars, NEW p \in Procs,
                      pc[p] = "hold", file = Mine(p), file' # file
               PROVE  \E q \in Procs \ {p} :
                        \/ pc[q] = "unlink" /\ (Scope[q] = Scope[p] => seen[q] # file)
                        \/ pc[q] = "delete" /\ Mine(q) # file
    OBVIOUS
  <2>1. file # NoFile
    BY LockAssumption DEF TypeOK, Mine
  <2>2. PICK q \in Procs : BreakUnlink(q) \/ ReleaseUnlink(q)
    BY <2>1 DEF Next, vars, Proceed, Tick, StartAcquire, Crash, Create, Judge, Recheck, Retry,
       FinishAction, ReleaseCompare
  <2>3. q # p
    BY <2>2 DEF BreakUnlink, ReleaseUnlink
  <2>4. CASE BreakUnlink(q)
    <3>1. pc[q] = "unlink"
      BY <2>4 DEF BreakUnlink
    <3>2. ASSUME Scope[q] = Scope[p], seen[q] = file PROVE FALSE
      <4>1. seen[q].by = p
        BY <3>2 DEF Mine
      <4>2. Scope[p] # Scope[q] \/ p \in Dead
        BY <3>1, <4>1 DEF BreakersJudgedRight
      <4> QED
        BY <3>2, <4>2 DEF Dead
    <3> QED
      BY <2>3, <3>1, <3>2
  <2>5. CASE ReleaseUnlink(q)
    BY <2>3, <2>5 DEF ReleaseUnlink, Mine
  <2> QED
    BY <2>2, <2>4, <2>5
<1> QED
  BY <1>1, TypeCorrect, BreakersAlwaysRight, PTL DEF Spec, LiveLockLostOnlyToLateUnlink

-----------------------------------------------------------------------------
(* Files that nobody in reach can judge.                                   *)

Made == {"hold", "release", "delete", "idle", "dead"}

(* The acquisition that made this content makes it no more.                *)
Spent(c, turns, pcs) ==
  c.by \in Procs => \/ c.n < turns[c.by]
                    \/ c.n = turns[c.by] /\ pcs[c.by] \in Made

(* A breaker that still finds what it judged, of another scope, finds it   *)
(* old: no second file has that content.                                   *)
SeenIsOld ==
  /\ file # NoFile => Spent(file, turn, pc)
  /\ \A p \in Procs : pc[p] = "recheck" =>
       /\ seen[p] # NoFile /\ Spent(seen[p], turn, pc)
       /\ ( /\ file = seen[p] /\ seen[p].by \in Procs
            /\ Scope[seen[p].by] # Scope[p] ) => age > StaleAge

(* Where the body of a lock carries a time, the comparison that licenses   *)
(* the unlink of another scope's lock passes only on an old file, whoever  *)
(* breaks, releases or creates between the verdict and the comparison.     *)
THEOREM UnjudgeableAlwaysOld ==
  ASSUME Stamped = TRUE
  PROVE  Spec => UnjudgeableBrokenOnlyOld
<1>1. Init => SeenIsOld
  BY LockAssumption DEF Init, SeenIsOld, Spent, Orphan
<1>2. TypeOK /\ SeenIsOld /\ [Next]_vars => SeenIsOld'
  <2> SUFFICES ASSUME TypeOK, SeenIsOld, [Next]_vars
               PROVE  SeenIsOld'
    OBVIOUS
  <2> USE LockAssumption DEF TypeOK, Content, Goto, Made
  <2>0. ASSUME NEW c \in Content, Spent(c, turn, pc) PROVE Spent(c, turn', pc')
    <3> SUFFICES ASSUME c.by \in Procs
                 PROVE  \/ c.n < turn'[c.by]
                        \/ c.n = turn'[c.by] /\ pc'[c.by] \in Made
      BY DEF Spent
    <3>1. CASE UNCHANGED vars
      BY <2>0, <3>1 DEF vars, Spent
    <3>2. CASE Tick
      BY <2>0, <3>2 DEF Tick, Spent
    <3>3. ASSUME NEW p \in Procs, StartAcquire(p)
          PROVE  c.n < turn'[c.by] \/ (c.n = turn'[c.by] /\ pc'[c.by] \in Made)
      BY <2>0, <3>3 DEF StartAcquire, Spent
    <3>4. ASSUME NEW p \in Procs, Create(p) \/ Crash(p) \/ Judge(p)
          PROVE  c.n < turn'[c.by] \/ (c.n = turn'[c.by] /\ pc'[c.by] \in Made)
      BY <2>0, <3>4 DEF Create, Crash, Judge, GiveUpOrWait, Spent
    <3>5. ASSUME NEW p \in Procs, Recheck(p) \/ BreakUnlink(p) \/ Retry(p)
          PROVE  c.n < turn'[c.by] \/ (c.n = turn'[c.by] /\ pc'[c.by] \in Made)
      BY <2>0, <3>5 DEF Recheck, GiveUpOrWait, BreakUnlink, Retry, Spent
    <3>6. ASSUME NEW p \in Procs, FinishAction(p) \/ ReleaseCompare(p) \/ ReleaseUnlink(p)
          PROVE  c.n < turn'[c.by] \/ (c.n = turn'[c.by] /\ pc'[c.by] \in Made)
      BY <2>0, <3>6 DEF FinishAction, ReleaseCompare, ReleaseUnlink, Spent
    <3> QED
      BY <3>1, <3>2, <3>3, <3>4, <3>5, <3>6 DEF Next, Proceed
  <2>1. CASE \E q \in Procs : Create(q) /\ file' # file
    <3>1. PICK q \in Procs : Create(q) /\ file' # file
      BY <2>1
    <3>2. /\ pc[q] = "create" /\ file' = Mine(q) /\ pc' = [pc EXCEPT ![q] = "hold"]
          /\ seen' = seen /\ turn' = turn
      BY <3>1 DEF Create
    <3>3. Mine(q) = [by |-> q, n |-> turn[q]]
      BY DEF Mine
    <3>4. Spent(file', turn', pc')
      BY <3>2, <3>3 DEF Spent
    <3>5. ASSUME NEW p \in Procs, pc'[p] = "recheck"
          PROVE  seen'[p] # NoFile /\ Spent(seen'[p], turn', pc') /\ file' # seen'[p]
      <4>1. pc[p] = "recheck" /\ seen'[p] = seen[p] /\ seen[p] \in Content /\ Spent(seen[p], turn, pc)
        BY <3>2, <3>5 DEF SeenIsOld
      <4>2. seen[p] # Mine(q)
        BY <3>2, <3>3, <4>1 DEF Spent
      <4> QED
        BY <2>0, <3>2, <4>1, <4>2 DEF SeenIsOld
    <3> QED
      BY <3>4, <3>5 DEF SeenIsOld
  <2>2. CASE \E p \in Procs : Judge(p) /\ seen' # seen
    <3>1. PICK p \in Procs : Judge(p) /\ seen' # seen
      BY <2>2
    <3>2. /\ file # NoFile /\ Breakable(p) /\ seen' = [seen EXCEPT ![p] = file]
          /\ pc' = [pc EXCEPT ![p] = "recheck"] /\ file' = file /\ age' = age
      BY <3>1 DEF Judge
    <3>3. file.by \in Procs /\ Scope[file.by] # Scope[p] => age > StaleAge
      BY <3>2 DEF Breakable, Verdict
    <3>4. Spent(file', turn', pc')
      BY <2>0, <3>2 DEF SeenIsOld
    <3>5. ASSUME NEW r \in Procs, r # p, pc'[r] = "recheck"
          PROVE  /\ seen'[r] # NoFile /\ Spent(seen'[r], turn', pc')
                 /\ ( /\ file' = seen'[r] /\ seen'[r].by \in Procs
                      /\ Scope[seen'[r].by] # Scope[r] ) => age' > StaleAge
      BY <2>0, <3>2, <3>5 DEF SeenIsOld
    <3>6. seen'[p] = file
      BY <3>2
    <3> QED
      BY <3>2, <3>3, <3>4, <3>5, <3>6 DEF SeenIsOld
  <2>3. ASSUME seen' = seen, file' \in {file, NoFile}, age > StaleAge => age' > StaleAge,
               \A p \in Procs : pc'[p] = "recheck" => pc[p] = "recheck"
        PROVE  SeenIsOld'
    <3>1. file' # NoFile => Spent(file', turn', pc')
      BY <2>0, <2>3 DEF SeenIsOld
    <3>2. ASSUME NEW p \in Procs, pc'[p] = "recheck"
          PROVE  /\ seen'[p] # NoFile /\ Spent(seen'[p], turn', pc')
                 /\ ( /\ file' = seen'[p] /\ seen'[p].by \in Procs
                      /\ Scope[seen'[p].by] # Scope[p] ) => age' > StaleAge
      <4>1. pc[p] = "recheck" /\ seen[p] \in Content /\ Spent(seen[p], turn, pc)
        BY <2>3, <3>2 DEF SeenIsOld
      <4>2. Spent(seen'[p], turn', pc')
        BY <2>0, <2>3, <4>1
      <4> QED
        BY <2>3, <3>2, <4>1, <4>2 DEF SeenIsOld
    <3> QED
      BY <3>1, <3>2 DEF SeenIsOld
  <2>4. CASE UNCHANGED vars
    BY <2>3, <2>4 DEF vars
  <2>5. CASE Tick
    BY <2>3, <2>5 DEF Tick
  <2>6. ASSUME NEW p \in Procs, StartAcquire(p) \/ Crash(p) PROVE SeenIsOld'
    BY <2>3, <2>6 DEF StartAcquire, Crash
  <2>7. ASSUME NEW p \in Procs, Create(p) PROVE SeenIsOld'
    <3>1. CASE file' = file /\ age' = age
      BY <2>3, <2>7, <3>1 DEF Create
    <3> QED
      BY <2>1, <2>7, <3>1 DEF Create, Mine
  <2>8. ASSUME NEW p \in Procs, Judge(p) PROVE SeenIsOld'
    <3>1. CASE seen' = seen /\ pc'[p] # "recheck"
      BY <2>3, <2>8, <3>1 DEF Judge, GiveUpOrWait
    <3>2. CASE seen' = seen /\ pc'[p] = "recheck"
      <4>1. /\ file # NoFile /\ Breakable(p) /\ seen[p] = file
            /\ pc' = [pc EXCEPT ![p] = "recheck"] /\ file' = file /\ age' = age
        BY <2>8, <3>2 DEF Judge, GiveUpOrWait
      <4>2. file.by \in Procs /\ Scope[file.by] # Scope[p] => age > StaleAge
        BY <4>1 DEF Breakable, Verdict
      <4>3. Spent(file', turn', pc')
        BY <2>0, <4>1 DEF SeenIsOld
      <4>4. ASSUME NEW r \in Procs, r # p, pc'[r] = "recheck"
            PROVE  /\ seen'[r] # NoFile /\ Spent(seen'[r], turn', pc')
                   /\ ( /\ file' = seen'[r] /\ seen'[r].by \in Procs
                        /\ Scope[seen'[r].by] # Scope[r] ) => age' > StaleAge
        BY <2>0, <3>2, <4>1, <4>4 DEF SeenIsOld
      <4> QED
        BY <3>2, <4>1, <4>2, <4>3, <4>4 DEF SeenIsOld
    <3> QED
      BY <2>2, <2>8, <3>1, <3>2
  <2>9. ASSUME NEW p \in Procs, Recheck(p) \/ BreakUnlink(p) \/ Retry(p) PROVE SeenIsOld'
    BY <2>3, <2>9 DEF Recheck, GiveUpOrWait, BreakUnlink, Retry
  <2>10. ASSUME NEW p \in Procs, FinishAction(p) \/ ReleaseCompare(p) \/ ReleaseUnlink(p)
         PROVE  SeenIsOld'
    BY <2>3, <2>10 DEF FinishAction, ReleaseCompare, ReleaseUnlink
  <2> QED
    BY <2>4, <2>5, <2>6, <2>7, <2>8, <2>9, <2>10 DEF Next, Proceed
<1>3. TypeOK /\ SeenIsOld /\ [Next]_vars =>
        [\A p, q \in Procs :
           /\ pc[p] = "recheck" /\ pc'[p] = "unlink"
           /\ file = Mine(q) /\ Scope[q] # Scope[p]
           => age > StaleAge]_vars
  <2> SUFFICES ASSUME TypeOK, SeenIsOld, [Next]_vars, NEW p \in Procs, NEW q \in Procs,
                      pc[p] = "recheck", pc'[p] = "unlink", file = Mine(q), Scope[q] # Scope[p]
               PROVE  age > StaleAge
    OBVIOUS
  <2> USE DEF TypeOK, Goto
  <2>1. Recheck(p)
    BY DEF Next, vars, Proceed, Tick, StartAcquire, Crash, Create, Judge, GiveUpOrWait, Recheck, BreakUnlink,
       Retry, FinishAction, ReleaseCompare, ReleaseUnlink
  <2>2. file = seen[p]
    BY <2>1 DEF Recheck, GiveUpOrWait
  <2> QED
    BY <2>2 DEF SeenIsOld, Mine
<1> QED
  BY <1>1, <1>2, <1>3, TypeCorrect, PTL DEF Spec, UnjudgeableBrokenOnlyOld

(* The file left behind before all began is there only if nobody has       *)
(* removed it, and as old as anybody's wait.                               *)
OrphanAges ==
  file = Orphan => \A p \in Procs :
    /\ pc[p] = "recheck" => seen[p] = Orphan
    /\ waited[p] <= age \/ age > StaleAge

(* "Must exceed staleMs so a waiter clears an orphan": with such a budget  *)
(* nobody ever throws its time-out while that file is still there.         *)
THEOREM OrphanNeverOutlasts ==
  ASSUME Budget > StaleAge
  PROVE  Spec => [][\A p \in Procs :
                      pc[p] # "timedout" /\ pc'[p] = "timedout" => file # Orphan]_vars
<1>1. Init => OrphanAges
  BY LockAssumption DEF Init, OrphanAges
<1>2. TypeOK /\ OrphanAges /\ [Next]_vars => OrphanAges'
  <2> SUFFICES ASSUME TypeOK, OrphanAges, [Next]_vars, file' = Orphan
               PROVE  \A p \in Procs :
                        /\ pc'[p] = "recheck" => seen'[p] = Orphan
                        /\ waited'[p] <= age' \/ age' > StaleAge
    BY DEF OrphanAges
  <2> USE LockAssumption DEF TypeOK, Goto
  <2>1. Orphan # NoFile /\ \A q \in Procs : Mine(q) # Orphan
    BY DEF Orphan, Mine
  <2>2. file = Orphan
    BY <2>1 DEF Next, vars, Proceed, Tick, StartAcquire, Crash, Create, Judge, Recheck, BreakUnlink,
       Retry, FinishAction, ReleaseCompare, ReleaseUnlink
  <2>3. CASE UNCHANGED vars
    BY <2>2, <2>3 DEF vars, OrphanAges
  <2>4. CASE Tick
    BY <2>2, <2>4 DEF Tick, OrphanAges
  <2>5. ASSUME NEW q \in Procs, StartAcquire(q) \/ Crash(q) \/ Create(q)
        PROVE  \A p \in Procs :
                 /\ pc'[p] = "recheck" => seen'[p] = Orphan
                 /\ waited'[p] <= age' \/ age' > StaleAge
    BY <2>1, <2>2, <2>5 DEF StartAcquire, Crash, Create, OrphanAges
  <2>6. ASSUME NEW q \in Procs, Judge(q)
        PROVE  \A p \in Procs :
                 /\ pc'[p] = "recheck" => seen'[p] = Orphan
                 /\ waited'[p] <= age' \/ age' > StaleAge
    BY <2>1, <2>2, <2>6 DEF Judge, GiveUpOrWait, OrphanAges
  <2>7. ASSUME NEW q \in Procs, Recheck(q) \/ BreakUnlink(q) \/ Retry(q)
        PROVE  \A p \in Procs :
                 /\ pc'[p] = "recheck" => seen'[p] = Orphan
                 /\ waited'[p] <= age' \/ age' > StaleAge
    BY <2>1, <2>2, <2>7 DEF Recheck, GiveUpOrWait, BreakUnlink, Retry, OrphanAges
  <2>8. ASSUME NEW q \in Procs, FinishAction(q) \/ ReleaseCompare(q) \/ ReleaseUnlink(q)
        PROVE  \A p \in Procs :
                 /\ pc'[p] = "recheck" => seen'[p] = Orphan
                 /\ waited'[p] <= age' \/ age' > StaleAge
    BY <2>1, <2>2, <2>8 DEF FinishAction, ReleaseCompare, ReleaseUnlink, OrphanAges
  <2> QED
    BY <2>3, <2>4, <2>5, <2>6, <2>7, <2>8 DEF Next, Proceed
<1>3. TypeOK /\ OrphanAges /\ [Next]_vars =>
        [\A p \in Procs : pc[p] # "timedout" /\ pc'[p] = "timedout" => file # Orphan]_vars
  <2> SUFFICES ASSUME TypeOK, OrphanAges, [Next]_vars, NEW p \in Procs,
                      pc[p] # "timedout", pc'[p] = "timedout", file = Orphan
               PROVE  FALSE
    OBVIOUS
  <2> USE LockAssumption DEF TypeOK, Goto
  <2>1. (Judge(p) \/ Recheck(p)) /\ GiveUpOrWait(p)
    BY DEF Next, vars, Proceed, Tick, StartAcquire, Crash, Create, Judge, GiveUpOrWait, Recheck, BreakUnlink,
       Retry, FinishAction, ReleaseCompare, ReleaseUnlink
  <2>2. waited[p] >= Budget
    BY <2>1 DEF GiveUpOrWait
  <2>3. age > StaleAge
    BY <2>2 DEF OrphanAges
  <2>4. Breakable(p)
    BY <2>3 DEF Breakable, Verdict, Orphan
  <2>5. Orphan # NoFile
    BY DEF Orphan
  <2>6. CASE Judge(p)
    BY <2>4, <2>5, <2>6 DEF Judge
  <2>7. CASE Recheck(p)
    BY <2>7 DEF Recheck, OrphanAges
  <2> QED
    BY <2>1, <2>6, <2>7
<1> QED
  BY <1>1, <1>2, <1>3, TypeCorrect, PTL DEF Spec

(* ---- Admission: the memory of the box -------------------------------------- *)

\* What the units of memory add up to: more sessions that need no less take no less.
LEMMA MemoryGrows ==
  ASSUME NEW S, NEW T, IsFiniteSet(T), S \subseteq T, NEW f, NEW g,
         \A c \in S : \A i \in 1..ReserveNew : i <= f[c] => i <= g[c]
  PROVE  /\ Memory(f, S) \in Nat /\ Memory(g, T) \in Nat
         /\ Memory(f, S) <= Memory(g, T)
<1>1. IsFiniteSet(T \X (1..ReserveNew))
  <2>1. 1 \in Int /\ ReserveNew \in Int
    BY AdmissionAssumption
  <2>2. IsFiniteSet(1..ReserveNew)
    BY <2>1, FS_Interval
  <2> QED
    BY <2>2, FS_Product
<1>2. Units(g, T) \subseteq T \X (1..ReserveNew) /\ Units(f, S) \subseteq Units(g, T)
  BY DEF Units
<1> QED
  BY <1>1, <1>2, FS_Subset, FS_CardinalityType DEF Memory

\* Sessions that need a newcomer's reservation each.
LEMMA FullMemory ==
  ASSUME NEW S, IsFiniteSet(S)
  PROVE  /\ IsFiniteSet(S \X (1..ReserveNew))
         /\ Cardinality(S \X (1..ReserveNew)) = ReserveNew * Cardinality(S)
<1>1. ReserveNew \in Nat \ {0} /\ IsFiniteSet(1..ReserveNew) /\ Cardinality(1..ReserveNew) = ReserveNew
  <2>1. ReserveNew \in Nat \ {0}
    BY AdmissionAssumption
  <2>2. ReserveNew \in Int /\ 1 \in Int /\ 1 <= ReserveNew /\ ReserveNew - 1 + 1 = ReserveNew
    BY <2>1
  <2>3. /\ IsFiniteSet(1..ReserveNew)
        /\ Cardinality(1..ReserveNew) = IF 1 > ReserveNew THEN 0 ELSE ReserveNew - 1 + 1
    BY <2>2, FS_Interval
  <2>4. ~(1 > ReserveNew)
    BY <2>2
  <2> QED
    BY <2>1, <2>2, <2>3, <2>4
<1> HIDE DEF Memory
<1>2. /\ IsFiniteSet(S \X (1..ReserveNew))
      /\ Cardinality(S \X (1..ReserveNew)) = Cardinality(S) * Cardinality(1..ReserveNew)
  BY <1>1, FS_Product
<1>3. Cardinality(S) \in Nat
  BY FS_CardinalityType
<1> QED
  BY <1>1, <1>2, <1>3

\* A session that comes takes a newcomer's reservation at most.
LEMMA OneMore ==
  ASSUME NEW S, IsFiniteSet(S), NEW c, NEW f, NEW g,
         \A d \in S : \A i \in 1..ReserveNew : i <= g[d] => d = c \/ i <= f[d]
  PROVE  /\ Memory(g, S \cup {c}) \in Nat /\ Memory(f, S) \in Nat
         /\ Memory(g, S \cup {c}) <= Memory(f, S) + ReserveNew
<1> DEFINE old == Units(f, S)
           new == {c} \X (1..ReserveNew)
<1>1. IsFiniteSet(old) /\ Cardinality(old) \in Nat
  <2>1. old \subseteq S \X (1..ReserveNew)
    BY DEF Units
  <2> QED
    BY <2>1, FullMemory, FS_Subset, FS_CardinalityType
<1>2. IsFiniteSet(new) /\ Cardinality(new) = ReserveNew
  <2>1. IsFiniteSet({c}) /\ Cardinality({c}) = 1
    BY FS_Singleton
  <2>2. IsFiniteSet(new) /\ Cardinality(new) = ReserveNew * 1
    BY <2>1, FullMemory
  <2> QED
    BY <2>2, AdmissionAssumption
<1>3. Units(g, S \cup {c}) \subseteq old \cup new
  BY DEF Units
<1> HIDE DEF old, new
<1>4. /\ IsFiniteSet(old \cup new)
      /\ Cardinality(old \cup new) = Cardinality(old) + Cardinality(new) - Cardinality(old \cap new)
      /\ Cardinality(old \cap new) \in Nat
  BY <1>1, <1>2, FS_Union, FS_Intersection, FS_CardinalityType
<1>5. /\ Cardinality(Units(g, S \cup {c})) <= Cardinality(old \cup new)
      /\ Cardinality(Units(g, S \cup {c})) \in Nat
  BY <1>3, <1>4, FS_Subset, FS_CardinalityType
<1>6. ReserveNew \in Nat
  BY AdmissionAssumption
<1> QED
  BY <1>1, <1>2, <1>4, <1>5, <1>6 DEF Memory, old

\* What is above zero is not the zero it is capped from below with.
LEMMA MaxWithZero == \A a \in Int : Max({0, a}) \in Nat /\ (Max({0, a}) >= 1 => a >= 1)
<1> TAKE a \in Int
<1>1. \E x \in {0, a} : \A y \in {0, a} : x >= y
  OBVIOUS
<1> QED
  BY <1>1 DEF Max

\* A slot is free only where one more reservation fits.
LEMMA FreeSlotFits ==
  ASSUME NEW free \in Int, NEW other \in Int, NEW R \in Nat \ {0},
         Max({0, Min({free \div R, other \div R})}) >= 1
  PROVE  free >= R
<1>1. free \div R \in Int /\ other \div R \in Int
  OBVIOUS
<1>2. \A a, b \in Int : Min({a, b}) \in {a, b} /\ Min({a, b}) <= a
  <2> TAKE a, b \in Int
  <2>1. \E x \in {a, b} : \A y \in {a, b} : x =< y
    OBVIOUS
  <2> QED
    BY <2>1 DEF Min
<1>4. free \div R >= 1
  <2> DEFINE m == Min({free \div R, other \div R})
  <2>1. m \in Int /\ m <= free \div R
    BY <1>1, <1>2
  <2>2. Max({0, m}) >= 1
    OBVIOUS
  <2> HIDE DEF m
  <2>3. m >= 1
    BY <2>1, <2>2, MaxWithZero
  <2> QED
    BY <1>1, <2>1, <2>3
<1>5. free = R * (free \div R) + (free % R) /\ free % R \in Nat
  OBVIOUS
<1>6. \A k \in Int : k >= 1 => R * k >= R
  OBVIOUS
<1> QED
  BY <1>1, <1>4, <1>5, <1>6

\* The sessions that take memory, or are to: on their way, or live.
OnTheBox == {c \in Creates : OnItsWay(c) \/ c \in Live}

\* The sessions on their way that no reservation stands for.
Lost == {c \in Creates : OnItsWay(c) /\ c \notin KeptEntries}
Mishaps == mishaps.lost + mishaps.crashed + mishaps.expired

\* Each is one mishap's.
LostByMishap == Cardinality(Lost) <= Mishaps

\* Where a create is, its session and its entry are.
Ways ==
  \A c \in Creates :
    /\ create[c] \in {"idle", "queued", "admitted", "failed"} => session[c] = "none"
    /\ create[c] \in {"idle", "queued"} => entry[c] = "none" /\ c \notin ttlOver
    /\ create[c] = "created" => session[c] \in {"record", "live"}
    /\ session[c] \in {"none", "record"} => c \notin spent
    /\ session[c] # "live" => measured[c] = 0

AdmissionInv == AdmissionTypeOK /\ Ways /\ LostByMishap /\ NothingPromisedTwice

\* A step about one create that promises nothing.
Eases(c) ==
  /\ \A d \in OnTheBox' : d \in OnTheBox /\ Need'[d] <= Need[d]
  /\ Lost' \subseteq Lost \cup {c}
  /\ \/ Lost' \subseteq Lost /\ Mishaps' = Mishaps
     \/ Mishaps' = Mishaps + 1

\* A step that only eases keeps what is charged and promised within the bound of the mishaps.
LEMMA EasesKeeps ==
  ASSUME AdmissionInv, AdmissionTypeOK', NEW c \in Creates, Eases(c)
  PROVE  LostByMishap' /\ NothingPromisedTwice'
<1>1. /\ Mishaps \in Nat /\ Mishaps' \in Nat /\ Mishaps <= Mishaps'
      /\ \A d \in Creates : Need[d] \in Nat /\ Need'[d] \in Nat
      /\ ReserveNew \in Nat /\ Room \in Nat
  BY AdmissionAssumption DEF Eases, Mishaps, AdmissionInv, AdmissionTypeOK, Need
<1>2. Promised' <= Promised /\ Promised \in Nat /\ Promised' \in Nat
  <2>1. /\ IsFiniteSet(OnTheBox) /\ OnTheBox' \subseteq OnTheBox
        /\ \A d \in OnTheBox' : \A i \in 1..ReserveNew : i <= Need'[d] => i <= Need[d]
    <3>1. IsFiniteSet(OnTheBox)
      BY AdmissionAssumption, FS_Subset DEF OnTheBox
    <3>2. \A d \in OnTheBox' : d \in OnTheBox /\ d \in Creates /\ Need'[d] <= Need[d]
      BY DEF Eases, OnTheBox
    <3> QED
      BY <1>1, <3>1, <3>2
  <2>2. /\ Memory(Need', OnTheBox') \in Nat /\ Memory(Need, OnTheBox) \in Nat
        /\ Memory(Need', OnTheBox') <= Memory(Need, OnTheBox)
    BY <2>1, MemoryGrows
  <2>3. Promised = Memory(Need, OnTheBox) /\ Promised' = Memory(Need', OnTheBox')
    BY DEF Promised, OnTheBox, Memory, Units
  <2> QED
    BY <2>2, <2>3
<1>3. LostByMishap'
  <2>1. IsFiniteSet(Lost) /\ IsFiniteSet(Lost')
    BY AdmissionAssumption, FS_Subset DEF Lost
  <2>2. /\ Cardinality(Lost) \in Nat /\ Cardinality(Lost') \in Nat
        /\ Lost' \subseteq Lost => Cardinality(Lost') <= Cardinality(Lost)
    BY <2>1, FS_Subset, FS_CardinalityType
  <2>3. Cardinality(Lost') <= Cardinality(Lost) + 1
    <3>1. /\ IsFiniteSet(Lost \cup {c}) /\ Cardinality(Lost \cup {c}) \in Nat
          /\ Cardinality(Lost \cup {c}) <= Cardinality(Lost) + 1
      <4>1. /\ IsFiniteSet(Lost \cup {c})
            /\ Cardinality(Lost \cup {c}) = IF c \in Lost THEN Cardinality(Lost) ELSE Cardinality(Lost) + 1
        BY <2>1, FS_AddElement
      <4> QED
        BY <2>2, <4>1
    <3>2. Cardinality(Lost') <= Cardinality(Lost \cup {c})
      BY <3>1, FS_Subset DEF Eases
    <3> QED
      BY <2>2, <3>1, <3>2
  <2> QED
    BY <1>1, <2>2, <2>3 DEF Eases, AdmissionInv, LostByMishap
<1>4. Promised <= Room + ReserveNew * Mishaps
  BY DEF AdmissionInv, NothingPromisedTwice, Mishaps
<1>5. ReserveNew * Mishaps <= ReserveNew * Mishaps' /\ ReserveNew * Mishaps \in Nat /\ ReserveNew * Mishaps' \in Nat
  <2>1. \A r, m, n \in Nat : m <= n => r * m <= r * n /\ r * m \in Nat /\ r * n \in Nat
    OBVIOUS
  <2> QED
    BY <1>1, <2>1
<1>6. Promised' <= Room + ReserveNew * Mishaps'
  <2>1. \A p, q, r, m, n \in Nat : p <= q /\ q <= r + m /\ m <= n => p <= r + n
    OBVIOUS
  <2> QED
    BY <1>1, <1>2, <1>4, <1>5, <2>1
<1> QED
  BY <1>3, <1>6 DEF NothingPromisedTwice, Mishaps

\* What is promised is charged, but for the sessions that no reservation stands for.
LEMMA PromisedIsCharged ==
  ASSUME AdmissionInv
  PROVE  /\ Promised \in Nat /\ Charged \in Nat
         /\ Promised <= Charged + ReserveNew * Cardinality(Lost)
<1> DEFINE charge == [c \in Live |-> OwnerCharge(c)]
           coming == (KeptEntries \ Matched) \X (1..ReserveNew)
           lost == Lost \X (1..ReserveNew)
           live == Units(charge, Live)
           all == Units(Need, OnTheBox)
<1>1. IsFiniteSet(Live) /\ IsFiniteSet(KeptEntries \ Matched) /\ IsFiniteSet(Lost) /\ IsFiniteSet(OnTheBox)
  BY AdmissionAssumption, FS_Subset DEF Live, KeptEntries, Lost, OnTheBox
<1>2. IsFiniteSet(live) /\ IsFiniteSet(all)
  <2>1. live \subseteq Live \X (1..ReserveNew) /\ all \subseteq OnTheBox \X (1..ReserveNew)
    BY DEF Units
  <2> QED
    BY <1>1, <2>1, FullMemory, FS_Subset
<1>3. /\ IsFiniteSet(coming) /\ Cardinality(coming) = Pending
      /\ IsFiniteSet(lost) /\ Cardinality(lost) = ReserveNew * Cardinality(Lost)
  BY <1>1, FullMemory DEF Pending
<1>4. all \subseteq (live \cup coming) \cup lost
  <2> SUFFICES ASSUME NEW c \in OnTheBox, NEW i \in 1..ReserveNew, i <= Need[c], c \notin Lost,
                      ~(c \in KeptEntries \ Matched)
               PROVE  c \in Live /\ i <= charge[c]
    BY DEF Units
  <2>1. c \in Live /\ c \in Creates
    BY DEF OnTheBox, Lost, KeptEntries, Matched
  <2>2. OwnerCharge(c) \in Nat /\ measured[c] <= OwnerCharge(c) /\ (c \in KeptEntries \cap Matched => ReserveNew <= OwnerCharge(c))
    <3>1. /\ LiveFloor \in Nat /\ measured[c] \in Nat /\ ReserveNew \in Nat
      BY <2>1, AdmissionAssumption DEF AdmissionInv, AdmissionTypeOK
    <3>2. CASE c \in KeptEntries \cap Matched
      <4>1. OwnerCharge(c) = Max({LiveFloor, measured[c], ReserveNew})
        BY <3>2 DEF OwnerCharge
      <4>2. \E x \in {LiveFloor, measured[c], ReserveNew} : \A y \in {LiveFloor, measured[c], ReserveNew} : x >= y
        BY <3>1
      <4> QED
        BY <3>1, <4>1, <4>2 DEF Max
    <3>3. CASE c \notin KeptEntries \cap Matched
      <4>1. OwnerCharge(c) = Max({LiveFloor, measured[c]})
        BY <3>3 DEF OwnerCharge
      <4>2. \E x \in {LiveFloor, measured[c]} : \A y \in {LiveFloor, measured[c]} : x >= y
        BY <3>1
      <4> QED
        BY <3>1, <3>3, <4>1, <4>2 DEF Max
    <3> QED
      BY <3>2, <3>3
  <2>3. c \in KeptEntries \/ Need[c] = measured[c]
    BY <2>1 DEF Need, Lost
  <2>4. i \in Nat /\ i <= ReserveNew /\ charge[c] = OwnerCharge(c)
    BY <2>1, AdmissionAssumption
  <2>5. measured[c] \in Nat /\ ReserveNew \in Nat
    BY <2>1, AdmissionAssumption DEF AdmissionInv, AdmissionTypeOK
  <2> QED
    BY <2>1, <2>2, <2>3, <2>4, <2>5
<1>5. Promised = Cardinality(all) /\ Charged = Cardinality(live) + Pending
  BY DEF Promised, OnTheBox, Memory, Charged
<1> HIDE DEF live, coming, lost, all, charge
<1>6. \A A, B : IsFiniteSet(A) /\ IsFiniteSet(B) =>
        /\ IsFiniteSet(A \cup B) /\ Cardinality(A) \in Nat /\ Cardinality(B) \in Nat /\ Cardinality(A \cup B) \in Nat
        /\ Cardinality(A \cup B) <= Cardinality(A) + Cardinality(B)
  <2> TAKE A, B
  <2> HAVE IsFiniteSet(A) /\ IsFiniteSet(B)
  <2>1. /\ IsFiniteSet(A \cup B)
        /\ Cardinality(A \cup B) = Cardinality(A) + Cardinality(B) - Cardinality(A \cap B)
    BY FS_Union
  <2>2. Cardinality(A) \in Nat /\ Cardinality(B) \in Nat /\ Cardinality(A \cap B) \in Nat /\ Cardinality(A \cup B) \in Nat
    BY <2>1, FS_CardinalityType, FS_Intersection
  <2> QED
    BY <2>1, <2>2
<1>7. /\ IsFiniteSet(live \cup coming) /\ Cardinality(live) \in Nat /\ Pending \in Nat
      /\ Cardinality(live \cup coming) \in Nat
      /\ Cardinality(live \cup coming) <= Cardinality(live) + Pending
  BY <1>2, <1>3, <1>6
<1>8. /\ IsFiniteSet((live \cup coming) \cup lost) /\ Cardinality(lost) \in Nat
      /\ Cardinality((live \cup coming) \cup lost) \in Nat
      /\ Cardinality((live \cup coming) \cup lost) <= Cardinality(live \cup coming) + Cardinality(lost)
  BY <1>3, <1>6, <1>7
<1>9. Cardinality(all) \in Nat /\ Cardinality(all) <= Cardinality((live \cup coming) \cup lost)
  BY <1>2, <1>4, <1>8, FS_Subset, FS_CardinalityType
<1> QED
  BY <1>3, <1>5, <1>7, <1>8, <1>9

\* Nothing is promised before anything is admitted.
LEMMA AdmissionStarts == AdmissionInit => AdmissionInv
<1> SUFFICES ASSUME AdmissionInit PROVE AdmissionInv
  OBVIOUS
<1>1. ReserveNew \in Nat \ {0} /\ {Room, LimitRoom, MaxLost, MaxKilled, MaxExpired} \subseteq Nat /\ LiveFloor \in 0..ReserveNew
  BY AdmissionAssumption
<1>2. AdmissionTypeOK /\ Ways
  BY <1>1 DEF AdmissionInit, AdmissionTypeOK, CreateStages, WaitingCreates, Ways
<1>3. OnTheBox = {} /\ Lost = {} /\ Mishaps = 0
  BY DEF AdmissionInit, OnTheBox, Lost, OnItsWay, Live, Mishaps
<1>4. LostByMishap
  BY <1>3, FS_EmptySet DEF LostByMishap
<1>5. Promised = 0
  <2>1. Units(Need, OnTheBox) = {}
    BY <1>3 DEF Units
  <2> QED
    BY <2>1, FS_EmptySet DEF Promised, OnTheBox, Memory
<1> QED
  BY <1>1, <1>2, <1>3, <1>4, <1>5 DEF AdmissionInv, NothingPromisedTwice, Mishaps

\* The types and the ways, step by step.
LEMMA WaysKept ==
  ASSUME AdmissionInv, NEW c \in Creates,
         \/ Decide(c) \/ CreateSession(c) \/ CreateFails(c) \/ Bind(c) \/ ReleaseEntry(c)
         \/ UpdateLost(c) \/ CreateKilled(c) \/ Expire(c)
         \/ OwnerStarts(c) \/ Grow(c) \/ SessionEnds(c) \/ CreateAgain(c)
  PROVE  AdmissionTypeOK' /\ Ways'
<1> USE DEF AdmissionInv, AdmissionTypeOK, Ways, CreateStages, WaitingCreates
<1>0. ReserveNew \in Nat \ {0} /\ {Room, LimitRoom, MaxLost, MaxKilled, MaxExpired} \subseteq Nat
  BY AdmissionAssumption
<1>1. CASE Decide(c)
  BY <1>1 DEF Decide
<1>2. CASE CreateSession(c) \/ CreateFails(c)
  BY <1>2 DEF CreateSession, CreateFails
<1>3. CASE Bind(c) \/ ReleaseEntry(c)
  BY <1>3 DEF Bind, ReleaseEntry
<1>4. CASE UpdateLost(c)
  BY <1>0, <1>4 DEF UpdateLost
<1>5. CASE CreateKilled(c)
  BY <1>0, <1>5 DEF CreateKilled, AdmitterAlive
<1>6. CASE Expire(c)
  BY <1>0, <1>6 DEF Expire
<1>7. CASE OwnerStarts(c)
  BY <1>7 DEF OwnerStarts
<1>8. CASE Grow(c)
  BY <1>0, <1>8 DEF Grow, Live
<1>9. CASE SessionEnds(c) \/ CreateAgain(c)
  BY <1>0, <1>9 DEF SessionEnds, CreateAgain
<1> QED
  BY <1>1, <1>2, <1>3, <1>4, <1>5, <1>6, <1>7, <1>8, <1>9

\* No step but an admission promises anything, and what a step leaves without its reservation is
\* one session's, by a mishap.
LEMMA StepsEase ==
  ASSUME AdmissionInv, AdmissionTypeOK', NEW c \in Creates,
         \/ Decide(c) /\ ~(SlotsFor(c) >= 1)
         \/ CreateSession(c) \/ CreateFails(c) \/ Bind(c) \/ ReleaseEntry(c)
         \/ UpdateLost(c) \/ CreateKilled(c) \/ Expire(c)
         \/ OwnerStarts(c) \/ Grow(c) \/ SessionEnds(c) \/ CreateAgain(c)
  PROVE  Eases(c)
<1> USE DEF AdmissionInv, AdmissionTypeOK, Ways, CreateStages, Eases, OnTheBox, Lost, Need, OnItsWay, Live, Matched, KeptEntries,
       AdmitterAlive, Mishaps
<1>0. /\ ReserveNew \in Nat \ {0}
      /\ \A d \in Creates : measured[d] \in Nat /\ measured[d] <= ReserveNew
      /\ \A d \in Creates : measured'[d] \in Nat /\ measured'[d] <= ReserveNew
  BY AdmissionAssumption
<1>1. CASE Decide(c) /\ ~(SlotsFor(c) >= 1)
  BY <1>0, <1>1 DEF Decide
<1>2. CASE CreateSession(c)
  BY <1>0, <1>2 DEF CreateSession
<1>3. CASE CreateFails(c)
  BY <1>0, <1>3 DEF CreateFails
<1>4. CASE Bind(c)
  BY <1>0, <1>4 DEF Bind
<1>5. CASE ReleaseEntry(c)
  BY <1>0, <1>5 DEF ReleaseEntry
<1>6. CASE UpdateLost(c)
  BY <1>0, <1>6 DEF UpdateLost
<1>7. CASE CreateKilled(c)
  BY <1>0, <1>7 DEF CreateKilled
<1>8. CASE Expire(c)
  BY <1>0, <1>8 DEF Expire
<1>9. CASE OwnerStarts(c)
  BY <1>0, <1>9 DEF OwnerStarts
<1>10. CASE Grow(c)
  BY <1>0, <1>10 DEF Grow
<1>11. CASE SessionEnds(c)
  BY <1>0, <1>11 DEF SessionEnds
<1>12. CASE CreateAgain(c)
  BY <1>0, <1>12 DEF CreateAgain
<1> QED
  BY <1>1, <1>2, <1>3, <1>4, <1>5, <1>6, <1>7, <1>8, <1>9, <1>10, <1>11, <1>12

\* An admission promises a reservation, where the formula has found room for one more.
LEMMA AdmissionKeeps ==
  ASSUME AdmissionInv, AdmissionTypeOK', NEW c \in Creates, Decide(c), SlotsFor(c) >= 1
  PROVE  LostByMishap' /\ NothingPromisedTwice'
<1>1. /\ Lost' = Lost /\ OnTheBox' = OnTheBox \cup {c} /\ Mishaps' = Mishaps
      /\ \A d \in OnTheBox : d # c => Need'[d] = Need[d]
  BY DEF AdmissionInv, AdmissionTypeOK, Ways, CreateStages, OnTheBox, Lost, Need, OnItsWay, Live, Matched, KeptEntries,
       AdmitterAlive, Mishaps, Decide
<1>2. Promised' <= Promised + ReserveNew /\ Promised \in Nat /\ Promised' \in Nat
  <2>1. IsFiniteSet(OnTheBox)
    BY AdmissionAssumption, FS_Subset DEF OnTheBox
  <2>2. \A d \in OnTheBox : \A i \in 1..ReserveNew : i <= Need'[d] => d = c \/ i <= Need[d]
    BY <1>1
  <2>3. /\ Memory(Need', OnTheBox \cup {c}) \in Nat /\ Memory(Need, OnTheBox) \in Nat
        /\ Memory(Need', OnTheBox \cup {c}) <= Memory(Need, OnTheBox) + ReserveNew
    BY <2>1, <2>2, OneMore
  <2>4. Promised = Memory(Need, OnTheBox) /\ Promised' = Memory(Need', OnTheBox')
    BY DEF Promised, OnTheBox, Memory, Units
  <2> QED
    BY <1>1, <2>3, <2>4
<1>3. /\ Promised \in Nat /\ Charged \in Nat
      /\ Promised <= Charged + ReserveNew * Cardinality(Lost)
  BY PromisedIsCharged
<1>4. Room - Charged >= ReserveNew
  <2>1. Pending \in Int /\ Committed \in Int
    <3>1. IsFiniteSet(KeptEntries \ Matched) /\ IsFiniteSet(Live)
      BY AdmissionAssumption, FS_Subset DEF Live, KeptEntries
    <3>2. Pending \in Nat
      BY <3>1, FS_CardinalityType, AdmissionAssumption DEF Pending
    <3>3. Committed \in Nat
      BY <3>1, MemoryGrows DEF Committed
    <3> QED
      BY <3>2, <3>3
  <2>2. FreeSlots >= 1
    <3>1. CASE c \in Automation
      BY <3>1 DEF SlotsFor
    <3>2. CASE c \notin Automation
      <4>1. Cardinality(WaitingCreates) \in Nat
        BY AdmissionAssumption, FS_Subset, FS_CardinalityType DEF WaitingCreates
      <4>2. FreeSlots \in Int
        <5> DEFINE a == (Room - Charged) \div ReserveNew
                   b == (LimitRoom - Committed - Pending) \div ReserveNew
        <5>1. a \in Int /\ b \in Int
          BY <1>3, <2>1, AdmissionAssumption
        <5>2. FreeSlots = Max({0, Min({a, b})})
          BY DEF FreeSlots
        <5> HIDE DEF a, b
        <5>3. \E x \in {a, b} : \A y \in {a, b} : x =< y
          BY <5>1
        <5>4. Min({a, b}) \in Int
          BY <5>1, <5>3 DEF Min
        <5> QED
          BY <5>2, <5>4, MaxWithZero
      <4>3. FreeSlots - Cardinality(WaitingCreates) >= 1
        BY <3>2, <4>1, <4>2, MaxWithZero DEF SlotsFor
      <4> QED
        BY <4>1, <4>2, <4>3
    <3> QED
      BY <3>1, <3>2
  <2>3. Room - Charged \in Int /\ LimitRoom - Committed - Pending \in Int /\ ReserveNew \in Nat \ {0}
    BY <1>3, <2>1, AdmissionAssumption
  <2> QED
    BY <2>2, <2>3, FreeSlotFits DEF FreeSlots
<1>5. /\ ReserveNew * Cardinality(Lost) <= ReserveNew * Mishaps
      /\ ReserveNew * Cardinality(Lost) \in Nat /\ ReserveNew * Mishaps \in Nat
  <2>1. \A r, m, n \in Nat : m <= n => r * m <= r * n /\ r * m \in Nat /\ r * n \in Nat
    OBVIOUS
  <2>2. Cardinality(Lost) \in Nat /\ Mishaps \in Nat /\ Cardinality(Lost) <= Mishaps
    <3>1. IsFiniteSet(Lost)
      BY AdmissionAssumption, FS_Subset DEF Lost
    <3>2. Cardinality(Lost) \in Nat
      BY <3>1, FS_CardinalityType
    <3> QED
      BY <3>2, AdmissionAssumption DEF Mishaps, AdmissionInv, AdmissionTypeOK, LostByMishap
  <2> QED
    BY <2>1, <2>2, AdmissionAssumption
<1>6. Promised' <= Room + ReserveNew * Mishaps'
  <2>1. \A p, q, r, s, m, n \in Nat : \A room \in Nat :
          p <= q + r /\ q <= s + m /\ room - s >= r /\ m <= n => p <= room + n
    OBVIOUS
  <2> QED
    BY <1>1, <1>2, <1>3, <1>4, <1>5, <2>1, AdmissionAssumption
<1> QED
  BY <1>1, <1>6 DEF AdmissionInv, LostByMishap, NothingPromisedTwice, Mishaps

\* The invariant holds in every reachable state.
LEMMA AdmissionAlways == AdmissionSpec => []AdmissionInv
<1>1. AdmissionInv /\ [AdmissionNext]_admissionVars => AdmissionInv'
  <2> SUFFICES ASSUME AdmissionInv, [AdmissionNext]_admissionVars PROVE AdmissionInv'
    OBVIOUS
  <2>1. CASE UNCHANGED admissionVars
    BY <2>1 DEF admissionVars, AdmissionInv, AdmissionTypeOK, WaitingCreates, Ways, LostByMishap, NothingPromisedTwice,
         Lost, Mishaps, Promised, Memory, Units, Need, OnItsWay, Live, Matched, KeptEntries, AdmitterAlive
  <2>2. CASE AdmissionNext
    <3>1. PICK c \in Creates :
            \/ Decide(c) \/ CreateSession(c) \/ CreateFails(c) \/ Bind(c) \/ ReleaseEntry(c)
            \/ UpdateLost(c) \/ CreateKilled(c) \/ Expire(c)
            \/ OwnerStarts(c) \/ Grow(c) \/ SessionEnds(c) \/ CreateAgain(c)
      BY <2>2 DEF AdmissionNext
    <3>2. AdmissionTypeOK' /\ Ways'
      BY <3>1, WaysKept
    <3>3. LostByMishap' /\ NothingPromisedTwice'
      <4>1. CASE Decide(c) /\ SlotsFor(c) >= 1
        BY <3>2, <4>1, AdmissionKeeps
      <4>2. CASE ~(Decide(c) /\ SlotsFor(c) >= 1)
        BY <3>1, <3>2, <4>2, StepsEase, EasesKeeps
      <4> QED
        BY <4>1, <4>2
    <3> QED
      BY <3>2, <3>3 DEF AdmissionInv
  <2> QED
    BY <2>1, <2>2
<1> QED
  BY <1>1, AdmissionStarts, PTL DEF AdmissionSpec

\* Every reachable state of the gate is well formed, for any creates and any room.
THEOREM AdmissionTypeCorrect == AdmissionSpec => []AdmissionTypeOK
<1>1. AdmissionInv => AdmissionTypeOK
  BY DEF AdmissionInv
<1> QED
  BY <1>1, AdmissionAlways, PTL

\* The memory of a box is promised once (decideUnderLock, partitionPending, computeFormula), however
\* creates, binds, owners and prunings overlap, but for one reservation for each bind that is
\* lost, command killed and TTL that ran out.
THEOREM NothingEverPromisedTwice == AdmissionSpec => []NothingPromisedTwice
<1>1. AdmissionInv => NothingPromisedTwice
  BY DEF AdmissionInv
<1> QED
  BY <1>1, AdmissionAlways, PTL

==============================================================================
