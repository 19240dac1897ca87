---------------------------- MODULE SessionIndex ----------------------------
(***************************************************************************)
(* One row of the session index, a projection of the session's record that *)
(* several processes keep up (session/persistence/index-update-queue.ts,   *)
(* index-overlay.ts, index-lock.ts).                                       *)
(*                                                                         *)
(* Every writer of the record owes the row an update: queued and flushed   *)
(* at once or by a timer, overlaid later by a re-parent, or made by a      *)
(* template mark inside its own hold of the index lock.  The jobs of one   *)
(* process for the lock wait in line; the first tries for the lock file,   *)
(* which is exclusive and is free once its holder is dead                  *)
(* (IdentityFileLock).  The writers of other sessions hold it too.         *)
(***************************************************************************)
EXTENDS Naturals, Sequences, SequencesExt

CONSTANTS
  Processes,  \* the owner of the session and commands
  Owner,      \* the one that writes while its own updates are under way
  Verbs,      \* what each may do: "write", "move", "mark"
  Fields,     \* the groups of fields a row projects
  Linkage,    \* those a move overlays
  MaxWrites,  \* bound: the writes of the record
  MaxHolds,   \* bound: the times others take the index lock
  None        \* no entry, no holder

Kinds == {"flush", "overlay", "mark"}
Others == "others"

ASSUME IndexAssumption ==
  /\ Verbs \in [Processes -> SUBSET {"write", "move", "mark"}]
  /\ Owner \in Processes => Verbs[Owner] \subseteq {"write"}
  /\ Linkage \subseteq Fields
  /\ MaxWrites \in Nat /\ MaxHolds \in Nat
  /\ {None, Others} \cap Processes = {} /\ None # Others
  /\ None \notin [Fields -> Nat]

VARIABLES
  onDisk,      \* the record: for each group, the write that last changed it
  row,         \* the index's row of it
  writes,      \* the writes so far
  living,      \* "running", "leaving" or "gone"
  dirtyEntry,  \* the entry in the dirty set of each process
  flushTimer,  \* its trailing or retry timer
  known,       \* it has flushed this row before (knownFiles)
  wanted,      \* somebody in it is inside flushDir
  line,        \* its jobs for the index lock, in order
  job,         \* how far each job is
  fresh,       \* what each job has projected
  lock,        \* who holds the index lock
  holds,       \* the times others have taken it
  dropped      \* groups whose update somebody gave up (history)

indexVars == <<onDisk, row, writes, living, dirtyEntry, flushTimer, known, wanted, line, job, fresh, lock, holds, dropped>>
queue == <<dirtyEntry, flushTimer, known, wanted>>
locking == <<line, lock, holds>>

Row == [Fields -> 0..MaxWrites]
Blank == [f \in Fields |-> 0]

IndexTypeOK ==
  /\ onDisk \in Row /\ row \in Row /\ writes \in 0..MaxWrites
  /\ living \in [Processes -> {"running", "leaving", "gone"}]
  /\ dirtyEntry \in [Processes -> Row \cup {None}]
  /\ flushTimer \in [Processes -> BOOLEAN]
  /\ known \in [Processes -> BOOLEAN]
  /\ wanted \in [Processes -> BOOLEAN]
  /\ line \in [Processes -> Seq(Kinds)]
  /\ job \in [Processes -> [Kinds -> {"none", "owed", "line", "read", "write", "held", "done"}]]
  /\ fresh \in [Processes -> [Kinds -> Row]]
  /\ lock \in Processes \cup {None, Others}
  /\ holds \in 0..MaxHolds
  /\ dropped \subseteq Fields

IndexInit ==
  /\ onDisk = Blank /\ row = Blank /\ writes = 0
  /\ living = [p \in Processes |-> "running"]
  /\ dirtyEntry = [p \in Processes |-> None]
  /\ flushTimer = [p \in Processes |-> FALSE] /\ wanted = flushTimer /\ known = flushTimer
  /\ line = [p \in Processes |-> <<>>]
  /\ job = [p \in Processes |-> [k \in Kinds |-> "none"]]
  /\ fresh = [p \in Processes |-> [k \in Kinds |-> Blank]]
  /\ lock = None /\ holds = 0
  /\ dropped = {}

Covered(k) == IF k = "overlay" THEN Linkage ELSE Fields
To(p, k, stage) == job' = [job EXCEPT ![p][k] = stage]

(* A command does one thing after another, the owner does not.             *)
Free(p) ==
  /\ living[p] = "running"
  /\ p # Owner => ~wanted[p] /\ job[p]["overlay"] = "none" /\ job[p]["mark"] = "none"

(* What the process would still bring level, if it lived.                  *)
Owes(p, f) ==
  /\ living[p] # "gone"
  /\ \/ dirtyEntry[p] # None
     \/ \E k \in {"flush", "overlay"} :
          /\ f \in Covered(k)
          /\ \/ job[p][k] \in {"owed", "line", "read"}
             \/ job[p][k] = "write" /\ fresh[p][k][f] = onDisk[f]

Stale(r, d) == {f \in Fields : r[f] # d[f]}

-----------------------------------------------------------------------------
(* Writers of the record.                                                  *)

Written(changed) ==
  /\ writes < MaxWrites /\ writes' = writes + 1
  /\ onDisk' = [f \in Fields |-> IF f \in changed THEN writes + 1 ELSE onDisk[f]]

(* flushDir is entered, and with that the timer is cleared.                *)
FlushNow(p) ==
  /\ wanted' = [wanted EXCEPT ![p] = TRUE]
  /\ flushTimer' = [flushTimer EXCEPT ![p] = FALSE]

(* updateSessionIndexForRecordWrite: at once, or left to the timer if the  *)
(* process has flushed the row lately.                                     *)
WriteRecord(p, changed) ==
  /\ "write" \in Verbs[p] /\ Free(p)
  /\ Written(changed)
  /\ dirtyEntry' = [dirtyEntry EXCEPT ![p] = onDisk']
  /\ \/ FlushNow(p)
     \/ known[p] /\ flushTimer' = [flushTimer EXCEPT ![p] = TRUE] /\ UNCHANGED wanted
  /\ UNCHANGED <<row, living, known, locking, job, fresh, dropped>>

(* A re-parent, or a holder mirror: written without the index.             *)
MoveRecord(p) ==
  /\ "move" \in Verbs[p] /\ Free(p)
  /\ Written(Linkage)
  /\ To(p, "overlay", "owed")
  /\ UNCHANGED <<row, living, queue, locking, fresh, dropped>>

-----------------------------------------------------------------------------
(* The index lock (withAdvisoryLock).                                      *)

Enters(p, k) == line' = [line EXCEPT ![p] = Append(@, k)]
InLine(p, k) == k \in ToSet(line[p])

Overlay(p) ==
  /\ job[p]["overlay"] = "owed"
  /\ To(p, "overlay", "line") /\ Enters(p, "overlay")
  /\ UNCHANGED <<onDisk, row, writes, living, queue, fresh, lock, holds, dropped>>

Mark(p) ==
  /\ "mark" \in Verbs[p] /\ Free(p) /\ writes < MaxWrites
  /\ To(p, "mark", "line") /\ Enters(p, "mark")
  /\ UNCHANGED <<onDisk, row, writes, living, queue, fresh, lock, holds, dropped>>

TakeLock(p, k) ==
  /\ job[p][k] = "line" /\ Head(line[p]) = k /\ lock = None
  /\ lock' = p
  /\ To(p, k, IF k = "mark" THEN "held" ELSE "read")
  /\ UNCHANGED <<onDisk, row, writes, living, queue, line, fresh, holds, dropped>>

(* The job leaves the line, and with it the lock it holds; a flush within  *)
(* a mark has neither.                                                     *)
Leaves(p, k) ==
  /\ To(p, k, "none") /\ fresh' = [fresh EXCEPT ![p][k] = Blank]
  /\ IF InLine(p, k)
     THEN /\ line' = [line EXCEPT ![p] = Tail(@)]
          /\ lock' = IF lock = p THEN None ELSE lock
          /\ UNCHANGED holds
     ELSE UNCHANGED locking

OthersTake ==
  /\ lock = None /\ lock' = Others
  /\ holds < MaxHolds /\ holds' = holds + 1
  /\ UNCHANGED <<onDisk, row, writes, living, queue, line, job, fresh, dropped>>

OthersRelease ==
  /\ lock = Others /\ lock' = None
  /\ UNCHANGED <<onDisk, row, writes, living, queue, line, job, fresh, holds, dropped>>

(* A process on its way out makes one more attempt to flush.               *)
Exits(p) ==
  /\ living' = [living EXCEPT ![p] = "leaving"]
  /\ wanted' = [wanted EXCEPT ![p] = dirtyEntry[p] # None \/ job[p]["flush"] # "none"]
  /\ UNCHANGED <<dirtyEntry, flushTimer, known>>

-----------------------------------------------------------------------------
(* The update queue.                                                       *)

(* One round of flushDir takes the dirty set.                              *)
TakesPending(p) ==
  /\ dirtyEntry[p] # None /\ job[p]["flush"] = "none"
  /\ dirtyEntry' = [dirtyEntry EXCEPT ![p] = None]
  /\ flushTimer' = [flushTimer EXCEPT ![p] = FALSE]
  /\ fresh' = [fresh EXCEPT ![p]["flush"] = dirtyEntry[p]]
  /\ UNCHANGED <<onDisk, row, writes, living, known, lock, holds, dropped>>

JoinsLine(p) ==
  /\ TakesPending(p)
  /\ To(p, "flush", "line") /\ Enters(p, "flush")

(* The timer calls flushDir, which waits for a flush under way.            *)
FlushTimerFires(p) ==
  /\ living[p] = "running" /\ flushTimer[p]
  /\ FlushNow(p)
  /\ \/ JoinsLine(p)
     \/ /\ job[p]["flush"] # "none"
        /\ UNCHANGED <<onDisk, row, writes, living, dirtyEntry, known, locking, job, fresh, dropped>>

(* A call within a mark runs under the lock the mark holds.                *)
Within(p) == job[p]["mark"] \in {"held", "done"}

StartFlush(p) ==
  /\ wanted[p]
  /\ IF Within(p) THEN TakesPending(p) /\ To(p, "flush", "read") /\ UNCHANGED line
                  ELSE JoinsLine(p)
  /\ UNCHANGED wanted

(* Mutated form: a record that cannot be read is projected all the same. *)
ReadRecordOrNone(p, k) ==
  /\ job[p][k] = "read"
  /\ \E projected \in {onDisk, None} : fresh' = [fresh EXCEPT ![p][k] = projected]
  /\ To(p, k, "write")
  /\ UNCHANGED <<onDisk, row, writes, living, queue, locking, dropped>>

(* Mutated form: the queued entry is written. *)
ReadRecordQueued(p, k) ==
  /\ job[p][k] = "read"
  /\ fresh' = [fresh EXCEPT ![p][k] = IF k = "flush" THEN @ ELSE onDisk]
  /\ To(p, k, "write")
  /\ UNCHANGED <<onDisk, row, writes, living, queue, locking, dropped>>

(* The record is read again under the lock.                                *)
ReadRecord(p, k) ==
  /\ job[p][k] = "read"
  /\ fresh' = [fresh EXCEPT ![p][k] = onDisk]
  /\ To(p, k, "write")
  /\ UNCHANGED <<onDisk, row, writes, living, queue, locking, dropped>>

WriteIndex(p, k) ==
  /\ job[p][k] = "write"
  /\ row' = [f \in Fields |-> IF f \in Covered(k) THEN fresh[p][k][f] ELSE row[f]]
  /\ Leaves(p, k)
  /\ wanted' = [wanted EXCEPT ![p] = @ /\ (k # "flush" \/ dirtyEntry[p] # None)]
  /\ known' = [known EXCEPT ![p] = @ \/ k = "flush"]
  /\ dropped' = dropped \cap Stale(row', onDisk)
  /\ UNCHANGED <<onDisk, writes, living, dirtyEntry, flushTimer>>

(* Mutated form: the entry is not put back. *)
DeferredForgets(p, k) ==
  /\ flushTimer' = [flushTimer EXCEPT ![p] = TRUE]
  /\ wanted' = [wanted EXCEPT ![p] = FALSE]
  /\ UNCHANGED <<dirtyEntry, known, dropped, living>>

(* What was taken goes back, unless a newer entry has come, for the retry  *)
(* timer; another caller inside flushDir tries at once, as the timer may.  *)
Deferred(p, k) ==
  /\ dirtyEntry' = [dirtyEntry EXCEPT ![p] = IF @ = None THEN fresh[p][k] ELSE @]
  /\ flushTimer' = [flushTimer EXCEPT ![p] = TRUE]
  /\ wanted' = [wanted EXCEPT ![p] = FALSE]
  /\ UNCHANGED <<known, dropped, living>>

(* The first in line has waited its budget: a flush is deferred, an        *)
(* overlay skipped, a mark fails.                                          *)
LockTimeout(p, k) ==
  /\ job[p][k] = "line" /\ Head(line[p]) = k /\ lock # None
  /\ Leaves(p, k)
  /\ \/ k = "flush" /\ Deferred(p, k)
     \/ /\ k = "overlay"
        /\ dropped' = dropped \cup (Linkage \cap Stale(row, onDisk))
        /\ UNCHANGED <<queue, living>>
     \/ k = "mark" /\ Exits(p) /\ UNCHANGED dropped
  /\ UNCHANGED <<onDisk, row, writes>>

(* Any other error of the read-modify-write: what was taken is forgotten,  *)
(* everybody inside flushDir throws, and so does a mark around it.         *)
UpdateFails(p, k) ==
  /\ job[p][k] \in {"read", "write"}
  /\ dropped' = dropped \cup (Covered(k) \cap Stale(row, onDisk))
  /\ wanted' = [wanted EXCEPT ![p] = @ /\ k # "flush"]
  /\ IF InLine(p, k) THEN Leaves(p, k)
     ELSE /\ job' = [job EXCEPT ![p][k] = "none", ![p]["mark"] = "done"]
          /\ fresh' = [fresh EXCEPT ![p][k] = Blank]
          /\ UNCHANGED locking
  /\ UNCHANGED <<onDisk, row, writes, living, dirtyEntry, flushTimer, known>>

-----------------------------------------------------------------------------
(* A mark within its hold: it may load the index, which flushes first,     *)
(* then writes the record and flushes that (persistTemplateMark).          *)

MarkLoads(p) ==
  /\ job[p]["mark"] = "held" /\ dirtyEntry[p] # None /\ job[p]["flush"] = "none" /\ ~wanted[p]
  /\ FlushNow(p)
  /\ UNCHANGED <<onDisk, row, writes, living, dirtyEntry, known, locking, job, fresh, dropped>>

MarkWrites(p, changed) ==
  /\ job[p]["mark"] = "held" /\ (wanted[p] => job[p]["flush"] = "line")
  /\ Written(changed)
  /\ dirtyEntry' = [dirtyEntry EXCEPT ![p] = onDisk']
  /\ FlushNow(p)
  /\ To(p, "mark", "done")
  /\ UNCHANGED <<row, living, known, locking, fresh, dropped>>

(* It is done, or refused before its write, and the command ends.          *)
MarkEnds(p) ==
  /\ \/ job[p]["mark"] = "held" /\ (wanted[p] => job[p]["flush"] = "line")
     \/ job[p]["mark"] = "done" /\ job[p]["flush"] = "none" /\ ~wanted[p]
  /\ Leaves(p, "mark")
  /\ Exits(p)
  /\ UNCHANGED <<onDisk, row, writes, dropped>>

-----------------------------------------------------------------------------
(* The end of a process.                                                   *)

(* The loop has run dry, or the owner drains.                              *)
Leave(p) ==
  /\ Free(p)
  /\ p # Owner => job[p]["flush"] = "none"
  /\ Exits(p)
  /\ UNCHANGED <<onDisk, row, writes, locking, job, fresh, dropped>>

Departed(p) ==
  /\ living' = [living EXCEPT ![p] = "gone"]
  /\ dropped' = dropped \cup {f \in Stale(row, onDisk) : Owes(p, f)}
  /\ dirtyEntry' = [dirtyEntry EXCEPT ![p] = None]
  /\ flushTimer' = [flushTimer EXCEPT ![p] = FALSE] /\ wanted' = [wanted EXCEPT ![p] = FALSE]
  /\ line' = [line EXCEPT ![p] = <<>>]
  /\ job' = [job EXCEPT ![p] = [k \in Kinds |-> "none"]]
  /\ fresh' = [fresh EXCEPT ![p] = [k \in Kinds |-> Blank]]
  /\ lock' = IF lock = p THEN None ELSE lock
  /\ UNCHANGED <<onDisk, row, writes, known, holds>>

Depart(p) ==
  /\ living[p] = "leaving" /\ job[p]["flush"] = "none" /\ ~wanted[p]
  /\ Departed(p)

IndexCrash(p) == living[p] # "gone" /\ Departed(p)

(* A mark that may need a flush of its own process, in line behind it.     *)
WaitsForItself(p) == Within(p) /\ job[p]["flush"] = "line"

(* A command that only waits for itself has an empty event loop: it ends,  *)
(* without a word.                                                         *)
RunsDry(p) == p # Owner /\ WaitsForItself(p) /\ Departed(p)

-----------------------------------------------------------------------------
JobStep(p) ==
  \/ Overlay(p) \/ FlushTimerFires(p) \/ StartFlush(p) \/ MarkLoads(p) \/ MarkEnds(p) \/ Depart(p)
  \/ RunsDry(p)
  \/ \E k \in Kinds : ReadRecord(p, k) \/ WriteIndex(p, k)

IndexNext ==
  \/ \E p \in Processes :
       \/ \E changed \in SUBSET Fields \ {{}} : WriteRecord(p, changed) \/ MarkWrites(p, changed)
       \/ MoveRecord(p) \/ Mark(p) \/ JobStep(p) \/ Leave(p) \/ IndexCrash(p)
       \/ \E k \in Kinds : TakeLock(p, k) \/ LockTimeout(p, k) \/ UpdateFails(p, k)
  \/ OthersTake \/ OthersRelease

IndexSpec == IndexInit /\ [][IndexNext]_indexVars

(* A job goes on, timers fire and other writers release the lock.  A       *)
(* waiter polls for it and retries, so it does not miss it for ever.       *)
IndexFairness ==
  /\ \A p \in Processes :
       /\ WF_indexVars(JobStep(p))
       /\ SF_indexVars(\E k \in Kinds : TakeLock(p, k))
  /\ WF_indexVars(OthersRelease)
FairIndexSpec == IndexSpec /\ IndexFairness

-----------------------------------------------------------------------------
(* What must be true of it *)

(* No projection lands over a newer one: "a flush that waited can never    *)
(* write a pre-close snapshot over a later close".                         *)
RowNeverGoesBack == [][\A f \in Fields : row'[f] >= row[f]]_indexVars

(* "The index follows the record": the row never goes back; while it       *)
(* differs from the record in a group, some living process still has to    *)
(* bring that group level, or an update of it was given up; and where      *)
(* somebody has to, it happens.                                            *)
RowFollows ==
  /\ RowNeverGoesBack
  /\ [](\A f \in Stale(row, onDisk) : f \in dropped \/ \E p \in Processes : Owes(p, f))
  /\ \A f \in Fields : []<>(row[f] = onDisk[f] \/ f \in dropped)

=============================================================================
