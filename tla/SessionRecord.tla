--------------------------- MODULE SessionRecord ---------------------------
(***************************************************************************)
(* The record file of one session, written by the session's owner and by   *)
(* commands that close, reopen, mark, move, seat or re-pin it              *)
(* (session/persistence/repository.ts, model-merge.ts, and the commands).  *)
(*                                                                         *)
(* A writer works on a copy it read earlier.  Its write reads the record   *)
(* again, merges and renames under the record's lock, as one step: the     *)
(* lock admits one process (IdentityFileLock), and a crash inside leaves   *)
(* the file as it was.  SessionIndex has what follows a write.             *)
(*                                                                         *)
(* A member of RecordCommands is one process that runs one command.        *)
(* isoNow is a clock that all processes share and that may stand still.    *)
(***************************************************************************)
EXTENDS Naturals

CONSTANTS
  RecordCommands,  \* the processes that each run one command
  Owner,           \* the session's owner, whose copy lives as long as it does
  OwnerWrites,     \* names for the writes the owner has under way at once
  MaxTime,         \* bound: the clock
  None             \* an absent field

Processes == RecordCommands \cup {Owner}
Writers == RecordCommands \cup OwnerWrites
Process(w) == IF w \in RecordCommands THEN w ELSE Owner

Verbs == {"close", "reopen", "mark", "unmark", "parent", "holder", "model"}

ASSUME RecordAssumption ==
  /\ Owner \notin RecordCommands
  /\ OwnerWrites \cap Processes = {}
  /\ MaxTime \in Nat \ {0}
  /\ None \notin Processes \cup Verbs

VARIABLES
  disk,      \* the record file
  now,       \* isoNow()
  up,        \* the owner runs
  verb,      \* the command each process runs
  at,        \* how far each write is
  copy,      \* the record each process has in memory
  baseline   \* the pin it remembers to have read or written

recordVars == <<disk, now, up, verb, at, copy, baseline>>

Open == 0
Times == 1..MaxTime

(* The field groups the merge tells apart.  closed is closed_at, or Open;  *)
(* reopened is the warrant of the last reopen, or 0.                       *)
Record == [closed : {Open} \cup Times, reopened : {0} \cup Times,
           template : RecordCommands \cup {None}, parent : RecordCommands \cup {None},
           holder : RecordCommands \cup {None}, pin : Processes \cup {None}]

Initially(closed) ==
  [closed |-> closed, reopened |-> 0, template |-> None, parent |-> None,
   holder |-> None, pin |-> None]

Blank == Initially(Open)

RecordTypeOK ==
  /\ disk \in Record /\ now \in Times /\ up \in BOOLEAN
  /\ verb \in [RecordCommands -> Verbs \cup {None}]
  /\ at \in [Writers -> {"idle", "read", "write", "index", "over"}]
  /\ \A c \in RecordCommands : verb[c] = None <=> at[c] \in {"idle", "over"}
  /\ copy \in [Processes -> Record]
  /\ baseline \in [Processes -> Processes \cup {None}]

RecordInit ==
  /\ \E closed \in {Open, 1} : disk = Initially(closed)
  /\ now = 1 /\ up = TRUE
  /\ verb = [c \in RecordCommands |-> None]
  /\ at = [w \in Writers |-> "idle"]
  /\ copy = [p \in Processes |-> IF p = Owner THEN disk ELSE Blank]
  /\ baseline = [p \in Processes |-> None]

To(w, stage) == at' = [at EXCEPT ![w] = stage]

(* A process reads the record, or forgets it. *)
Reads(p) == /\ copy' = [copy EXCEPT ![p] = disk]
            /\ baseline' = [baseline EXCEPT ![p] = disk.pin]
Forgets(p) == /\ copy' = [copy EXCEPT ![p] = Blank]
              /\ baseline' = [baseline EXCEPT ![p] = None]

-----------------------------------------------------------------------------
(* Commands.                                                               *)

(* A command resolves the record; to reopen an open session is to do       *)
(* nothing.                                                                *)
Resolve(c, v) ==
  /\ at[c] = "idle"
  /\ v = "reopen" => disk.closed # Open
  /\ verb' = [verb EXCEPT ![c] = v]
  /\ Reads(c) /\ To(c, "read")
  /\ UNCHANGED <<disk, now, up>>

Closed(record) == [record EXCEPT !.closed = now]
Reopened(record) == [record EXCEPT !.closed = Open, !.reopened = now]
(* Mutated form: a mark closes without a time. *)
MarkedWithoutTime(c, record) ==
  [record EXCEPT !.template = c, !.closed = IF @ = Open THEN None ELSE @]

Marked(c, record) == [record EXCEPT !.template = c, !.closed = IF @ = Open THEN now ELSE @]

ChangedBy(c, record) ==
  CASE verb[c] = "close"  -> Closed(record)
    [] verb[c] = "reopen" -> Reopened(record)
    [] verb[c] = "mark"   -> Marked(c, record)
    [] verb[c] = "unmark" -> [record EXCEPT !.template = None]
    [] verb[c] = "parent" -> [record EXCEPT !.parent = c]
    [] verb[c] = "holder" -> [record EXCEPT !.holder = c]
    [] verb[c] = "model"  -> [record EXCEPT !.pin = c]

(* It changes its copy, perhaps long after: a close stops the owner first. *)
Change(c) ==
  /\ at[c] = "read"
  /\ copy' = [copy EXCEPT ![c] = ChangedBy(c, @)]
  /\ To(c, "write")
  /\ UNCHANGED <<disk, now, up, verb, baseline>>

CommandEnds(c) ==
  /\ at[c] \in {"read", "write", "index"}
  /\ To(c, "over") /\ verb' = [verb EXCEPT ![c] = None]
  /\ Forgets(c)
  /\ UNCHANGED <<disk, now, up>>

-----------------------------------------------------------------------------
(* The write.                                                              *)

Verb(w) == IF w \in RecordCommands THEN verb[w] ELSE "save"

Privileged(w) == Verb(w) \in {"close", "reopen", "mark", "unmark"}

LifecyclePreserved(w, record) ==
  IF Privileged(w) THEN record
  ELSE [record EXCEPT !.closed = disk.closed, !.reopened = disk.reopened,
                      !.template = disk.template]

(* Mutated form: privileged writers keep their own link. *)
ParentPreservedUnlessPrivileged(w, record) ==
  IF Verb(w) = "parent" \/ Privileged(w) THEN record
  ELSE [record EXCEPT !.parent = disk.parent]

(* The parent link is the disk's unless this write is a set-parent. *)
ParentPreserved(w, record) ==
  IF Verb(w) = "parent" THEN record ELSE [record EXCEPT !.parent = disk.parent]

HolderPreserved(w, record) ==
  IF Verb(w) = "holder" THEN record ELSE [record EXCEPT !.holder = disk.holder]

(* Mutated form: no merge. *)
PinVerbatim(w, record) == record

(* A pin that differs from the one remembered is a choice and wins.        *)
PinMerged(w, record) ==
  LET remembered == baseline[Process(w)]
      Or(pin, otherwise) == IF pin # None THEN pin ELSE otherwise
  IN  IF record.pin \notin {None, remembered} THEN record
      ELSE [record EXCEPT !.pin = Or(disk.pin, Or(remembered, record.pin))]

(* Mutated form: any warrant will do. *)
MonotonicUnchecked(record) ==
  IF record.closed = Open /\ disk.closed # Open /\ record.reopened = 0
  THEN [record EXCEPT !.closed = disk.closed] ELSE record

(* closed is cleared only by a warrant newer than the close on disk.       *)
Monotonic(record) ==
  IF record.closed = Open /\ disk.closed # Open /\ record.reopened <= disk.closed
  THEN [record EXCEPT !.closed = disk.closed] ELSE record

Merged(w) ==
  Monotonic(PinMerged(w, HolderPreserved(w, ParentPreserved(w,
              LifecyclePreserved(w, copy[Process(w)])))))

WriteRecord(w) ==
  /\ at[w] = "write"
  /\ disk' = Merged(w)
  /\ copy' = [copy EXCEPT ![Process(w)] = Merged(w)]
  /\ To(w, "index")
  /\ UNCHANGED <<now, up, verb, baseline>>

-----------------------------------------------------------------------------
(* The owner.                                                              *)

Save(w) ==
  /\ up /\ at[w] = "idle"
  /\ To(w, "write")
  /\ UNCHANGED <<disk, now, up, verb, copy, baseline>>

(* It remembers the pin only when the index update has been awaited.       *)
SaveEnds(w) ==
  /\ at[w] = "index"
  /\ baseline' = [baseline EXCEPT ![Owner] = copy[Owner].pin]
  /\ To(w, "idle")
  /\ UNCHANGED <<disk, now, up, verb, copy>>

(* It chooses a model itself: a guard, a floor, a failover.                *)
OwnerPins ==
  /\ up
  /\ copy' = [copy EXCEPT ![Owner].pin = Owner]
  /\ UNCHANGED <<disk, now, up, verb, at, baseline>>

(* Connected to its agent, it takes the session for open: in its copy.     *)
OwnerConnects ==
  /\ up
  /\ copy' = [copy EXCEPT ![Owner].closed = Open]
  /\ UNCHANGED <<disk, now, up, verb, at, baseline>>

OwnerStarts ==
  /\ ~up /\ disk.closed = Open /\ up' = TRUE
  /\ Reads(Owner)
  /\ UNCHANGED <<disk, now, verb, at>>

OwnerEnds ==
  /\ up /\ up' = FALSE
  /\ at' = [w \in Writers |-> IF w \in OwnerWrites THEN "idle" ELSE at[w]]
  /\ Forgets(Owner)
  /\ UNCHANGED <<disk, now, verb>>

ClockTicks ==
  /\ now < MaxTime /\ now' = now + 1
  /\ UNCHANGED <<disk, up, verb, at, copy, baseline>>

RecordNext ==
  \/ \E c \in RecordCommands : Change(c) \/ CommandEnds(c) \/ \E v \in Verbs : Resolve(c, v)
  \/ \E w \in Writers : WriteRecord(w)
  \/ \E w \in OwnerWrites : Save(w) \/ SaveEnds(w)
  \/ OwnerPins \/ OwnerConnects \/ OwnerStarts \/ OwnerEnds \/ ClockTicks

RecordSpec == RecordInit /\ [][RecordNext]_recordVars

-----------------------------------------------------------------------------
(* What must be true of it *)

Writes(w) == at[w] = "write" /\ at'[w] = "index"

(* The link to a parent changes only by set-parent and the seat holder     *)
(* only by the seat writer, whatever else writes, privileged or stale      *)
(* (preserveParentLinkageForPersist, preserveSeatHolderFieldsForPersist);  *)
(* and a save of the owner, however old its copy, neither closes, reopens  *)
(* nor marks a session: it adopts what a command wrote meanwhile.          *)
OwnedGroupsKept ==
  [][/\ disk'.parent # disk.parent
          => \E c \in RecordCommands : Writes(c) /\ verb[c] = "parent"
     /\ disk'.holder # disk.holder
          => \E c \in RecordCommands : Writes(c) /\ verb[c] = "holder"
     /\ \A w \in OwnerWrites : Writes(w) =>
          disk'.closed = disk.closed /\ disk'.template = disk.template]_recordVars

(* A close stays until a reopen stamped after it: no stale copy clears it, *)
(* and only a reopen, or an unmark that read what a reopen had written,    *)
(* does (enforceClosedMonotonicityForWrite).                               *)
ClosedUntilReopened ==
  [][disk.closed # Open /\ disk'.closed = Open =>
       \E c \in RecordCommands :
         /\ Writes(c) /\ verb[c] \in {"reopen", "unmark"}
         /\ disk'.reopened = copy[c].reopened /\ disk'.reopened > disk.closed]_recordVars

(* A pin on disk is replaced only by a writer that chose its own.  The     *)
(* exception is a save of the owner begun before another of its saves has  *)
(* ended: what that one adopted is not remembered yet and looks like a     *)
(* choice (rememberSessionModelBaseline runs after the index update).      *)
PinRegressedOnlyByOverlap ==
  [][disk'.pin # disk.pin =>
       \/ \E c \in RecordCommands : Writes(c) /\ verb[c] = "model" /\ disk'.pin = c
       \/ \E w \in OwnerWrites : Writes(w) /\ disk'.pin = Owner
       \/ \E w, other \in OwnerWrites : w # other /\ Writes(w) /\ at[other] = "index"]_recordVars

=============================================================================
