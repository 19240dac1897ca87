------------------------- MODULE SessionRecordProofs -------------------------
(***************************************************************************)
(* Who may write a session's record, and what of it stays: the merge of a  *)
(* write under the record's lock (SessionRecord), for any number of        *)
(* commands, overlapping saves of the owner and any clock; and the fence   *)
(* of the automatic spawns of a run (SpawnLedger), for any number of       *)
(* attempts, programs, ACP sessions and crashes.  Then the accounts of a   *)
(* flow's run (FlowRun), and at the end the session's files between the    *)
(* hot directory and the archive (Archive), for any number of runs,        *)
(* restores, sweeps, repairs, kills, failed renames and spoken lines.      *)
(***************************************************************************)
EXTENDS SessionRecord, SpawnLedger, FlowRun, Archive, TLAPS

(* The merge of a write: each group of fields comes from the copy or from  *)
(* the disk.                                                               *)
LEMMA MergedShape ==
  ASSUME RecordTypeOK, NEW w \in Writers
  PROVE  LET mine == copy[Process(w)] IN
         /\ Merged(w) \in Record
         /\ Verb(w) # "parent" => Merged(w).parent = disk.parent
         /\ Verb(w) # "holder" => Merged(w).holder = disk.holder
         /\ ~Privileged(w)
              => Merged(w).closed = disk.closed /\ Merged(w).template = disk.template
         /\ Merged(w).closed = Open /\ disk.closed # Open
              => /\ Privileged(w)
                 /\ mine.closed = Open
                 /\ Merged(w).reopened = mine.reopened
                 /\ mine.reopened > disk.closed
<1> DEFINE mine == copy[Process(w)]
           kept == LifecyclePreserved(w, mine)
           linked == HolderPreserved(w, ParentPreserved(w, kept))
           pinned == PinMerged(w, linked)
<1>1. /\ mine \in Record /\ disk \in Record
      /\ baseline[Process(w)] \in Processes \cup {None}
  BY DEF RecordTypeOK, Writers, Process, Processes
<1>2. /\ kept \in Record
      /\ ~Privileged(w) => kept.closed = disk.closed /\ kept.template = disk.template
      /\ Privileged(w) => kept = mine
  BY <1>1, Zenon DEF LifecyclePreserved, Record
<1>3. /\ linked \in Record
      /\ linked.closed = kept.closed /\ linked.reopened = kept.reopened
      /\ linked.template = kept.template
      /\ Verb(w) # "parent" => linked.parent = disk.parent
      /\ Verb(w) # "holder" => linked.holder = disk.holder
  BY <1>1, <1>2 DEF HolderPreserved, ParentPreserved, Record
<1>4. /\ pinned \in Record
      /\ pinned.closed = linked.closed /\ pinned.reopened = linked.reopened
      /\ pinned.parent = linked.parent /\ pinned.holder = linked.holder
      /\ pinned.template = linked.template
  BY <1>1, <1>3 DEF PinMerged, Record
<1>5. /\ Merged(w) = Monotonic(pinned)
  BY DEF Merged
<1>6. /\ Monotonic(pinned) \in Record
      /\ Monotonic(pinned).parent = pinned.parent
      /\ Monotonic(pinned).holder = pinned.holder
      /\ Monotonic(pinned).reopened = pinned.reopened
      /\ Monotonic(pinned).template = pinned.template
      /\ pinned.closed = disk.closed => Monotonic(pinned).closed = disk.closed
      /\ Monotonic(pinned).closed = Open /\ disk.closed # Open
           => pinned.closed = Open /\ pinned.reopened > disk.closed
  BY <1>1, <1>4 DEF Monotonic, Record, Times, Open
<1> QED
  BY <1>2, <1>3, <1>4, <1>5, <1>6

(* Every reachable state is well typed.                                    *)
THEOREM TypeCorrect == RecordSpec => []RecordTypeOK
<1>1. RecordInit => RecordTypeOK
  BY RecordAssumption DEF RecordInit, RecordTypeOK, Initially, Blank, Record, Times, Open, Processes, Writers
<1>2. RecordTypeOK /\ [RecordNext]_recordVars => RecordTypeOK'
  <2> SUFFICES ASSUME RecordTypeOK, [RecordNext]_recordVars PROVE RecordTypeOK'
    OBVIOUS
  <2> USE RecordAssumption
  <2>1. Blank \in Record
    BY DEF Blank, Initially, Record, Times, Open
  <2>2. ASSUME NEW c \in RecordCommands, NEW v \in Verbs, Resolve(c, v) PROVE RecordTypeOK'
    BY <2>2 DEF Resolve, Reads, To, RecordTypeOK, Record, Processes, Writers
  <2>3. ASSUME NEW c \in RecordCommands, Change(c) PROVE RecordTypeOK'
    <3>1. copy[c] \in Record /\ now \in Times /\ c \in Processes /\ verb[c] \in Verbs
      BY <2>3 DEF Change, RecordTypeOK, Processes
    <3>2. ChangedBy(c, copy[c]) \in Record
      <4>1. Closed(copy[c]) \in Record /\ Reopened(copy[c]) \in Record
        BY <3>1 DEF Closed, Reopened, Record, Times, Open
      <4>2. Marked(c, copy[c]) \in Record
        BY <3>1 DEF Marked, Record, Times, Open
      <4>3. /\ [copy[c] EXCEPT !.template = None] \in Record /\ [copy[c] EXCEPT !.parent = c] \in Record
            /\ [copy[c] EXCEPT !.holder = c] \in Record /\ [copy[c] EXCEPT !.pin = c] \in Record
        BY <3>1 DEF Record
      <4> HIDE DEF Closed, Reopened, Marked, Record
      <4> QED
        BY <3>1, <4>1, <4>2, <4>3 DEF ChangedBy, Verbs
    <3> QED
      BY <2>3, <3>1, <3>2 DEF Change, To, RecordTypeOK, Writers
  <2>4. ASSUME NEW c \in RecordCommands, CommandEnds(c) PROVE RecordTypeOK'
    BY <2>1, <2>4 DEF CommandEnds, Forgets, To, RecordTypeOK, Processes, Writers
  <2>5. ASSUME NEW w \in Writers, WriteRecord(w) PROVE RecordTypeOK'
    <3>1. Merged(w) \in Record
      BY MergedShape
    <3> QED
      BY <2>5, <3>1 DEF WriteRecord, To, RecordTypeOK, Process, Processes, Writers
  <2>6. ASSUME NEW w \in OwnerWrites, Save(w) \/ SaveEnds(w) PROVE RecordTypeOK'
    BY <2>6 DEF Save, SaveEnds, To, RecordTypeOK, Record, Processes, Writers
  <2>7. CASE OwnerPins \/ OwnerConnects
    BY <2>7 DEF OwnerPins, OwnerConnects, RecordTypeOK, Record, Processes, Open
  <2>8. CASE OwnerStarts
    BY <2>8 DEF OwnerStarts, Reads, RecordTypeOK, Record, Processes
  <2>9. CASE OwnerEnds
    BY <2>1, <2>9 DEF OwnerEnds, Forgets, RecordTypeOK, Processes, Writers
  <2>10. CASE ClockTicks
    BY <2>10 DEF ClockTicks, RecordTypeOK, Times
  <2>11. CASE UNCHANGED recordVars
    BY <2>11 DEF recordVars, RecordTypeOK
  <2> QED
    BY <2>2, <2>3, <2>4, <2>5, <2>6, <2>7, <2>8, <2>9, <2>10, <2>11 DEF RecordNext
<1> QED
  BY <1>1, <1>2, PTL DEF RecordSpec

(* Only a write changes the file.                                          *)
LEMMA OnlyWritesTouchDisk ==
  ASSUME [RecordNext]_recordVars
  PROVE  disk' = disk \/ \E w \in Writers : WriteRecord(w)
BY DEF RecordNext, recordVars, Resolve, Change, CommandEnds, Save, SaveEnds, OwnerPins, OwnerConnects,
       OwnerStarts, OwnerEnds, ClockTicks, Writers

(* What a close or a mark is about to write says closed.                   *)
MarksClosed ==
  \A c \in RecordCommands :
    at[c] = "write" /\ verb[c] \in {"close", "mark"} => copy[c].closed # Open

LEMMA AlwaysMarksClosed == RecordSpec => []MarksClosed
<1>1. RecordInit => MarksClosed
  BY DEF RecordInit, MarksClosed, Writers
<1>2. RecordTypeOK /\ MarksClosed /\ [RecordNext]_recordVars => MarksClosed'
  <2> SUFFICES ASSUME RecordTypeOK, MarksClosed, [RecordNext]_recordVars,
                      NEW c \in RecordCommands, at'[c] = "write", verb'[c] \in {"close", "mark"}
               PROVE  copy'[c].closed # Open
    BY DEF MarksClosed
  <2> USE RecordAssumption
  <2>1. /\ copy[c] \in Record /\ now \in Times /\ c \in Processes /\ c \in Writers
        /\ c \notin OwnerWrites /\ c # Owner
    BY DEF RecordTypeOK, Processes, Writers
  <2>2. CASE Change(c)
    <3>1. /\ copy'[c] = ChangedBy(c, copy[c]) /\ verb[c] \in {"close", "mark"}
      BY <2>1, <2>2 DEF Change, RecordTypeOK
    <3>2. ChangedBy(c, copy[c]).closed # Open
      BY <2>1, <3>1 DEF ChangedBy, Closed, Marked, Record, Times, Open
    <3> QED
      BY <3>1, <3>2
  <2>3. ASSUME NEW w \in Writers, WriteRecord(w) PROVE copy'[c].closed # Open
    <3>1. CASE w = c
      BY <2>3, <3>1, <2>1 DEF WriteRecord, To, RecordTypeOK
    <3>2. CASE w # c
      <4>1. Process(w) # c
        BY <2>1, <3>2 DEF Process
      <4> QED
        BY <2>1, <2>3, <3>2, <4>1 DEF WriteRecord, To, RecordTypeOK, MarksClosed
    <3> QED
      BY <3>1, <3>2
  <2>4. CASE at'[c] = at[c] /\ verb'[c] = verb[c] /\ copy'[c] = copy[c]
    BY <2>4 DEF MarksClosed
  <2>5. CASE ~Change(c) /\ ~\E w \in Writers : WriteRecord(w)
    BY <2>1, <2>4, <2>5 DEF RecordNext, recordVars, Resolve, Reads, Change, CommandEnds, Forgets, To, Save,
         SaveEnds, OwnerPins, OwnerConnects, OwnerStarts, OwnerEnds, ClockTicks, RecordTypeOK
  <2> QED
    BY <2>2, <2>3, <2>5
<1> QED
  BY <1>1, <1>2, TypeCorrect, PTL DEF RecordSpec

(* Whoever writes, and however old its copy is, the parent link and the    *)
(* seat holder on disk change only at the hand of their own writers, and   *)
(* no save of the owner touches the lifecycle.                             *)
THEOREM OwnedGroupsAlwaysKept == RecordSpec => OwnedGroupsKept
<1> DEFINE Kept ==
      /\ disk'.parent # disk.parent
           => \E c \in RecordCommands : Writes(c) /\ verb[c] = "parent"
      /\ disk'.holder # disk.holder
           => \E c \in RecordCommands : Writes(c) /\ verb[c] = "holder"
      /\ \A w \in OwnerWrites : Writes(w) =>
           disk'.closed = disk.closed /\ disk'.template = disk.template
<1>1. RecordTypeOK /\ [RecordNext]_recordVars => [Kept]_recordVars
  <2> SUFFICES ASSUME RecordTypeOK, [RecordNext]_recordVars PROVE Kept
    OBVIOUS
  <2>1. CASE disk' = disk
    BY <2>1
  <2>2. ASSUME NEW w \in Writers, WriteRecord(w) PROVE Kept
    <3>1. /\ disk' = Merged(w) /\ Writes(w)
      BY <2>2 DEF WriteRecord, To, Writes, RecordTypeOK
    <3>2. /\ Verb(w) # "parent" => Merged(w).parent = disk.parent
          /\ Verb(w) # "holder" => Merged(w).holder = disk.holder
      BY MergedShape
    <3>3. ASSUME NEW v \in OwnerWrites, Writes(v)
          PROVE  disk'.closed = disk.closed /\ disk'.template = disk.template
      <4>1. v = w
        BY <2>2, <3>3 DEF WriteRecord, To, Writes, RecordTypeOK, Writers
      <4>2. ~Privileged(w)
        BY <3>3, <4>1, RecordAssumption DEF Privileged, Verb, Processes
      <4> QED
        BY <3>1, <4>2, MergedShape
    <3> QED
      BY <3>1, <3>2, <3>3 DEF Verb
  <2> QED
    BY <2>1, <2>2, OnlyWritesTouchDisk
<1> QED
  BY TypeCorrect, <1>1, PTL DEF RecordSpec, OwnedGroupsKept

(* A closed session is opened only by a reopen, or by an unmark of what a  *)
(* reopen had written, stamped after the close that is on disk.            *)
THEOREM AlwaysClosedUntilReopened == RecordSpec => ClosedUntilReopened
<1> DEFINE Stays ==
      disk.closed # Open /\ disk'.closed = Open =>
        \E c \in RecordCommands :
          /\ Writes(c) /\ verb[c] \in {"reopen", "unmark"}
          /\ disk'.reopened = copy[c].reopened /\ disk'.reopened > disk.closed
<1>1. MarksClosed /\ RecordTypeOK /\ [RecordNext]_recordVars => [Stays]_recordVars
  <2> SUFFICES ASSUME MarksClosed, RecordTypeOK, [RecordNext]_recordVars PROVE Stays
    OBVIOUS
  <2>1. CASE disk' = disk
    BY <2>1
  <2>2. ASSUME NEW w \in Writers, WriteRecord(w), disk.closed # Open, disk'.closed = Open
        PROVE  Stays
    <3>1. disk' = Merged(w) /\ Writes(w)
      BY <2>2 DEF WriteRecord, To, Writes, RecordTypeOK
    <3>2. /\ Privileged(w)
          /\ copy[Process(w)].closed = Open
          /\ Merged(w).reopened = copy[Process(w)].reopened
          /\ copy[Process(w)].reopened > disk.closed
      BY <2>2, <3>1, MergedShape
    <3>3. w \in RecordCommands /\ verb[w] \in {"close", "reopen", "mark", "unmark"} /\ Process(w) = w
      BY <3>2 DEF Privileged, Verb, Process
    <3>4. verb[w] \notin {"close", "mark"}
      BY <2>2, <3>2, <3>3 DEF MarksClosed, WriteRecord
    <3> QED
      BY <3>1, <3>2, <3>3, <3>4
  <2> QED
    BY <2>1, <2>2, OnlyWritesTouchDisk
<1> QED
  BY TypeCorrect, AlwaysMarksClosed, <1>1, PTL DEF RecordSpec, ClosedUntilReopened

-----------------------------------------------------------------------------
(* The pin of the model.                                                   *)

(* A pin that differs from the one remembered is written; otherwise the    *)
(* disk's stands, and where the disk has none the one in memory is written. *)
LEMMA MergedPin ==
  ASSUME RecordTypeOK, NEW w \in Writers
  PROVE  LET mine == copy[Process(w)].pin
             remembered == baseline[Process(w)]
         IN  /\ mine \notin {None, remembered} => Merged(w).pin = mine
             /\ mine \in {None, remembered} /\ disk.pin # None => Merged(w).pin = disk.pin
             /\ mine \in {None, remembered} /\ disk.pin = None
                  => Merged(w).pin \in {mine, remembered}
             /\ Merged(w).pin = None => disk.pin = None
<1> DEFINE mine == copy[Process(w)]
           linked == HolderPreserved(w, ParentPreserved(w, LifecyclePreserved(w, mine)))
           pinned == PinMerged(w, linked)
<1>1. mine \in Record /\ disk \in Record
  BY DEF RecordTypeOK, Writers, Process, Processes
<1>2. LifecyclePreserved(w, mine) \in Record /\ LifecyclePreserved(w, mine).pin = mine.pin
  BY <1>1, Zenon DEF LifecyclePreserved, Record
<1>3. linked \in Record /\ linked.pin = mine.pin
  BY <1>1, <1>2 DEF HolderPreserved, ParentPreserved, Record
<1>4. Merged(w).pin = pinned.pin
  <2>1. Merged(w) = Monotonic(pinned)
    BY DEF Merged
  <2>2. pinned \in Record
    BY <1>1, <1>3 DEF PinMerged, Record, RecordTypeOK, Writers, Process, Processes
  <2> QED
    BY <2>1, <2>2 DEF Monotonic, Record
<1>5. /\ mine.pin \notin {None, baseline[Process(w)]} => pinned.pin = mine.pin
      /\ mine.pin \in {None, baseline[Process(w)]} /\ disk.pin # None => pinned.pin = disk.pin
      /\ mine.pin \in {None, baseline[Process(w)]} /\ disk.pin = None
           => pinned.pin \in {mine.pin, baseline[Process(w)]}
  BY <1>1, <1>3 DEF PinMerged, Record
<1> QED
  BY <1>4, <1>5

(* A command remembers the pin it read until it chooses one itself; the    *)
(* owner's copy holds a pin that is neither its own nor remembered only    *)
(* while a save of it has written and not ended; and while no pin was ever *)
(* written nobody knows of one but the owner of its own.                   *)
PinsKnown ==
  /\ \A c \in RecordCommands :
       /\ at[c] = "read" => copy[c].pin = baseline[c]
       /\ at[c] = "write" => copy[c].pin = IF verb[c] = "model" THEN c ELSE baseline[c]
  /\ \/ copy[Owner].pin \in {None, Owner, baseline[Owner]}
     \/ \E w \in OwnerWrites : at[w] = "index"
  /\ disk.pin = None =>
       /\ copy[Owner].pin \in {None, Owner} /\ baseline[Owner] \in {None, Owner}
       /\ \A c \in RecordCommands : baseline[c] = None

LEMMA AlwaysPinsKnown == RecordSpec => []PinsKnown
<1>1. RecordInit => PinsKnown
  BY RecordAssumption
     DEF RecordInit, PinsKnown, Initially, Blank, Processes, Writers
<1>2. RecordTypeOK /\ PinsKnown /\ [RecordNext]_recordVars => PinsKnown'
  <2> SUFFICES ASSUME RecordTypeOK, PinsKnown, [RecordNext]_recordVars PROVE PinsKnown'
    OBVIOUS
  <2> USE RecordAssumption
  <2>a. /\ copy \in [Processes -> Record] /\ baseline \in [Processes -> Processes \cup {None}]
        /\ at \in [Writers -> {"idle", "read", "write", "index", "over"}]
        /\ verb \in [RecordCommands -> Verbs \cup {None}]
        /\ Owner \in Processes /\ RecordCommands \subseteq Processes \ {Owner}
        /\ RecordCommands \cup OwnerWrites = Writers /\ RecordCommands \cap OwnerWrites = {}
        /\ \A c \in RecordCommands : verb[c] # None <=> at[c] \notin {"idle", "over"}
    BY DEF RecordTypeOK, Processes, Writers
  <2>b. Blank.pin = None
    BY DEF Blank, Initially
  <2>2. ASSUME NEW c \in RecordCommands, NEW v \in Verbs, Resolve(c, v) PROVE PinsKnown'
    BY <2>2, <2>a DEF Resolve, Reads, To, PinsKnown
  <2>3. ASSUME NEW c \in RecordCommands, Change(c) PROVE PinsKnown'
    <3>1. ChangedBy(c, copy[c]).pin = IF verb[c] = "model" THEN c ELSE baseline[c]
      <4>1. copy[c] \in Record /\ verb[c] \in Verbs /\ copy[c].pin = baseline[c]
        BY <2>3, <2>a DEF Change, PinsKnown
      <4> QED
        BY <4>1 DEF ChangedBy, Closed, Reopened, Marked, Verbs, Record
    <3> QED
      BY <2>3, <2>a, <3>1 DEF Change, To, PinsKnown
  <2>4. ASSUME NEW c \in RecordCommands, CommandEnds(c) PROVE PinsKnown'
    BY <2>4, <2>a, <2>b DEF CommandEnds, Forgets, To, PinsKnown
  <2>5. ASSUME NEW w \in Writers, WriteRecord(w) PROVE PinsKnown'
    <3>1. /\ disk' = Merged(w) /\ copy' = [copy EXCEPT ![Process(w)] = Merged(w)]
          /\ at' = [at EXCEPT ![w] = "index"] /\ verb' = verb /\ baseline' = baseline
          /\ at[w] = "write"
      BY <2>5 DEF WriteRecord, To
    <3>2. Merged(w).pin = None => disk.pin = None
      BY MergedPin
    <3>3. CASE w \in OwnerWrites
      <4>1. Process(w) = Owner
        BY <3>3, <2>a DEF Process
      <4> QED
        BY <2>a, <3>1, <3>2, <3>3, <4>1 DEF PinsKnown
    <3>4. CASE w \in RecordCommands
      <4>1. Process(w) = w
        BY <3>4 DEF Process
      <4> QED
        BY <2>a, <3>1, <3>2, <3>4, <4>1 DEF PinsKnown
    <3> QED
      BY <2>a, <3>3, <3>4
  <2>6. ASSUME NEW w \in OwnerWrites, Save(w) PROVE PinsKnown'
    BY <2>6, <2>a DEF Save, To, PinsKnown
  <2>7. ASSUME NEW w \in OwnerWrites, SaveEnds(w) PROVE PinsKnown'
    BY <2>7, <2>a DEF SaveEnds, To, PinsKnown
  <2>8. CASE OwnerPins \/ OwnerConnects
    <3>1. copy'[Owner].pin \in {Owner, copy[Owner].pin}
          /\ \A c \in RecordCommands : copy'[c] = copy[c]
      BY <2>8, <2>a DEF OwnerPins, OwnerConnects, Record
    <3> QED
      BY <2>8, <2>a, <3>1 DEF OwnerPins, OwnerConnects, PinsKnown
  <2>9. CASE OwnerStarts
    BY <2>9, <2>a DEF OwnerStarts, Reads, PinsKnown
  <2>10. CASE OwnerEnds
    BY <2>10, <2>a, <2>b DEF OwnerEnds, Forgets, PinsKnown
  <2>11. CASE UNCHANGED recordVars \/ ClockTicks
    BY <2>11 DEF recordVars, ClockTicks, PinsKnown
  <2> QED
    BY <2>2, <2>3, <2>4, <2>5, <2>6, <2>7, <2>8, <2>9, <2>10, <2>11 DEF RecordNext
<1> QED
  BY <1>1, <1>2, TypeCorrect, PTL DEF RecordSpec

(* Whatever commands and saves overlap, a pin on disk is replaced only by  *)
(* the one who chose it or by a save of the owner begun before another of  *)
(* its saves had ended: the window the code leaves is the only one.        *)
THEOREM PinAlwaysRegressesByOverlap == RecordSpec => PinRegressedOnlyByOverlap
<1> DEFINE Stands ==
      disk'.pin # disk.pin =>
        \/ \E c \in RecordCommands : Writes(c) /\ verb[c] = "model" /\ disk'.pin = c
        \/ \E w \in OwnerWrites : Writes(w) /\ disk'.pin = Owner
        \/ \E w, other \in OwnerWrites : w # other /\ Writes(w) /\ at[other] = "index"
<1>1. PinsKnown /\ RecordTypeOK /\ [RecordNext]_recordVars => [Stands]_recordVars
  <2> SUFFICES ASSUME PinsKnown, RecordTypeOK, [RecordNext]_recordVars PROVE Stands
    OBVIOUS
  <2>1. CASE disk' = disk
    BY <2>1
  <2>2. ASSUME NEW w \in Writers, WriteRecord(w), disk'.pin # disk.pin PROVE Stands
    <3>1. disk'.pin = Merged(w).pin /\ Writes(w) /\ at[w] = "write"
      BY <2>2 DEF WriteRecord, To, Writes, RecordTypeOK
    <3> DEFINE mine == copy[Process(w)].pin
               remembered == baseline[Process(w)]
    <3>2. \/ mine \notin {None, remembered} /\ Merged(w).pin = mine
          \/ /\ mine \in {None, remembered} /\ disk.pin = None /\ Merged(w).pin # None
             /\ Merged(w).pin \in {mine, remembered}
      BY <2>2, <3>1, MergedPin
    <3>3. CASE w \in OwnerWrites
      <4>1. Process(w) = Owner
        BY <3>3, RecordAssumption DEF Process, Processes
      <4>2. CASE Merged(w).pin = Owner
        BY <3>1, <3>3, <4>2
      <4>3. CASE Merged(w).pin # Owner
        <5>1. mine \notin {None, Owner, remembered}
          BY <3>2, <4>1, <4>3 DEF PinsKnown
        <5>2. PICK other \in OwnerWrites : at[other] = "index"
          BY <4>1, <5>1 DEF PinsKnown
        <5> QED
          BY <3>1, <3>3, <5>2
      <4> QED
        BY <4>2, <4>3
    <3>4. CASE w \in RecordCommands
      <4>1. Process(w) = w /\ mine = IF verb[w] = "model" THEN w ELSE remembered
        BY <3>1, <3>4 DEF Process, PinsKnown
      <4>2. verb[w] = "model" /\ Merged(w).pin = w
        BY <3>2, <3>4, <4>1 DEF PinsKnown
      <4> QED
        BY <3>1, <3>4, <4>2
    <3> QED
      BY <3>3, <3>4 DEF Writers
  <2> QED
    BY <2>1, <2>2, OnlyWritesTouchDisk
<1> QED
  BY TypeCorrect, AlwaysPinsKnown, <1>1, PTL DEF RecordSpec, PinRegressedOnlyByOverlap

-----------------------------------------------------------------------------
(* The fence of automatic spawns (SpawnLedger).                            *)


(* The inductive invariant: an attempt below a used fence is revoked or    *)
(* settled, one attempt at most is adopted, an attempt that published has  *)
(* a record, and a record is orphaned only for a run that is adopted.      *)
Superseded ==
  \A f, g \in Fences :
    f < g /\ attempt[g] # "none" => attempt[f] \notin {"reserved", "launched", "published"}

AdoptedOnce == \A f \in Fences : attempt[f] = "adopted" <=> f = adoptedFence

Marks ==
  /\ \A f \in Fences :
       recordOf[f] # NoOne /\ recordOf[f].mark = "orphaned" =>
         adoptedFence # 0 /\ (f = adoptedFence => conflict \/ torn > 0)
  /\ adoptedFence # 0 => recordOf[adoptedFence] # NoOne /\ recordOf[adoptedFence].mark # "pending"

SpawnInv == SpawnTypeOK /\ Superseded /\ AdoptedOnce /\ Marks

(* A transition that is allowed keeps the record well typed, changes only  *)
(* the mark of its own record, and never takes an orphan's mark away.      *)
LEMMA RemarkedShape ==
  ASSUME SpawnInv, NEW f \in Fences, NEW next \in SpawnStates, Allowed(f, next)
  PROVE  /\ Remarked(f, next) \in [Fences -> Records \cup {NoOne}]
         /\ \A g \in Fences :
              /\ g # f => Remarked(f, next)[g] = recordOf[g]
              /\ recordOf[g] # NoOne =>
                   /\ Remarked(f, next)[g] # NoOne
                   /\ Remarked(f, next)[g].acp = recordOf[g].acp
                   /\ recordOf[g].mark = "orphaned" => Remarked(f, next)[g].mark = "orphaned"
              /\ recordOf[g] = NoOne => Remarked(f, next)[g] = NoOne
         /\ next = "adopted" =>
              recordOf[f] # NoOne /\ Remarked(f, next)[f].mark = "published"
         /\ recordOf[f] # NoOne /\ Remarked(f, next)[f].mark = "orphaned" =>
              adoptedFence # 0 /\ f # adoptedFence
         /\ recordOf[f] # NoOne /\ Remarked(f, next)[f].mark = "pending" => recordOf[f].mark = "pending"
<1>1. /\ \A g \in Fences : recordOf[g] # NoOne => recordOf[g] \in Records
      /\ DOMAIN recordOf = Fences
  BY DEF SpawnInv, SpawnTypeOK
<1>2. /\ next \in {"adopted", "orphaned"} => recordOf[f] # NoOne
      /\ next \in {"published", "adopted"} => adoptedFence = 0
      /\ next = "orphaned" => adoptedFence # 0
  BY DEF Allowed
<1>3. f # adoptedFence
  BY DEF SpawnInv, AdoptedOnce, Allowed
<1>4. \A g \in Fences : recordOf[g] # NoOne /\ recordOf[g].mark = "orphaned" => adoptedFence # 0
  BY DEF SpawnInv, Marks
<1>5. CASE recordOf[f] # NoOne /\ next \in {"published", "adopted", "orphaned"}
  <2> DEFINE mark == IF next = "orphaned" THEN "orphaned" ELSE "published"
  <2>1. /\ Remarked(f, next)[f] = [acp |-> recordOf[f].acp, mark |-> mark]
        /\ \A g \in Fences : g # f => Remarked(f, next)[g] = recordOf[g]
        /\ DOMAIN Remarked(f, next) = Fences
    BY <1>1, <1>5 DEF Remarked, WithMark
  <2>2. recordOf[f] \in Records /\ Remarked(f, next)[f] \in Records
    BY <1>1, <1>5, <2>1 DEF Records
  <2>3. Remarked(f, next) \in [Fences -> Records \cup {NoOne}]
    BY <1>5, <2>1, <2>2 DEF Remarked, WithMark, SpawnInv, SpawnTypeOK
  <2>4. Remarked(f, next)[f].acp = recordOf[f].acp /\ Remarked(f, next)[f].mark = mark
    BY <2>1
  <2>5. Remarked(f, next)[f] # NoOne
    BY <2>2, SpawnAssumption
  <2>6. recordOf[f].mark = "orphaned" => mark = "orphaned"
    BY <1>2, <1>4, <1>5
  <2>7. \A g \in Fences :
          /\ g # f => Remarked(f, next)[g] = recordOf[g]
          /\ recordOf[g] # NoOne =>
               /\ Remarked(f, next)[g] # NoOne
               /\ Remarked(f, next)[g].acp = recordOf[g].acp
               /\ recordOf[g].mark = "orphaned" => Remarked(f, next)[g].mark = "orphaned"
          /\ recordOf[g] = NoOne => Remarked(f, next)[g] = NoOne
    <3> SUFFICES ASSUME NEW g \in Fences
        PROVE  /\ g # f => Remarked(f, next)[g] = recordOf[g]
               /\ recordOf[g] # NoOne =>
                    /\ Remarked(f, next)[g] # NoOne
                    /\ Remarked(f, next)[g].acp = recordOf[g].acp
                    /\ recordOf[g].mark = "orphaned" => Remarked(f, next)[g].mark = "orphaned"
               /\ recordOf[g] = NoOne => Remarked(f, next)[g] = NoOne
      OBVIOUS
    <3>1. CASE g = f
      BY <1>5, <2>4, <2>5, <2>6, <3>1
    <3>2. CASE g # f
      BY <2>1, <3>2
    <3> QED
      BY <3>1, <3>2
  <2> HIDE DEF mark
  <2>8. next = "adopted" => mark = "published"
    BY DEF mark
  <2>9. mark = "orphaned" => adoptedFence # 0 /\ f # adoptedFence
    BY <1>2, <1>3 DEF mark
  <2>10. mark # "pending"
    BY DEF mark
  <2> QED
    BY <1>5, <2>3, <2>4, <2>7, <2>8, <2>9, <2>10
<1>6. CASE ~(recordOf[f] # NoOne /\ next \in {"published", "adopted", "orphaned"})
  <2>1. Remarked(f, next) = recordOf
    BY <1>6 DEF Remarked
  <2>2. recordOf \in [Fences -> Records \cup {NoOne}]
    BY DEF SpawnInv, SpawnTypeOK
  <2>3. next # "adopted"
    BY <1>2, <1>6
  <2> QED
    BY <1>3, <1>4, <2>1, <2>2, <2>3
<1> QED
  BY <1>5, <1>6

(* Every attempt stays where the fences put it.                            *)
LEMMA SupersededKept ==
  ASSUME SpawnInv, [SpawnNext]_spawnVars
  PROVE  Superseded' /\ AdoptedOnce'
<1> USE SpawnAssumption
<1>1. ASSUME NEW f \in Fences, ReserveSpawn(f)  PROVE Superseded' /\ AdoptedOnce'
  BY <1>1 DEF ReserveSpawn, RevokedBelow, SpawnInv, SpawnTypeOK, Superseded, AdoptedOnce, Fences, processVars
<1>2. ASSUME NEW f \in Fences, RecordSpawnChild(f)  PROVE Superseded' /\ AdoptedOnce'
  BY <1>2 DEF RecordSpawnChild, SpawnInv, SpawnTypeOK, Superseded, AdoptedOnce, Fences
<1>3. ASSUME NEW f \in Fences, NEW next \in SpawnStates, TransitionSpawn(f, next)
      PROVE  Superseded' /\ AdoptedOnce'
  <2>1. /\ attempt' = [attempt EXCEPT ![f] = next]
        /\ adoptedFence' = IF next = "adopted" THEN f ELSE adoptedFence
        /\ attempt \in [Fences -> SpawnStates]
    BY <1>3 DEF TransitionSpawn, SpawnInv, SpawnTypeOK
  <2>2. /\ attempt[f] \notin {"none", "adopted"}
        /\ next \in {"reserved", "launched", "published"}
             => attempt[f] \in {"reserved", "launched", "published"}
        /\ next = "adopted" => adoptedFence = 0
    BY <1>3 DEF TransitionSpawn, Allowed
  <2>3. Superseded'
    BY <2>1, <2>2 DEF SpawnInv, Superseded
  <2>4. AdoptedOnce'
    BY <2>1, <2>2 DEF SpawnInv, AdoptedOnce, Fences
  <2> QED
    BY <2>3, <2>4
<1>4. ASSUME UNCHANGED <<attempt, adoptedFence>>  PROVE Superseded' /\ AdoptedOnce'
  BY <1>4 DEF SpawnInv, Superseded, AdoptedOnce
<1> QED
  BY <1>1, <1>2, <1>3, <1>4
     DEF SpawnNext, StartChild, LoadRecord, ReceiptConflict, TornCommit, TakeLease, ProcessEnds,
         SaveRecord, NewAcpSession, ledgerVars, processVars, spawnVars

(* What one step may do to the records of disk: a save writes the saver's  *)
(* own record, a transition or a receipt changes a mark.                   *)
LEMMA RecordStep ==
  ASSUME SpawnInv, [SpawnNext]_spawnVars, NEW f \in Fences
  PROVE  /\ recordOf' \in [Fences -> Records \cup {NoOne}]
         /\ recordOf[f] # NoOne =>
              /\ recordOf'[f] # NoOne
              /\ recordOf[f].mark = "orphaned" => recordOf'[f].mark = "orphaned"
              /\ recordOf'[f].mark = "pending" => recordOf[f].mark = "pending"
              /\ recordOf'[f].acp # recordOf[f].acp =>
                    /\ adoptedFence = f /\ lease[f] # NoOne
                    /\ image[lease[f]] = [fence |-> f, acp |-> recordOf'[f].acp]
              /\ recordOf'[f].mark = "orphaned" /\ recordOf[f].mark # "orphaned" =>
                    adoptedFence # 0 /\ (f = adoptedFence => conflict' \/ torn' > 0)
         /\ recordOf[f] = NoOne /\ recordOf'[f] # NoOne => recordOf'[f].mark = "pending"
<1> DEFINE Goal == /\ recordOf' \in [Fences -> Records \cup {NoOne}]
                   /\ recordOf[f] # NoOne =>
                        /\ recordOf'[f] # NoOne
                        /\ recordOf[f].mark = "orphaned" => recordOf'[f].mark = "orphaned"
                        /\ recordOf'[f].mark = "pending" => recordOf[f].mark = "pending"
                        /\ recordOf'[f].acp # recordOf[f].acp =>
                              /\ adoptedFence = f /\ lease[f] # NoOne
                              /\ image[lease[f]] = [fence |-> f, acp |-> recordOf'[f].acp]
                        /\ recordOf'[f].mark = "orphaned" /\ recordOf[f].mark # "orphaned" =>
                              adoptedFence # 0 /\ (f = adoptedFence => conflict' \/ torn' > 0)
                   /\ recordOf[f] = NoOne /\ recordOf'[f] # NoOne => recordOf'[f].mark = "pending"
<1>1. /\ recordOf \in [Fences -> Records \cup {NoOne}]
      /\ recordOf[f] # NoOne => recordOf[f] \in Records
  BY DEF SpawnInv, SpawnTypeOK
<1>2. ASSUME NEW g \in Fences, NEW next \in SpawnStates, Allowed(g, next),
             recordOf' = Remarked(g, next)
      PROVE  Goal
  <2>1. /\ Remarked(g, next) \in [Fences -> Records \cup {NoOne}]
        /\ f # g => Remarked(g, next)[f] = recordOf[f]
        /\ recordOf[f] # NoOne =>
             /\ Remarked(g, next)[f] # NoOne
             /\ Remarked(g, next)[f].acp = recordOf[f].acp
             /\ recordOf[f].mark = "orphaned" => Remarked(g, next)[f].mark = "orphaned"
        /\ recordOf[f] = NoOne => Remarked(g, next)[f] = NoOne
        /\ recordOf[g] # NoOne /\ Remarked(g, next)[g].mark = "orphaned" =>
             adoptedFence # 0 /\ g # adoptedFence
        /\ recordOf[g] # NoOne /\ Remarked(g, next)[g].mark = "pending" => recordOf[g].mark = "pending"
    BY <1>2, RemarkedShape
  <2> QED
    BY <1>2, <2>1
<1>3. ASSUME adoptedFence # 0, recordOf' = WithMark(adoptedFence, "orphaned"),
             conflict' \/ torn' > 0
      PROVE  Goal
  <2>1. adoptedFence \in Fences /\ recordOf[adoptedFence] \in Records
    BY <1>3 DEF SpawnInv, SpawnTypeOK, Marks, Fences
  <2>2. /\ recordOf'[adoptedFence] = [acp |-> recordOf[adoptedFence].acp, mark |-> "orphaned"]
        /\ f # adoptedFence => recordOf'[f] = recordOf[f]
    BY <1>1, <1>3, <2>1 DEF WithMark
  <2>3. recordOf'[adoptedFence] \in Records
    BY <2>1, <2>2 DEF Records
  <2>4. recordOf' \in [Fences -> Records \cup {NoOne}]
    BY <1>1, <1>3, <2>1, <2>2, <2>3 DEF WithMark
  <2> QED
    BY <1>1, <1>3, <2>1, <2>2, <2>3, <2>4, SpawnAssumption
<1>4. ASSUME NEW p \in Programs, SaveRecord(p)  PROVE Goal
  <2> DEFINE g == image[p].fence
             saved == [acp |-> image[p].acp,
                       mark |-> IF recordOf[g] = NoOne THEN "pending" ELSE recordOf[g].mark]
  <2>1. image[p] \in Images /\ MayWrite(p, g) /\ recordOf' = [recordOf EXCEPT ![g] = saved]
    BY <1>4 DEF SaveRecord, SpawnInv, SpawnTypeOK
  <2>2. g \in Fences /\ image[p].acp \in AcpIds /\ image[p] = [fence |-> g, acp |-> image[p].acp]
    BY <2>1 DEF Images
  <2>3. recordOf[g] # NoOne => recordOf[g] \in Records
    BY <2>2 DEF SpawnInv, SpawnTypeOK
  <2>4. saved \in Records /\ saved # NoOne
    BY <2>2, <2>3, SpawnAssumption DEF Records
  <2>5. recordOf' \in [Fences -> Records \cup {NoOne}]
    BY <1>1, <2>1, <2>2, <2>4
  <2>6. recordOf'[g] = saved /\ (f # g => recordOf'[f] = recordOf[f])
    BY <1>1, <2>1, <2>2
  <2>7. saved.acp = image[p].acp
        /\ saved.mark = IF recordOf[g] = NoOne THEN "pending" ELSE recordOf[g].mark
    OBVIOUS
  <2>8. recordOf[g] # NoOne /\ recordOf[g].acp # image[p].acp =>
          adoptedFence = g /\ lease[g] = p /\ p # NoOne
    BY <2>1, SpawnAssumption DEF MayWrite, OwnerMayRebind
  <2> HIDE DEF saved
  <2>9. CASE f = g
    BY <2>2, <2>4, <2>5, <2>6, <2>7, <2>8, <2>9
  <2>10. CASE f # g
    BY <2>5, <2>6, <2>10
  <2> QED
    BY <2>9, <2>10
<1>5. ASSUME recordOf' = recordOf  PROVE Goal
  BY <1>1, <1>5
<1>6. ASSUME ReceiptConflict  PROVE Goal
  BY <1>3, <1>6 DEF ReceiptConflict
<1>7. ASSUME TornCommit  PROVE Goal
  <2>1. torn' > 0
    BY <1>7 DEF TornCommit, SpawnInv, SpawnTypeOK
  <2> QED
    BY <1>2, <1>3, <1>7, <2>1 DEF TornCommit
<1> QED
  BY <1>2, <1>4, <1>5, <1>6, <1>7
     DEF SpawnNext, ReserveSpawn, RecordSpawnChild, StartChild, LoadRecord, TransitionSpawn,
         TakeLease, ProcessEnds, NewAcpSession, ledgerVars, processVars, spawnVars

(* A record is orphaned only for a run that is adopted, and the run's own  *)
(* only by a receipt; the run's own was published.                         *)
LEMMA MarksKept ==
  ASSUME SpawnInv, [SpawnNext]_spawnVars
  PROVE  Marks'
<1>1. ASSUME NEW f \in Fences, TransitionSpawn(f, "adopted")  PROVE Marks'
  <2>1. /\ adoptedFence = 0 /\ Allowed(f, "adopted") /\ "adopted" \in SpawnStates
        /\ adoptedFence' = f /\ recordOf' = Remarked(f, "adopted")
    BY <1>1 DEF TransitionSpawn, Allowed, SpawnStates
  <2>2. /\ recordOf[f] # NoOne /\ Remarked(f, "adopted")[f].mark = "published"
        /\ Remarked(f, "adopted")[f] # NoOne
        /\ \A g \in Fences : g # f => Remarked(f, "adopted")[g] = recordOf[g]
    BY <2>1, RemarkedShape
  <2>3. \A g \in Fences : recordOf[g] # NoOne => recordOf[g].mark # "orphaned"
    BY <2>1 DEF SpawnInv, Marks
  <2>4. f # 0
    BY DEF Fences
  <2> QED
    BY <2>1, <2>2, <2>3, <2>4 DEF Marks
<1>2. ASSUME adoptedFence' = adoptedFence, conflict => conflict', torn' = torn \/ torn' = torn + 1
      PROVE  Marks'
  <2>1. torn > 0 => torn' > 0
    BY <1>2 DEF SpawnInv, SpawnTypeOK
  <2>2. ASSUME NEW f \in Fences, recordOf'[f] # NoOne, recordOf'[f].mark = "orphaned"
        PROVE  adoptedFence # 0 /\ (f = adoptedFence => conflict' \/ torn' > 0)
    BY <1>2, <2>1, <2>2, RecordStep DEF SpawnInv, Marks
  <2>3. ASSUME adoptedFence # 0
        PROVE  recordOf'[adoptedFence] # NoOne /\ recordOf'[adoptedFence].mark # "pending"
    <3>1. adoptedFence \in Fences
      BY <2>3 DEF SpawnInv, SpawnTypeOK, Fences
    <3> QED
      BY <2>3, <3>1, RecordStep DEF SpawnInv, Marks
  <2> QED
    BY <1>2, <2>2, <2>3 DEF Marks
<1>3. \/ \E f \in Fences : TransitionSpawn(f, "adopted")
      \/ /\ adoptedFence' = adoptedFence /\ (conflict => conflict')
         /\ torn' = torn \/ torn' = torn + 1
  BY DEF SpawnNext, ReserveSpawn, RecordSpawnChild, StartChild, LoadRecord, TransitionSpawn,
         ReceiptConflict, TornCommit, TakeLease, ProcessEnds, SaveRecord, NewAcpSession,
         ledgerVars, processVars, spawnVars
<1> QED
  BY <1>1, <1>2, <1>3

(* Every step keeps the state well typed.                                  *)
LEMMA TypeKept ==
  ASSUME SpawnInv, [SpawnNext]_spawnVars
  PROVE  SpawnTypeOK'
<1> USE SpawnAssumption
<1>1. recordOf' \in [Fences -> Records \cup {NoOne}]
  <2>1. 1 \in Fences
    BY DEF Fences
  <2> QED
    BY <2>1, RecordStep
<1>2. ASSUME NEW f \in Fences, ReserveSpawn(f)  PROVE SpawnTypeOK'
  BY <1>1, <1>2 DEF ReserveSpawn, RevokedBelow, SpawnInv, SpawnTypeOK, SpawnStates, processVars
<1>3. ASSUME NEW f \in Fences, RecordSpawnChild(f)  PROVE SpawnTypeOK'
  BY <1>1, <1>3 DEF RecordSpawnChild, SpawnInv, SpawnTypeOK, SpawnStates, processVars
<1>4. ASSUME NEW f \in Fences, StartChild(f)  PROVE SpawnTypeOK'
  <2>1. [fence |-> f, acp |-> FirstAcp] \in Images /\ ChildOf[f] \in Programs
    BY DEF Images
  <2> QED
    BY <1>1, <1>4, <2>1 DEF StartChild, SpawnInv, SpawnTypeOK, ledgerVars
<1>5. ASSUME NEW f \in Fences, NEW p \in Programs, LoadRecord(p, f)  PROVE SpawnTypeOK'
  <2>1. recordOf[f].acp \in AcpIds
    BY <1>5 DEF LoadRecord, SpawnInv, SpawnTypeOK, Records
  <2>2. [fence |-> f, acp |-> recordOf[f].acp] \in Images
    BY <2>1 DEF Images
  <2> QED
    BY <1>1, <1>5, <2>2 DEF LoadRecord, SpawnInv, SpawnTypeOK, ledgerVars
<1>6. ASSUME NEW f \in Fences, NEW next \in SpawnStates, TransitionSpawn(f, next)
      PROVE  SpawnTypeOK'
  BY <1>1, <1>6 DEF TransitionSpawn, SpawnInv, SpawnTypeOK, Fences, processVars
<1>7. ASSUME ReceiptConflict  PROVE SpawnTypeOK'
  BY <1>1, <1>7 DEF ReceiptConflict, SpawnInv, SpawnTypeOK, processVars
<1>8. ASSUME TornCommit  PROVE SpawnTypeOK'
  BY <1>1, <1>8 DEF TornCommit, SpawnInv, SpawnTypeOK, ledgerVars, processVars
<1>9. ASSUME NEW p \in Programs, TakeLease(p) \/ ProcessEnds(p) \/ SaveRecord(p)
      PROVE  SpawnTypeOK'
  BY <1>1, <1>9 DEF TakeLease, ProcessEnds, SaveRecord, SpawnInv, SpawnTypeOK, ledgerVars, processVars
<1>10. ASSUME NEW p \in Programs, NEW a \in AcpIds, NewAcpSession(p, a)  PROVE SpawnTypeOK'
  <2>1. image[p] \in Images
    BY <1>10 DEF NewAcpSession, SpawnInv, SpawnTypeOK
  <2>2. [image[p] EXCEPT !.acp = a] \in Images
    BY <2>1 DEF Images
  <2>3. image' = [image EXCEPT ![p] = [image[p] EXCEPT !.acp = a]]
    BY <1>10 DEF NewAcpSession
  <2> QED
    BY <1>1, <1>10, <2>2, <2>3 DEF NewAcpSession, SpawnInv, SpawnTypeOK, ledgerVars
<1>11. CASE UNCHANGED spawnVars
  BY <1>1, <1>11 DEF SpawnInv, SpawnTypeOK, spawnVars, ledgerVars, processVars
<1> QED
  BY <1>2, <1>3, <1>4, <1>5, <1>6, <1>7, <1>8, <1>9, <1>10, <1>11 DEF SpawnNext

(* An automatic spawn comes to one session whose record is written for its *)
(* attempt alone, for any number of attempts, programs and crashes.        *)
THEOREM Fenced == SpawnSpec => SpawnsFenced
<1>1. SpawnInit => SpawnInv
  <2> SUFFICES ASSUME SpawnInit PROVE SpawnInv
    OBVIOUS
  <2>1. SpawnTypeOK
    <3>1. /\ attempt \in [Fences -> SpawnStates]
          /\ lease \in [Fences -> Programs \cup {NoOne}]
          /\ recordOf \in [Fences -> Records \cup {NoOne}]
      BY DEF SpawnInit, SpawnStates
    <3>2. image \in [Programs -> Images \cup {NoOne}]
      BY DEF SpawnInit
    <3>3. adoptedFence \in 0..MaxFence /\ torn \in 0..MaxTorn
      BY SpawnAssumption DEF SpawnInit
    <3> QED
      BY <3>1, <3>2, <3>3 DEF SpawnInit, SpawnTypeOK
  <2>2. Superseded /\ AdoptedOnce
    BY DEF SpawnInit, Superseded, AdoptedOnce, Fences
  <2>3. Marks
    BY DEF SpawnInit, Marks
  <2> QED
    BY <2>1, <2>2, <2>3 DEF SpawnInv
<1>2. SpawnInv /\ [SpawnNext]_spawnVars => SpawnInv'
  BY TypeKept, SupersededKept, MarksKept DEF SpawnInv
<1>3. SpawnInv => OneSpawnWrites
  <2> SUFFICES ASSUME SpawnInv, NEW f \in Fences, NEW g \in Fences, f < g, Writable(f), Writable(g)
      PROVE  adoptedFence = f
    BY DEF OneSpawnWrites
  <2>1. attempt[f] \notin {"reserved", "launched", "published"}
    BY DEF SpawnInv, Superseded, Writable
  <2> QED
    BY <2>1 DEF SpawnInv, AdoptedOnce, Writable
<1>4. SpawnInv => RunKept
  BY DEF SpawnInv, SpawnTypeOK, AdoptedOnce, Marks, RunKept, Fences
<1>5. SpawnInv /\ [SpawnNext]_spawnVars =>
        [\A f \in Fences : recordOf[f] # NoOne =>
          /\ recordOf'[f] # NoOne
          /\ recordOf[f].mark = "orphaned" => recordOf'[f].mark = "orphaned"
          /\ recordOf'[f].acp # recordOf[f].acp =>
                /\ adoptedFence = f /\ lease[f] # NoOne
                /\ image[lease[f]] = [fence |-> f, acp |-> recordOf'[f].acp]]_spawnVars
  BY RecordStep
<1>6. SpawnInv' => (OneSpawnWrites' /\ RunKept')
  BY <1>3, <1>4, PTL
<1> QED
  BY <1>1, <1>2, <1>5, <1>6, PTL DEF SpawnSpec, SpawnsFenced, RecordFenced

-----------------------------------------------------------------------------
(* The run of a flow (FlowRun), for any number of nodes, heartbeats, failing   *)
(* writes and signals: it is accounted for.  What the files say of the end, who *)
(* may prompt and what keeps the command alive hang together through where the  *)
(* loop is, so the invariant says, for each place of the loop, what is being    *)
(* saved, which function may be under way, and whose client is open.            *)


Statuses == {"running", "waiting", "completed", "failed"}
RunImages == [status : Statuses, current : 0 .. MaxAttempts]
RunStates == [status : Statuses, finished : BOOLEAN, current : 0 .. MaxAttempts]
Loops ==
  [at : {"next", "starting", "node", "recording", "completing", "failing", "done", "threw"},
   attempt : 0 .. MaxAttempts, outcome : {"ok", "failed", "waiting"}, overran : BOOLEAN]
Functions ==
  [at : {"none", "work", "prepare", "creating", "bound", "prompting", "done", "failed"},
   late : BOOLEAN, session : 0 .. MaxAttempts, client : 0 .. MaxAttempts]
Saves == [file : {"none", "run", "live"}, image : RunImages]

\* The state is well formed, the places of the loop and of the saves included.
Shape ==
  /\ runState \in RunStates
  /\ flow \in Loops
  /\ body \in [Attempts -> Functions]
  /\ saving \in [BundleWriters -> Saves]
  /\ bundle \in [{"run", "live"} -> RunImages]
  /\ binding \in 0 .. MaxAttempts /\ unused \in 0 .. MaxAttempts /\ clients \subseteq Attempts
  /\ runSettled \in {"no", "flow", "signal"} /\ signalled \in BOOLEAN /\ over \in BOOLEAN
  /\ left \in [beats : Nat, mishaps : 0 .. MaxMishaps]

Punctual == \A a \in Attempts : ~body[a].late

\* Without a late attempt, only the function of the node the loop waits for is under way.
OneFunction ==
  Punctual => \A a \in Attempts : ~Ended(a) => flow.at = "node" /\ a = flow.attempt

\* Without a late attempt, an open client belongs to the session the handle names, and is either
\* unused or held by the one prompt.
ClientsHeld ==
  Punctual =>
    /\ \A a \in Attempts :
         /\ body[a].client # 0 => /\ body[a].at = "prompting"
                                  /\ body[a].client = body[a].session
                                  /\ body[a].client \in clients
         /\ body[a].at = "prompting" => unused = 0
         /\ body[a].at = "bound" => body[a].session = binding
         /\ body[a].at = "creating" => binding = 0
    /\ unused # 0 => unused = binding /\ unused \in clients
    /\ \A c \in clients : c = unused \/ \E a \in Attempts : body[a].client = c

\* How the loop saves, and how the run comes to be settled and over.
Ending ==
  /\ ~Saved("loop") => flow.at \in {"starting", "recording", "completing", "failing"}
  /\ saving["timer"].file # "run"
  /\ runSettled = "flow" => flow.at \in {"done", "threw"} /\ (Punctual => unused = 0)
  /\ runSettled = "signal" => signalled
  /\ ~Saved("handler") => signalled
  /\ signalled => ~Undisturbed
  /\ over => runSettled # "no" \/ ~Undisturbed

\* The loop's own save, as long as nothing has disturbed the run: run.json is ahead of live.json.
LoopWrites ==
  Undisturbed =>
    /\ saving["loop"].file \in {"none", "live"} => bundle["run"] = Image(runState)
    /\ ~Saved("loop") => saving["loop"].image = Image(runState)

\* Then live.json follows as well, unless a heartbeat was still being saved when a node ended.
LiveWrites ==
  (Undisturbed /\ Punctual /\ ~flow.overran) =>
    /\ ~Saved("timer") => flow.at = "node" /\ saving["timer"].image = Image(runState)
    /\ Saved("loop") => bundle["live"] = Image(runState)

\* And the status says how the loop ended.
Told ==
  Undisturbed =>
    /\ flow.at = "recording" /\ flow.outcome = "waiting" => runState.status = "waiting"
    /\ flow.at = "completing" => runState.status = "completed"
    /\ flow.at = "done" => runState.status \in {"waiting", "completed"}
    /\ flow.at \in {"failing", "threw"} => runState.status = "failed"

FlowRunInv ==
  Shape /\ OneFunction /\ ClientsHeld /\ Ending /\ LoopWrites /\ LiveWrites /\ Told

------------------------------------------------------------------------------
(* What the helpers of the actions do.                                         *)

(* A run's state gives an image, and a save begun keeps to its writer.         *)
LEMMA SaveBegins ==
  ASSUME saving \in [BundleWriters -> Saves], runState' \in RunStates,
         NEW w \in BundleWriters, NEW first \in {"run", "live"}, BeginSave(w, first)
  PROVE  /\ saving' \in [BundleWriters -> Saves]
         /\ saving'[w].file = first /\ saving'[w].image = Image(runState')
         /\ \A v \in BundleWriters : v # w => saving'[v] = saving[v]
<1>1. [file |-> first, image |-> Image(runState')] \in Saves
  BY DEF Saves, RunImages, RunStates, Image
<1> QED
  BY <1>1 DEF BeginSave

(* Idle is what a writer that saves nothing has.                               *)
LEMMA SaveIdles ==
  ASSUME saving \in [BundleWriters -> Saves], NEW w \in BundleWriters,
         saving' = [saving EXCEPT ![w] = Idle]
  PROVE  /\ saving' \in [BundleWriters -> Saves]
         /\ saving'[w].file = "none"
         /\ \A v \in BundleWriters : v # w => saving'[v] = saving[v]
<1>1. Idle \in Saves /\ Idle.file = "none"
  BY FlowRunAssumption DEF Saves, RunImages, Statuses, Idle
<1> QED
  BY <1>1

(* After a failure is recorded the run says so, and the failure is being saved *)
(* or had been recorded before.                                                *)
LEMMA Fails ==
  ASSUME saving \in [BundleWriters -> Saves], runState \in RunStates,
         NEW w \in BundleWriters, Failing(w)
  PROVE  /\ saving' \in [BundleWriters -> Saves] /\ runState' \in RunStates
         /\ runState'.status = "failed"
         /\ \A v \in BundleWriters : v # w => saving'[v] = saving[v]
         /\ \/ runState' = runState /\ saving'[w].file = "none"
            \/ saving'[w].file = "run" /\ saving'[w].image = Image(runState')
<1>1. runState' \in RunStates /\ runState'.status = "failed"
  BY DEF Failing, AlreadyFailed, RunStates, Statuses
<1>2. CASE AlreadyFailed
  BY <1>1, <1>2, SaveIdles DEF Failing
<1>3. CASE ~AlreadyFailed
  BY <1>1, <1>3, SaveBegins DEF Failing
<1> QED
  BY <1>2, <1>3

(* An outcome is recorded by the loop, which remembers a heartbeat in its way. *)
LEMMA RunRecords ==
  ASSUME saving \in [BundleWriters -> Saves], runState \in RunStates, flow \in Loops,
         NEW outcome \in {"ok", "failed", "waiting"}, RecordOutcome(outcome)
  PROVE  /\ saving' \in [BundleWriters -> Saves] /\ runState' \in RunStates /\ flow' \in Loops
         /\ outcome = "waiting" => runState'.status = "waiting"
         /\ flow'.at = "recording" /\ flow'.outcome = outcome /\ flow'.attempt = flow.attempt
         /\ flow'.overran <=> (flow.overran \/ ~Saved("timer"))
         /\ \A v \in BundleWriters : v # "loop" => saving'[v] = saving[v]
         /\ saving'["loop"].file = "run" /\ saving'["loop"].image = Image(runState')
<1>1. runState' \in RunStates /\ (outcome = "waiting" => runState'.status = "waiting")
  <2> DEFINE status == IF outcome = "waiting" THEN outcome ELSE runState.status
  <2>1. status \in Statuses /\ 0 \in 0 .. MaxAttempts
    BY FlowRunAssumption DEF RunStates, Statuses
  <2>2. runState' = [runState EXCEPT !.status = status, !.current = 0]
    BY DEF RecordOutcome
  <2>3. outcome = "waiting" => status = "waiting"
    OBVIOUS
  <2> QED
    BY <2>1, <2>2, <2>3 DEF RunStates
<1>2. /\ flow' \in Loops
      /\ flow'.at = "recording" /\ flow'.outcome = outcome /\ flow'.attempt = flow.attempt
      /\ flow'.overran <=> (flow.overran \/ ~Saved("timer"))
  BY DEF RecordOutcome, Loops, Saved
<1> QED
  BY <1>1, <1>2, SaveBegins DEF RecordOutcome, BundleWriters

------------------------------------------------------------------------------
(* Every step keeps the invariant, one lemma per action. *)

\* The loop starts a node: its number is saved before it.
LEMMA StartNodeKeeps ==
  ASSUME FlowRunInv, StartNode, ~over
  PROVE  FlowRunInv'
<1> USE FlowRunAssumption DEF FlowRunInv, BundleWriters, Saved, Ended, Punctual, Undisturbed
<1>1. /\ flow.at = "next" /\ flow'.at = "starting" /\ flow'.overran = flow.overran
      /\ flow' \in Loops /\ runState' \in RunStates
      /\ UNCHANGED <<body, bundle, binding, unused, clients, signalled, runSettled, left, over>>
  <2> DEFINE a == flow.attempt + 1
  <2>1. a \in 0 .. MaxAttempts
    BY DEF StartNode, Shape, Loops, Attempts
  <2>2. /\ flow.at = "next" /\ flow' = [flow EXCEPT !.at = "starting", !.attempt = a]
        /\ runState' = [runState EXCEPT !.status = "running", !.current = a]
    BY DEF StartNode
  <2> HIDE DEF a
  <2>3. flow' \in Loops /\ flow'.at = "starting" /\ flow'.overran = flow.overran
    BY <2>1, <2>2 DEF Shape, Loops
  <2>4. runState' \in RunStates
    BY <2>1, <2>2 DEF Shape, RunStates, Statuses
  <2> QED
    BY <2>2, <2>3, <2>4 DEF StartNode, Quiet
<1>2. /\ saving' \in [BundleWriters -> Saves]
      /\ saving'["loop"].file = "run" /\ saving'["loop"].image = Image(runState')
      /\ \A v \in BundleWriters : v # "loop" => saving'[v] = saving[v]
  BY <1>1, SaveBegins DEF StartNode, Shape, BundleWriters
<1>Shape. Shape'
  BY <1>1, <1>2 DEF Shape
<1>OneFunction. OneFunction'
  BY <1>1 DEF OneFunction
<1>ClientsHeld. ClientsHeld'
  BY <1>1 DEF ClientsHeld
<1>Ending. Ending'
  BY <1>1, <1>2 DEF Ending
<1>LoopWrites. LoopWrites'
  BY <1>2 DEF LoopWrites
<1>LiveWrites. LiveWrites'
  BY <1>1, <1>2 DEF LiveWrites
<1>Told. Told'
  BY <1>1 DEF Told
<1> QED
  BY <1>Shape, <1>OneFunction, <1>ClientsHeld, <1>Ending, <1>LoopWrites, <1>LiveWrites, <1>Told

\* The function of a node begins only after that save.
LEMMA EnterNodeKeeps ==
  ASSUME FlowRunInv, EnterNode, ~over
  PROVE  FlowRunInv'
<1> USE FlowRunAssumption DEF FlowRunInv
<1>1. PICK first \in {"work", "prepare"} : body' = [body EXCEPT ![flow.attempt].at = first]
  BY DEF EnterNode
<1>2. /\ flow.at = "starting" /\ Saved("loop") /\ flow' \in Loops
      /\ flow' = [flow EXCEPT !.at = "node"]
      /\ UNCHANGED <<runState, saving, bundle, binding, unused, clients, signalled,
                   runSettled, left, over>>
  BY DEF EnterNode, Quiet, Shape, Loops
<1>3. /\ body' \in [Attempts -> Functions]
      /\ \A a \in Attempts : a # flow.attempt => body'[a] = body[a]
      /\ flow.attempt \in Attempts =>
           /\ body'[flow.attempt].at \in {"work", "prepare"}
           /\ body'[flow.attempt].late = body[flow.attempt].late
           /\ body'[flow.attempt].client = body[flow.attempt].client
           /\ body'[flow.attempt].session = body[flow.attempt].session
  <2>1. \A f \in Functions : [f EXCEPT !.at = first] \in Functions
    BY DEF Functions
  <2>2. body \in [Attempts -> Functions] /\ first \in {"work", "prepare"}
    BY DEF Shape
  <2>3. body' \in [Attempts -> Functions]
    BY <1>1, <2>1, <2>2
  <2>4. \A a \in Attempts : a # flow.attempt => body'[a] = body[a]
    BY <1>1, <2>2
  <2>5. ASSUME flow.attempt \in Attempts
        PROVE  body'[flow.attempt] = [body[flow.attempt] EXCEPT !.at = first]
    BY <1>1, <2>2, <2>5
  <2>6. \A f \in Functions : /\ [f EXCEPT !.at = first].at = first
                             /\ [f EXCEPT !.at = first].late = f.late
                             /\ [f EXCEPT !.at = first].client = f.client
                             /\ [f EXCEPT !.at = first].session = f.session
    BY DEF Functions
  <2>7. ASSUME flow.attempt \in Attempts
        PROVE  /\ body'[flow.attempt].at = first
               /\ body'[flow.attempt].late = body[flow.attempt].late
               /\ body'[flow.attempt].client = body[flow.attempt].client
               /\ body'[flow.attempt].session = body[flow.attempt].session
    <3>1. body[flow.attempt] \in Functions
      BY <2>2, <2>7
    <3> QED
      BY <2>5, <2>6, <2>7, <3>1
  <2> QED
    BY <2>2, <2>3, <2>4, <2>7
<1>4. \A a \in Attempts : body'[a].late = body[a].late /\ body'[a].client = body[a].client
  BY <1>3
<1> USE DEF BundleWriters, Saved, Ended, Punctual, Undisturbed
<1>Shape. Shape'
  BY <1>2, <1>3 DEF Shape
<1>OneFunction. OneFunction'
  BY <1>2, <1>3 DEF OneFunction
<1>ClientsHeld. ClientsHeld'
  BY <1>2, <1>3 DEF ClientsHeld, OneFunction
<1>Ending. Ending'
  BY <1>2 DEF Ending
<1>LoopWrites. LoopWrites'
  BY <1>2 DEF LoopWrites
<1>LiveWrites. LiveWrites'
  BY <1>2, <1>3 DEF LiveWrites
<1>Told. Told'
  BY <1>2 DEF Told
<1> QED
  BY <1>Shape, <1>OneFunction, <1>ClientsHeld, <1>Ending, <1>LoopWrites, <1>LiveWrites, <1>Told

\* A node that ends by itself leaves no function under way.
LEMMA NodeEndsKeeps ==
  ASSUME FlowRunInv, NodeEnds, ~over
  PROVE  FlowRunInv'
<1> USE FlowRunAssumption DEF FlowRunInv, BundleWriters, Saved, Ended, Punctual, Undisturbed
<1>1. PICK outcome \in {"ok", "failed", "waiting"} : RecordOutcome(outcome)
  BY DEF NodeEnds
<1>2. /\ flow.at = "node" /\ Ended(flow.attempt)
      /\ UNCHANGED <<body, bundle, binding, unused, clients, signalled,
                   runSettled, left, over>>
  BY DEF NodeEnds, Quiet
<1>3. /\ saving' \in [BundleWriters -> Saves] /\ runState' \in RunStates /\ flow' \in Loops
      /\ outcome = "waiting" => runState'.status = "waiting"
      /\ flow'.at = "recording" /\ flow'.outcome = outcome
      /\ flow'.overran <=> (flow.overran \/ ~Saved("timer"))
      /\ \A v \in BundleWriters : v # "loop" => saving'[v] = saving[v]
      /\ saving'["loop"].file = "run" /\ saving'["loop"].image = Image(runState')
  BY <1>1, RunRecords DEF Shape
<1>Shape. Shape'
  BY <1>2, <1>3 DEF Shape
<1>OneFunction. OneFunction'
  BY <1>2 DEF OneFunction
<1>ClientsHeld. ClientsHeld'
  BY <1>2 DEF ClientsHeld
<1>Ending. Ending'
  BY <1>2, <1>3 DEF Ending
<1>LoopWrites. LoopWrites'
  BY <1>3 DEF LoopWrites
<1>LiveWrites. LiveWrites'
  BY <1>3 DEF LiveWrites
<1>Told. Told'
  BY <1>3 DEF Told
<1> QED
  BY <1>Shape, <1>OneFunction, <1>ClientsHeld, <1>Ending, <1>LoopWrites, <1>LiveWrites, <1>Told

\* A node that times out makes its attempt a late one.
LEMMA NodeTimesOutKeeps ==
  ASSUME FlowRunInv, NodeTimesOut, ~over
  PROVE  FlowRunInv'
<1> USE FlowRunAssumption DEF FlowRunInv, BundleWriters, Saved, Ended, Punctual, Undisturbed
<1>1. /\ RecordOutcome("failed")
      /\ flow.at = "node" /\ ~Ended(flow.attempt)
      /\ body' = [body EXCEPT ![flow.attempt].late = TRUE]
      /\ UNCHANGED <<bundle, binding, unused, clients, signalled,
                   runSettled, left, over>>
  BY DEF NodeTimesOut, Quiet
<1>2. /\ saving' \in [BundleWriters -> Saves] /\ runState' \in RunStates /\ flow' \in Loops
      /\ flow'.at = "recording" /\ flow'.outcome = "failed"
      /\ flow'.overran <=> (flow.overran \/ ~Saved("timer"))
      /\ \A v \in BundleWriters : v # "loop" => saving'[v] = saving[v]
      /\ saving'["loop"].file = "run" /\ saving'["loop"].image = Image(runState')
  BY <1>1, RunRecords DEF Shape
<1>3. body' \in [Attempts -> Functions]
  <2>1. \A f \in Functions : [f EXCEPT !.late = TRUE] \in Functions
    BY DEF Functions
  <2>2. body \in [Attempts -> Functions]
    BY DEF Shape
  <2> QED
    BY <1>1, <2>1, <2>2
<1>4. flow.attempt \in Attempts /\ ~Punctual'
  BY <1>1, <1>3 DEF Shape, Functions
<1>Shape. Shape'
  BY <1>1, <1>2, <1>3 DEF Shape
<1>OneFunction. OneFunction'
  BY <1>1, <1>3 DEF OneFunction
<1>ClientsHeld. ClientsHeld'
  BY <1>1 DEF ClientsHeld
<1>Ending. Ending'
  BY <1>1, <1>2 DEF Ending
<1>LoopWrites. LoopWrites'
  BY <1>2 DEF LoopWrites
<1>LiveWrites. LiveWrites'
  BY <1>2 DEF LiveWrites
<1>Told. Told'
  BY <1>2 DEF Told
<1> QED
  BY <1>Shape, <1>OneFunction, <1>ClientsHeld, <1>Ending, <1>LoopWrites, <1>LiveWrites, <1>Told

\* The loop goes on, ends, or records a failure.
LEMMA RouteKeeps ==
  ASSUME FlowRunInv, Route, ~over
  PROVE  FlowRunInv'
<1> USE FlowRunAssumption DEF FlowRunInv, BundleWriters, Saved, Ended, Punctual, Undisturbed
<1>1. /\ flow.at = "recording" /\ saving["loop"].file = "none"
      /\ UNCHANGED <<body, bundle, binding, unused, clients, signalled,
                   runSettled, left, over>>
  BY DEF Route, Quiet
<1>2. /\ flow' \in Loops /\ flow'.overran = flow.overran /\ runState' \in RunStates
      /\ saving' \in [BundleWriters -> Saves]
      /\ \A v \in BundleWriters : v # "loop" => saving'[v] = saving[v]
      /\ \/ /\ flow.outcome = "waiting" /\ flow'.at = "done"
            /\ runState' = runState /\ saving'["loop"] = saving["loop"]
         \/ flow'.at = "next" /\ runState' = runState /\ saving'["loop"] = saving["loop"]
         \/ /\ flow'.at = "completing" /\ runState'.status = "completed"
            /\ saving'["loop"].file = "run" /\ saving'["loop"].image = Image(runState')
         \/ /\ flow'.at = "failing" /\ runState'.status = "failed"
            /\ \/ runState' = runState /\ saving'["loop"].file = "none"
               \/ saving'["loop"].file = "run" /\ saving'["loop"].image = Image(runState')
  <2>1. CASE /\ flow.outcome = "waiting" /\ flow' = [flow EXCEPT !.at = "done"]
             /\ UNCHANGED <<runState, saving>>
    BY <2>1 DEF Shape, Loops
  <2>2. CASE flow' = [flow EXCEPT !.at = "next", !.outcome = "ok"] /\ UNCHANGED <<runState, saving>>
    BY <2>2 DEF Shape, Loops
  <2>3. CASE /\ runState' = [status |-> "completed", finished |-> TRUE, current |-> 0]
             /\ flow' = [flow EXCEPT !.at = "completing"]
             /\ BeginSave("loop", "run")
    <3>1. runState' \in RunStates
      BY <2>3 DEF RunStates, Statuses
    <3> QED
      BY <2>3, <3>1, SaveBegins DEF Shape, Loops, BundleWriters
  <2>4. CASE Failing("loop") /\ flow' = [flow EXCEPT !.at = "failing"]
    <3>1. flow' \in Loops /\ flow'.at = "failing" /\ flow'.overran = flow.overran
      BY <2>4 DEF Shape, Loops
    <3> QED
      BY <2>4, <3>1, Fails DEF Shape, BundleWriters
  <2> QED
    BY <2>1, <2>2, <2>3, <2>4 DEF Route
<1>Shape. Shape'
  BY <1>1, <1>2 DEF Shape
<1>OneFunction. OneFunction'
  BY <1>1 DEF OneFunction
<1>ClientsHeld. ClientsHeld'
  BY <1>1 DEF ClientsHeld
<1>Ending. Ending'
  BY <1>1, <1>2 DEF Ending
<1>LoopWrites. LoopWrites'
  BY <1>1, <1>2 DEF LoopWrites
<1>LiveWrites. LiveWrites'
  BY <1>1, <1>2 DEF LiveWrites
<1>Told. Told'
  BY <1>1, <1>2 DEF Told
<1> QED
  BY <1>Shape, <1>OneFunction, <1>ClientsHeld, <1>Ending, <1>LoopWrites, <1>LiveWrites, <1>Told

\* The loop ends once its last save has.
LEMMA LoopEndsKeeps ==
  ASSUME FlowRunInv, LoopEnds, ~over
  PROVE  FlowRunInv'
<1> USE FlowRunAssumption DEF FlowRunInv, BundleWriters, Saved, Ended, Punctual, Undisturbed
<1>1. /\ flow.at \in {"completing", "failing"} /\ Saved("loop")
      /\ flow' \in Loops /\ flow'.overran = flow.overran
      /\ flow'.at = (IF flow.at = "completing" THEN "done" ELSE "threw")
      /\ UNCHANGED <<runState, saving, body, bundle, binding, unused, clients, signalled,
                   runSettled, left, over>>
  BY DEF LoopEnds, Quiet, Shape, Loops
<1>Shape. Shape'
  BY <1>1 DEF Shape
<1>OneFunction. OneFunction'
  BY <1>1 DEF OneFunction
<1>ClientsHeld. ClientsHeld'
  BY <1>1 DEF ClientsHeld
<1>Ending. Ending'
  BY <1>1 DEF Ending
<1>LoopWrites. LoopWrites'
  BY <1>1 DEF LoopWrites
<1>LiveWrites. LiveWrites'
  BY <1>1 DEF LiveWrites
<1>Told. Told'
  BY <1>1 DEF Told
<1> QED
  BY <1>Shape, <1>OneFunction, <1>ClientsHeld, <1>Ending, <1>LoopWrites, <1>LiveWrites, <1>Told

\* A heartbeat of a run without late attempts beats for the node.
LEMMA HeartbeatKeeps ==
  ASSUME FlowRunInv, Heartbeat, ~over
  PROVE  FlowRunInv'
<1> USE FlowRunAssumption DEF FlowRunInv, BundleWriters, Saved, Ended, Punctual, Undisturbed
<1>1. /\ \/ flow.at = "node" /\ ~Ended(flow.attempt)
         \/ \E a \in Attempts : body[a].at = "prepare"
      /\ UNCHANGED <<runState, flow, body, bundle, binding, unused, clients, signalled,
                     runSettled, over>>
      /\ left' \in [beats : Nat, mishaps : 0 .. MaxMishaps] /\ left'.mishaps = left.mishaps
  BY DEF Heartbeat, Shape
<1>2. /\ saving' \in [BundleWriters -> Saves]
      /\ saving'["timer"].file = "live" /\ saving'["timer"].image = Image(runState')
      /\ \A v \in BundleWriters : v # "timer" => saving'[v] = saving[v]
  BY <1>1, SaveBegins DEF Heartbeat, Shape, BundleWriters
<1>3. Punctual => flow.at = "node"
  BY <1>1 DEF OneFunction
<1>Shape. Shape'
  BY <1>1, <1>2 DEF Shape
<1>OneFunction. OneFunction'
  BY <1>1 DEF OneFunction
<1>ClientsHeld. ClientsHeld'
  BY <1>1 DEF ClientsHeld
<1>Ending. Ending'
  BY <1>1, <1>2 DEF Ending
<1>LoopWrites. LoopWrites'
  BY <1>1, <1>2 DEF LoopWrites
<1>LiveWrites. LiveWrites'
  BY <1>1, <1>2, <1>3 DEF LiveWrites
<1>Told. Told'
  BY <1>1 DEF Told
<1> QED
  BY <1>Shape, <1>OneFunction, <1>ClientsHeld, <1>Ending, <1>LoopWrites, <1>LiveWrites, <1>Told

\* A signal disturbs the run.
LEMMA InterruptKeeps ==
  ASSUME FlowRunInv, Interrupt, ~over
  PROVE  FlowRunInv'
<1> USE FlowRunAssumption DEF FlowRunInv, BundleWriters, Saved, Ended, Punctual, Undisturbed
<1>1. /\ signalled' /\ left' \in [beats : Nat, mishaps : 0 .. MaxMishaps] /\ left'.mishaps < MaxMishaps
      /\ UNCHANGED <<flow, body, bundle, binding, unused, clients, runSettled, over>>
  BY DEF Interrupt, Shape
<1>2. /\ saving' \in [BundleWriters -> Saves] /\ runState' \in RunStates
      /\ \A v \in BundleWriters : v # "handler" => saving'[v] = saving[v]
  BY Fails DEF Interrupt, Shape, BundleWriters
<1>Shape. Shape'
  BY <1>1, <1>2 DEF Shape
<1>OneFunction. OneFunction'
  BY <1>1 DEF OneFunction
<1>ClientsHeld. ClientsHeld'
  BY <1>1 DEF ClientsHeld
<1>Ending. Ending'
  BY <1>1, <1>2 DEF Ending
<1>LoopWrites. LoopWrites'
  BY <1>1 DEF LoopWrites
<1>LiveWrites. LiveWrites'
  BY <1>1 DEF LiveWrites
<1>Told. Told'
  BY <1>1 DEF Told
<1> QED
  BY <1>Shape, <1>OneFunction, <1>ClientsHeld, <1>Ending, <1>LoopWrites, <1>LiveWrites, <1>Told

\* The run is settled, and the client nobody used closed.
LEMMA SettleKeeps ==
  ASSUME FlowRunInv, Settle, ~over
  PROVE  FlowRunInv'
<1> USE FlowRunAssumption DEF FlowRunInv, BundleWriters, Saved, Ended, Punctual, Undisturbed
<1>1. /\ clients' = clients \ {unused} /\ unused' = 0
      /\ runSettled = "no" /\ runSettled' \in {"flow", "signal"} /\ over' \in BOOLEAN
      /\ runSettled' = "flow" => flow.at \in {"done", "threw"}
      /\ runSettled' = "signal" => signalled
      /\ UNCHANGED <<runState, flow, body, saving, bundle, binding, signalled, left>>
  BY DEF Settle, CloseUnused, Shape
<1>Shape. Shape'
  BY <1>1 DEF Shape
<1>OneFunction. OneFunction'
  BY <1>1 DEF OneFunction
<1>ClientsHeld. ClientsHeld'
  BY <1>1 DEF ClientsHeld
<1>Ending. Ending'
  BY <1>1 DEF Ending
<1>LoopWrites. LoopWrites'
  BY <1>1 DEF LoopWrites
<1>LiveWrites. LiveWrites'
  BY <1>1 DEF LiveWrites
<1>Told. Told'
  BY <1>1 DEF Told
<1> QED
  BY <1>Shape, <1>OneFunction, <1>ClientsHeld, <1>Ending, <1>LoopWrites, <1>LiveWrites, <1>Told

\* The process ends of itself only behind the loop.
LEMMA CommandExitsKeeps ==
  ASSUME FlowRunInv, CommandExits, ~over
  PROVE  FlowRunInv'
<1> USE FlowRunAssumption DEF FlowRunInv, BundleWriters, Saved, Ended, Punctual, Undisturbed
<1>1. /\ runSettled = "flow" /\ over' = TRUE
      /\ UNCHANGED <<runState, flow, body, saving, bundle, binding, unused, clients, signalled,
                     runSettled, left>>
  BY DEF CommandExits
<1>Shape. Shape'
  BY <1>1 DEF Shape
<1>OneFunction. OneFunction'
  BY <1>1 DEF OneFunction
<1>ClientsHeld. ClientsHeld'
  BY <1>1 DEF ClientsHeld
<1>Ending. Ending'
  BY <1>1 DEF Ending
<1>LoopWrites. LoopWrites'
  BY <1>1 DEF LoopWrites
<1>LiveWrites. LiveWrites'
  BY <1>1 DEF LiveWrites
<1>Told. Told'
  BY <1>1 DEF Told
<1> QED
  BY <1>Shape, <1>OneFunction, <1>ClientsHeld, <1>Ending, <1>LoopWrites, <1>LiveWrites, <1>Told

(* The function of an attempt moves alone.                                     *)
Moved(a, f) ==
  /\ body' \in [Attempts -> Functions] /\ body'[a] = f
  /\ \A b \in Attempts : b # a => body'[b] = body[b]

\* A function that prompts nobody, or throws.
LEMMA WorkKeeps ==
  ASSUME FlowRunInv, NEW a \in Attempts, Work(a), ~over
  PROVE  FlowRunInv'
<1> USE FlowRunAssumption DEF FlowRunInv, BundleWriters, Saved, Ended, Punctual, Undisturbed
<1>1. /\ body[a].at \in {"work", "creating", "bound"}
      /\ UNCHANGED <<binding, unused, clients>>
      /\ UNCHANGED <<runState, flow, saving, bundle, signalled, runSettled, left, over>>
  BY DEF Work, Elsewhere, Shape, Moves, Attempts
<1>2. /\ body' \in [Attempts -> Functions] /\ \A b \in Attempts : b # a => body'[b] = body[b]
      /\ body'[a].late = body[a].late
      /\ body'[a].at \in {"done", "failed"}
      /\ body'[a].client = body[a].client /\ body'[a].session = body[a].session
  BY DEF Work, Moves, Shape, Functions
<1>3. Punctual' <=> Punctual
  BY <1>2 DEF Punctual, Shape, Functions

<1>Shape. Shape'
  BY <1>1, <1>2 DEF Shape
<1>OneFunction. OneFunction'
  BY <1>1, <1>2 DEF OneFunction
<1>ClientsHeld. ClientsHeld'
  BY <1>1, <1>2 DEF ClientsHeld
<1>Ending. Ending'
  BY <1>1, <1>2 DEF Ending
<1>LoopWrites. LoopWrites'
  BY <1>1 DEF LoopWrites
<1>LiveWrites. LiveWrites'
  BY <1>1, <1>2 DEF LiveWrites
<1>Told. Told'
  BY <1>1 DEF Told
<1> QED
  BY <1>Shape, <1>OneFunction, <1>ClientsHeld, <1>Ending, <1>LoopWrites, <1>LiveWrites, <1>Told

\* A handle is bound, or about to be.
LEMMA BindKeeps ==
  ASSUME FlowRunInv, NEW a \in Attempts, Bind(a), ~over
  PROVE  FlowRunInv'
<1> USE FlowRunAssumption DEF FlowRunInv, BundleWriters, Saved, Ended, Punctual, Undisturbed
<1>1. /\ body[a].at = "prepare"
      /\ UNCHANGED <<binding, unused, clients>>
      /\ UNCHANGED <<runState, flow, saving, bundle, signalled, runSettled, left, over>>
  BY DEF Bind, Elsewhere, Shape, Moves, Attempts
<1>2. /\ body' \in [Attempts -> Functions] /\ \A b \in Attempts : b # a => body'[b] = body[b]
      /\ body'[a].late = body[a].late
      /\ body'[a].at = (IF binding = 0 THEN "creating" ELSE "bound")
      /\ body'[a].client = body[a].client /\ body'[a].session = binding
  BY DEF Bind, Shape, Functions
<1>3. Punctual' <=> Punctual
  BY <1>2 DEF Punctual, Shape, Functions

<1>Shape. Shape'
  BY <1>1, <1>2 DEF Shape
<1>OneFunction. OneFunction'
  BY <1>1, <1>2 DEF OneFunction
<1>ClientsHeld. ClientsHeld'
  BY <1>1, <1>2 DEF ClientsHeld
<1>Ending. Ending'
  BY <1>1, <1>2 DEF Ending
<1>LoopWrites. LoopWrites'
  BY <1>1 DEF LoopWrites
<1>LiveWrites. LiveWrites'
  BY <1>1, <1>2 DEF LiveWrites
<1>Told. Told'
  BY <1>1 DEF Told
<1> QED
  BY <1>Shape, <1>OneFunction, <1>ClientsHeld, <1>Ending, <1>LoopWrites, <1>LiveWrites, <1>Told

\* A session is created only where none was bound.
LEMMA CreatedKeeps ==
  ASSUME FlowRunInv, NEW a \in Attempts, Created(a), ~over
  PROVE  FlowRunInv'
<1> USE FlowRunAssumption DEF FlowRunInv, BundleWriters, Saved, Ended, Punctual, Undisturbed
<1>1. /\ body[a].at = "creating"
      /\ binding' = a /\ unused' = a /\ clients' = clients \cup {a} /\ a \in 0 .. MaxAttempts
      /\ UNCHANGED <<runState, flow, saving, bundle, signalled, runSettled, left, over>>
  BY DEF Created, Elsewhere, Shape, Moves, Attempts
<1>2. /\ body' \in [Attempts -> Functions] /\ \A b \in Attempts : b # a => body'[b] = body[b]
      /\ body'[a].late = body[a].late
      /\ body'[a].at = "bound"
      /\ body'[a].client = body[a].client /\ body'[a].session = a
  <2>1. \A f \in Functions : \A c \in BOOLEAN :
          /\ [f EXCEPT !.at = "bound", !.session = a] \in Functions
          /\ [f EXCEPT !.at = "bound", !.session = a].late = f.late
          /\ [f EXCEPT !.at = "bound", !.session = a].client = f.client
          /\ [f EXCEPT !.at = "bound", !.session = a].at = "bound"
          /\ [f EXCEPT !.at = "bound", !.session = a].session = a
    BY <1>1 DEF Functions
  <2>2. body \in [Attempts -> Functions] /\ body[a] \in Functions
    BY DEF Shape
  <2>3. body' = [body EXCEPT ![a] = [body[a] EXCEPT !.at = "bound", !.session = a]]
    BY <2>2 DEF Created
  <2> QED
    BY <2>1, <2>2, <2>3
<1>3. Punctual' <=> Punctual
  BY <1>2 DEF Punctual, Shape, Functions

<1>Shape. Shape'
  BY <1>1, <1>2 DEF Shape
<1>OneFunction. OneFunction'
  BY <1>1, <1>2 DEF OneFunction
<1>ClientsHeld. ClientsHeld'
  <2> SUFFICES ASSUME Punctual PROVE ClientsHeld'
    BY <1>3 DEF ClientsHeld
  <2>1. /\ \A b \in Attempts : b # a => body[b].at \notin {"creating", "bound", "prompting"}
        /\ binding = 0
    BY <1>1 DEF OneFunction, ClientsHeld
  <2>2. \A b \in Attempts : body[b].client # 0 => body[b].at = "prompting"
    BY DEF ClientsHeld
  <2>3. (\A b \in Attempts : body'[b].client = body[b].client) /\ body[a].client = 0
    BY <1>1, <1>2, <2>2
  <2>4. \A b \in Attempts : body[b].client = 0
    BY <2>1, <2>2, <2>3
  <2>5. \A b \in Attempts : body'[b].at \in {"creating", "bound", "prompting"} => b = a
    BY <1>2, <2>1
  <2>6. unused = 0 /\ clients \subseteq {0}
    BY <2>1, <2>4 DEF ClientsHeld
  <2> QED
    BY <1>1, <1>2, <2>3, <2>4, <2>5, <2>6 DEF ClientsHeld
<1>Ending. Ending'
  BY <1>1, <1>2 DEF Ending, OneFunction
<1>LoopWrites. LoopWrites'
  BY <1>1 DEF LoopWrites
<1>LiveWrites. LiveWrites'
  BY <1>1, <1>2 DEF LiveWrites
<1>Told. Told'
  BY <1>1 DEF Told
<1> QED
  BY <1>Shape, <1>OneFunction, <1>ClientsHeld, <1>Ending, <1>LoopWrites, <1>LiveWrites, <1>Told

\* A prompt takes the unused client with it.
LEMMA PromptKeeps ==
  ASSUME FlowRunInv, NEW a \in Attempts, Prompt(a), ~over
  PROVE  FlowRunInv'
<1> USE FlowRunAssumption DEF FlowRunInv, BundleWriters, Saved, Ended, Punctual, Undisturbed
<1>1. /\ body[a].at = "bound"
      /\ unused' = 0 /\ 0 \in 0 .. MaxAttempts /\ UNCHANGED <<binding, clients>>
      /\ UNCHANGED <<runState, flow, saving, bundle, signalled, runSettled, left, over>>
  BY DEF Prompt, Elsewhere, Shape, Moves, Attempts
<1>2. /\ body' \in [Attempts -> Functions] /\ \A b \in Attempts : b # a => body'[b] = body[b]
      /\ body'[a].late = body[a].late
      /\ body'[a].at = "prompting"
      /\ body'[a].client = unused /\ body'[a].session = body[a].session
  BY DEF Prompt, Shape, Functions
<1>3. Punctual' <=> Punctual
  BY <1>2 DEF Punctual, Shape, Functions

<1>Shape. Shape'
  BY <1>1, <1>2 DEF Shape
<1>OneFunction. OneFunction'
  BY <1>1, <1>2 DEF OneFunction
<1>ClientsHeld. ClientsHeld'
  BY <1>1, <1>2 DEF ClientsHeld
<1>Ending. Ending'
  BY <1>1 DEF Ending
<1>LoopWrites. LoopWrites'
  BY <1>1 DEF LoopWrites
<1>LiveWrites. LiveWrites'
  BY <1>1, <1>2 DEF LiveWrites
<1>Told. Told'
  BY <1>1 DEF Told
<1> QED
  BY <1>Shape, <1>OneFunction, <1>ClientsHeld, <1>Ending, <1>LoopWrites, <1>LiveWrites, <1>Told

\* A prompt closes the client it took.
LEMMA PromptEndsKeeps ==
  ASSUME FlowRunInv, NEW a \in Attempts, PromptEnds(a), ~over
  PROVE  FlowRunInv'
<1> USE FlowRunAssumption DEF FlowRunInv, BundleWriters, Saved, Ended, Punctual, Undisturbed
<1>1. /\ body[a].at = "prompting"
      /\ /\ clients' = clients \ {body[a].client} /\ unused' = unused
         /\ binding' \in {binding, body[a].session} /\ binding' \in 0 .. MaxAttempts
      /\ UNCHANGED <<runState, flow, saving, bundle, signalled, runSettled, left, over>>
  BY DEF PromptEnds, Elsewhere, Shape, Moves, Attempts, Functions
<1>2. /\ body' \in [Attempts -> Functions] /\ \A b \in Attempts : b # a => body'[b] = body[b]
      /\ body'[a].late = body[a].late
      /\ body'[a].at \in {"done", "failed"} /\ body'[a].client = 0
  BY DEF PromptEnds, Shape, Functions
<1>3. Punctual' <=> Punctual
  BY <1>2 DEF Punctual, Shape, Functions

<1>Shape. Shape'
  BY <1>1, <1>2 DEF Shape
<1>OneFunction. OneFunction'
  BY <1>1, <1>2 DEF OneFunction
<1>ClientsHeld. ClientsHeld'
  BY <1>1, <1>2 DEF ClientsHeld, OneFunction
<1>Ending. Ending'
  BY <1>1, <1>2 DEF Ending
<1>LoopWrites. LoopWrites'
  BY <1>1 DEF LoopWrites
<1>LiveWrites. LiveWrites'
  BY <1>1, <1>2 DEF LiveWrites
<1>Told. Told'
  BY <1>1 DEF Told
<1> QED
  BY <1>Shape, <1>OneFunction, <1>ClientsHeld, <1>Ending, <1>LoopWrites, <1>LiveWrites, <1>Told

\* A file lands; the next one is taken from the state as it is then.
LEMMA RenameKeeps ==
  ASSUME FlowRunInv, NEW w \in BundleWriters, Rename(w), ~over
  PROVE  FlowRunInv'
<1> USE DEF FlowRunInv
<1> DEFINE f == saving[w].file
<1>1. /\ f \in {"run", "live"} /\ bundle' = [bundle EXCEPT ![f] = saving[w].image]
      /\ UNCHANGED <<runState, flow, body, binding, unused, clients, signalled,
                   runSettled, left, over>>
  BY DEF Rename, Shape, Saved, Saves
<1>2. /\ bundle' \in [{"run", "live"} -> RunImages] /\ bundle'[f] = saving[w].image
      /\ \A g \in {"run", "live"} : g # f => bundle'[g] = bundle[g]
  BY <1>1 DEF Shape, Saves
<1>3. /\ saving' \in [BundleWriters -> Saves]
      /\ \A v \in BundleWriters : v # w => saving'[v] = saving[v]
      /\ f = "live" => saving'[w].file = "none"
      /\ f = "run" => saving'[w].file = "live" /\ saving'[w].image = Image(runState')
  <2>1. CASE f = "live"
    <3>1. saving' = [saving EXCEPT ![w] = Idle]
      BY <2>1 DEF Rename, NextFile
    <3> QED
      BY <2>1, <3>1, SaveIdles DEF Shape
  <2>2. CASE f = "run"
    <3>1. saving' = [saving EXCEPT ![w] = [saving[w] EXCEPT !.file = "live", !.image = Image(runState)]]
      BY <2>2 DEF Rename, NextFile
    <3>2. Image(runState) \in RunImages
      BY DEF Shape, RunImages, RunStates, Image
    <3>3. [saving[w] EXCEPT !.file = "live", !.image = Image(runState)] \in Saves
      BY <3>2 DEF Shape, Saves
    <3> QED
      BY <1>1, <2>2, <3>1, <3>3 DEF Shape, Saves
  <2> QED
    BY <1>1, <2>1, <2>2
<1> HIDE DEF f
<1>4. f = saving[w].file
  BY DEF f
<1>Shape. Shape'
  BY <1>1, <1>2, <1>3 DEF Shape
<1>OneFunction. OneFunction'
  BY <1>1 DEF OneFunction, Ended, Punctual
<1>ClientsHeld. ClientsHeld'
  BY <1>1 DEF ClientsHeld, Punctual
<1>Ending. Ending'
  BY <1>1, <1>3, <1>4 DEF Ending, Punctual, Undisturbed, Saved, BundleWriters
<1>5. Undisturbed /\ w = "handler" => FALSE
  BY <1>1, <1>4 DEF Ending, Saved
<1>6. Undisturbed' <=> Undisturbed
  BY <1>1 DEF Undisturbed
<1>7. ASSUME w = "loop" PROVE LoopWrites'
  BY <1>1, <1>2, <1>3, <1>4, <1>6, <1>7 DEF LoopWrites, Saved
<1>8. ASSUME w = "timer" PROVE LoopWrites'
  BY <1>1, <1>2, <1>3, <1>4, <1>6, <1>8 DEF Ending, LoopWrites, Saved, BundleWriters
<1>LoopWrites. LoopWrites'
  BY <1>5, <1>6, <1>7, <1>8 DEF LoopWrites, BundleWriters
<1>LiveWrites. LiveWrites'
  BY <1>1, <1>2, <1>3, <1>4, <1>5
     DEF LiveWrites, LoopWrites, Ending, Punctual, Undisturbed, Saved, BundleWriters
<1>Told. Told'
  BY <1>1 DEF Told, Undisturbed
<1> QED
  BY <1>Shape, <1>OneFunction, <1>ClientsHeld, <1>Ending, <1>LoopWrites, <1>LiveWrites, <1>Told

\* A write that fails disturbs the run, and the loop ends or records it.
LEMMA WriteFailsKeeps ==
  ASSUME FlowRunInv, NEW w \in BundleWriters, WriteFails(w), ~over
  PROVE  FlowRunInv'
<1> USE FlowRunAssumption DEF FlowRunInv, BundleWriters, Saved, Ended, Punctual, Undisturbed
<1>1. /\ saving[w].file # "none"
      /\ left' \in [beats : Nat, mishaps : 0 .. MaxMishaps] /\ left'.mishaps < MaxMishaps
      /\ over' \in BOOLEAN
      /\ UNCHANGED <<body, bundle, binding, unused, clients, signalled, runSettled>>
  BY DEF WriteFails, Shape, Saved
<1>2. /\ saving' \in [BundleWriters -> Saves] /\ runState' \in RunStates /\ flow' \in Loops
      /\ \A v \in BundleWriters : v # w => saving'[v] = saving[v]
      /\ w # "loop" => flow' = flow /\ saving'[w].file = "none"
      /\ w = "loop" => \/ flow'.at = "failing"
                       \/ flow'.at = "threw" /\ saving'[w].file = "none"
  <2>1. CASE w = "loop" /\ flow.at # "failing"
    <3>1. Failing("loop") /\ flow' = [flow EXCEPT !.at = "failing"]
      BY <2>1 DEF WriteFails
    <3>2. flow' \in Loops /\ flow'.at = "failing"
      BY <3>1 DEF Shape, Loops
    <3> QED
      BY <2>1, <3>1, <3>2, Fails DEF Shape, BundleWriters
  <2>2. CASE ~(w = "loop" /\ flow.at # "failing")
    <3>1. /\ saving' = [saving EXCEPT ![w] = Idle]
          /\ flow' = (IF w = "loop" THEN [flow EXCEPT !.at = "threw"] ELSE flow)
          /\ runState' = runState
      BY <2>2 DEF WriteFails
    <3>2. flow' \in Loops /\ (w = "loop" => flow'.at = "threw") /\ (w # "loop" => flow' = flow)
      BY <3>1 DEF Shape, Loops
    <3> QED
      BY <3>1, <3>2, SaveIdles DEF Shape
  <2> QED
    BY <2>1, <2>2
<1>3. ~Undisturbed'
  BY <1>1 DEF Undisturbed, Shape
<1>4. w = "loop" => flow.at \in {"starting", "recording", "completing", "failing"}
  BY <1>1 DEF Ending, Saved
<1>Shape. Shape'
  BY <1>1, <1>2 DEF Shape
<1>OneFunction. OneFunction'
  BY <1>1, <1>2, <1>4 DEF OneFunction
<1>ClientsHeld. ClientsHeld'
  BY <1>1 DEF ClientsHeld
<1>Ending. Ending'
  BY <1>1, <1>2 DEF Ending
<1>LoopWrites. LoopWrites' /\ LiveWrites' /\ Told'
  BY <1>3 DEF LoopWrites, LiveWrites, Told
<1> QED
  BY <1>Shape, <1>OneFunction, <1>ClientsHeld, <1>Ending, <1>LoopWrites

------------------------------------------------------------------------------
(* A run begins with nothing under way and both files in step.                 *)
LEMMA FlowRunBegins == FlowRunInit => FlowRunInv
<1> SUFFICES ASSUME FlowRunInit PROVE FlowRunInv
  OBVIOUS
<1> USE FlowRunAssumption
<1> DEFINE first == [status |-> "running", finished |-> FALSE, current |-> 0]
<1>1. first \in RunStates /\ Image(first) \in RunImages
  BY DEF RunStates, RunImages, Image, Statuses
<1>2. Idle \in Saves /\ Idle.file = "none"
  BY DEF Idle, Saves, RunImages, Statuses
<1>3. /\ runState = first /\ bundle = [f \in {"run", "live"} |-> Image(first)]
      /\ saving = [w \in BundleWriters |-> Idle]
      /\ binding = 0 /\ unused = 0 /\ clients = {}
      /\ signalled = FALSE /\ runSettled = "no" /\ over = FALSE
  BY DEF FlowRunInit
<1>4. flow \in Loops /\ flow.at = "next" /\ left \in [beats : Nat, mishaps : 0 .. MaxMishaps]
  BY DEF FlowRunInit, Loops
<1>5. /\ body \in [Attempts -> Functions]
      /\ \A a \in Attempts : body[a].at = "none" /\ body[a].client = 0
  BY DEF FlowRunInit, Functions
<1> HIDE DEF first
<1>6. Shape
  <2>1. saving \in [BundleWriters -> Saves] /\ bundle \in [{"run", "live"} -> RunImages]
    BY <1>1, <1>2, <1>3
  <2>2. /\ binding \in 0 .. MaxAttempts /\ unused \in 0 .. MaxAttempts /\ clients \subseteq Attempts
        /\ runSettled \in {"no", "flow", "signal"}
    BY <1>3
  <2>3. signalled \in BOOLEAN /\ over \in BOOLEAN
    BY <1>3
  <2> QED
    BY <1>1, <1>3, <1>4, <1>5, <2>1, <2>2, <2>3 DEF Shape
<1>7. OneFunction /\ ClientsHeld
  BY <1>3, <1>5 DEF OneFunction, ClientsHeld, Ended
<1>8. Ending /\ LoopWrites /\ LiveWrites /\ Told
  BY <1>1, <1>2, <1>3, <1>4 DEF Ending, LoopWrites, LiveWrites, Told, Saved, BundleWriters
<1> QED
  BY <1>6, <1>7, <1>8 DEF FlowRunInv

(* And every step keeps that.                                                  *)
LEMMA FlowRunSteps == FlowRunInv /\ [FlowRunNext]_runVars => FlowRunInv'
<1> SUFFICES ASSUME FlowRunInv, [FlowRunNext]_runVars PROVE FlowRunInv'
  OBVIOUS
<1>1. CASE UNCHANGED runVars
  BY <1>1 DEF runVars, FlowRunInv, Shape, OneFunction, ClientsHeld, Ending, LoopWrites, LiveWrites,
              Told, Saved, Ended, Punctual, Undisturbed
<1>2. CASE FlowRunNext
  <2>1. ~over
    BY <1>2 DEF FlowRunNext
  <2>2. CASE StartNode \/ EnterNode \/ NodeEnds \/ NodeTimesOut \/ Route \/ LoopEnds
    BY <2>1, <2>2, StartNodeKeeps, EnterNodeKeeps, NodeEndsKeeps, NodeTimesOutKeeps, RouteKeeps,
       LoopEndsKeeps
  <2>3. CASE Heartbeat \/ Interrupt \/ Settle \/ CommandExits
    BY <2>1, <2>3, HeartbeatKeeps, InterruptKeeps, SettleKeeps, CommandExitsKeeps
  <2>4. ASSUME NEW a \in Attempts, Function(a)
        PROVE  FlowRunInv'
    BY <2>1, <2>4, WorkKeeps, BindKeeps, CreatedKeeps, PromptKeeps, PromptEndsKeeps DEF Function
  <2>5. ASSUME NEW w \in BundleWriters, Rename(w) \/ WriteFails(w)
        PROVE  FlowRunInv'
    BY <2>1, <2>5, RenameKeeps, WriteFailsKeeps
  <2> QED
    BY <1>2, <2>2, <2>3, <2>4, <2>5 DEF FlowRunNext
<1> QED
  BY <1>1, <1>2

(* What the invariant says of a run that is over: its files hold its last state. *)
LEMMA VerdictFollows == FlowRunInv => VerdictStands
<1> SUFFICES ASSUME FlowRunInv, over, Undisturbed
             PROVE  /\ bundle.run = Image(runState) /\ runState.status # "running"
                    /\ (bundle # [f \in DOMAIN bundle |-> Image(runState)]
                          => flow.overran \/ LateAttempts # {})
  BY DEF VerdictStands
<1> USE DEF FlowRunInv
<1>1. flow.at \in {"done", "threw"} /\ Saved("loop")
  BY DEF Shape, Ending
<1>2. bundle["run"] = Image(runState) /\ runState.status # "running"
  BY <1>1 DEF LoopWrites, Told, Saved
<1>3. LateAttempts = {} /\ ~flow.overran => bundle["live"] = Image(runState)
  BY <1>1 DEF LiveWrites, LateAttempts, Punctual
<1>4. DOMAIN bundle = {"run", "live"}
  BY DEF Shape
<1>5. LateAttempts = {} /\ ~flow.overran => bundle = [f \in DOMAIN bundle |-> Image(runState)]
  BY <1>2, <1>3, <1>4 DEF Shape
<1> QED
  BY <1>2, <1>5

(* What it says of prompts and clients.                                        *)
LEMMA ApartFollows == FlowRunInv => SessionsKeptApart /\ NothingKeptOpen
<1> SUFFICES ASSUME FlowRunInv PROVE SessionsKeptApart /\ NothingKeptOpen
  OBVIOUS
<1>1. LateAttempts = {} => Punctual
  BY DEF LateAttempts, Punctual
<1>2. SessionsKeptApart
  BY <1>1 DEF FlowRunInv, OneFunction, ClientsHeld, SessionsKeptApart, Ended
<1>3. NothingKeptOpen
  BY <1>1 DEF FlowRunInv, Shape, ClientsHeld, Ending, NothingKeptOpen, Ended, Attempts
<1> QED
  BY <1>2, <1>3

\* And the type invariant of the module.
LEMMA ShapeFollows == FlowRunInv => FlowRunTypeOK
<1> SUFFICES ASSUME FlowRunInv PROVE FlowRunTypeOK
  OBVIOUS
<1>1. Shape
  BY DEF FlowRunInv
<1>2. Image(runState) \in RunImages
  BY <1>1 DEF Shape, Image, RunImages, RunStates
<1> QED
  BY <1>1, <1>2 DEF Shape, FlowRunTypeOK, RunImages, RunStates, Loops, Functions, Saves, Statuses

(* The run of a flow is accounted for, whatever its nodes do, however often a   *)
(* heartbeat fires, and wherever a write fails or a signal comes.              *)
THEOREM FlowRunAlwaysAccounted == FlowRunSpec => []FlowRunAccounted
<1>1. FlowRunInv => FlowRunAccounted
  BY ShapeFollows, VerdictFollows, ApartFollows DEF FlowRunAccounted
<1> QED
  BY <1>1, FlowRunBegins, FlowRunSteps, PTL DEF FlowRunSpec

-----------------------------------------------------------------------------
(***************************************************************************)
(* The files of a session between the hot directory and the archive        *)
(* (Archive).  The invariant has four layers: what holds whatever has      *)
(* happened, what holds until a file has been clobbered or crossed, what   *)
(* holds until anything has been noted as overtaken but a compressed form  *)
(* left beside a hot file and a record that a repair has moved before its  *)
(* transcript, and what holds until that, too.                             *)
(***************************************************************************)
Doing(w, steps) == job[w].at \in steps

Uncrossed == {"clobbered", "crossed"} \cap overtaken = {}
LeftAlone == overtaken \subseteq {"beside", "parted"}
Straight == overtaken \subseteq {"beside"}

(* The steps of a restore that has written its rows, and those of a sweep. *)
Leftover == {"verdict", "dropZst", "setAside"}
Placing == {"resolve", "rename", "link", "settle", "retire"} \cup Leftover
Compressing == {"begin", "commit", "recheck", "unlinkPlain", "dropOurs", "credit"}
Comparing == {"compare", "dropPlain", "quarantine"}
SweepSteps == {"idle", "reconcile", "eligible", "vanished", "stage", "commitPlain", "retireZst"}
                \cup Compressing \cup Comparing

(* Each worker makes its own calls, with something still to do.  Only a    *)
(* recent restore places files, and whoever has written has touched them.  *)
Places ==
  /\ Doing("archiver", {"idle", "revalidate", "noClobber", "journal", "move"})
  /\ Doing("restorer", {"idle", "journal"} \cup Placing)
  /\ Doing("sweeper", SweepSteps)
  /\ Doing("repairer", {"idle", "locate", "toArchive", "toHot", "fromZst", "link", "retire"})
  /\ \A w \in ArchiveWorkers : Doing(w, {"idle"}) => job[w].files = {}
  /\ ~Doing("archiver", {"idle"}) => "record" \in job["archiver"].files
  /\ ~Doing("restorer", {"idle"}) => job["restorer"].files # {}
  /\ ~Doing("repairer", {"idle"}) => job["repairer"].files # {}
  /\ job["sweeper"].files \subseteq {"log"}
  /\ Doing("restorer", {"link", "settle", "retire"} \cup Leftover) => "log" \in job["restorer"].files
  /\ Doing("repairer", {"fromZst", "link", "retire"}) => "log" \in job["repairer"].files
  /\ Doing("restorer", {"link", "retire"} \cup Leftover) => job["restorer"].held # {}
  /\ Doing("restorer", Placing) => graced
  /\ Doing("repairer", {"link"}) => job["repairer"].held # {}
  /\ Doing("sweeper", Compressing \cup {"commitPlain", "retireZst"}) => job["sweeper"].held # {}
  /\ Doing("sweeper", Compressing) => job["sweeper"].files = {"log"}
  /\ editor = "wrote" => touched

(* The transcript exists in a form that can be read as it is.              *)
Whole == hot["log"] # {} \/ plain["log"] # {}

(* A sweep does without its row only while there is such a form.           *)
JournalOpen ==
  /\ Doing("sweeper", (Compressing \ {"credit"}) \cup Comparing \cup {"vanished", "retireZst"}) => Whole
  /\ Doing("sweeper", Compressing \ {"begin"}) => journal = "begin"
  /\ zst # {} /\ ~Whole => journal \in {"begin", "compressed"}

OneRecord == "late" \in overtaken \/ hot["record"] = {} \/ plain["record"] = {}

(* A repair that is alone has read the rows as they are.                   *)
AloneMeans == alone =>
  /\ editor = "out"
  /\ \A w \in {"archiver", "restorer", "sweeper"} : Doing(w, {"idle"})
  /\ ~Doing("repairer", {"idle"}) => fold = rows

(* A repair moves a file where its row says.                               *)
Repairing == ~Doing("repairer", {"idle"}) =>
  /\ \A f \in ArchiveFiles : f \in job["repairer"].files => fold[f] # "none"
  /\ \A f \in ArchiveFiles : Located(f) =>
       /\ Doing("repairer", {"toArchive"}) => fold[f] = "archive"
       /\ Doing("repairer", {"toHot"}) => fold[f] = "restore"
  /\ Doing("repairer", {"fromZst", "link", "retire"}) => fold["log"] = "restore"

(* What an archive run still has to move is where it was planned; a log    *)
(* that it has is no restore's, and nothing is in the log's way.           *)
ArchiverOwns ==
  /\ ~Doing("archiver", {"idle"}) => hot["record"] # {}
  /\ "log" \in job["archiver"].files =>
       /\ hot["log"] # {} /\ "log" \notin job["restorer"].files
       /\ Doing("archiver", {"journal", "move"}) => plain["log"] = {} /\ zst = {}

(* A sweep finds what it goes by.                                          *)
SweepFacts ==
  /\ Doing("sweeper", Comparing) => plain["log"] # {} /\ zst # {}
  /\ Doing("sweeper", {"stage", "commitPlain"}) => zst # {}
  /\ Doing("sweeper", {"retireZst"}) => plain["log"] # {}
Selected ==
  \/ Doing("sweeper", Compressing)
  \/ Doing("sweeper", {"reconcile", "eligible"}) /\ "log" \in job["sweeper"].files

(* Only a recent restore takes something from under a sweep, and no run is *)
(* planned then; nor beside a sweep that found the session in the archive. *)
Apart ==
  /\ graced \/ SweepFacts
  /\ "log" \in job["archiver"].files => SweepFacts
  /\ Selected => Doing("archiver", {"idle"}) /\ (hot["record"] = {} \/ touched \/ graced)
  /\ Doing("restorer", {"journal"}) /\ "log" \in job["restorer"].files /\ hot["log"] # {} => touched

(* The forms in the archive are what a sweep has read, and before a form   *)
(* goes its lines are elsewhere.                                           *)
SweepKeeps ==
  LET P == job["sweeper"].held IN
  /\ Doing("sweeper", Compressing) => plain["log"] \in {{}, P} /\ zst \in {{}, P}
  /\ Doing("sweeper", {"begin", "commit"}) => zst = {}
  /\ Doing("sweeper", Compressing \ {"credit"}) => P \subseteq hot["log"] \cup plain["log"] \cup aside
  /\ Doing("sweeper", {"recheck", "unlinkPlain"}) =>
       P \subseteq hot["log"] \cup zst \cup aside /\ (zst # {} \/ hot["log"] # {})
  /\ Doing("sweeper", {"commitPlain", "retireZst"}) => zst \in {{}, P}
  /\ Doing("sweeper", {"retireZst"}) => P \subseteq hot["log"] \cup plain["log"] \cup aside
  /\ Doing("sweeper", {"dropPlain"}) =>
       plain["log"] \subseteq hot["log"] \cup zst \cup aside /\ (zst # {} \/ hot["log"] # {})

(* A restore and a sweep hold the same content.                            *)
RestoreKeeps ==
  LET h == job["restorer"].held IN
  /\ h # {} =>
       /\ "log" \in job["restorer"].files
       /\ zst \in {{}, h} /\ plain["log"] \in {{}, h}
       /\ Doing("sweeper", Compressing \cup {"commitPlain", "retireZst"}) => job["sweeper"].held = h
  /\ Doing("restorer", {"settle"} \cup Leftover) => hot["log"] # {}
  /\ Doing("restorer", {"settle"}) /\ zst # {} => plain["log"] \in {{}, zst}
  /\ Doing("restorer", {"retire", "dropZst"}) => h \subseteq hot["log"]

(* What a repair that is alone has seen is still so.                       *)
RepairKeeps == alone =>
  /\ Doing("repairer", {"fromZst", "link", "retire"}) => plain["log"] = {}
  /\ Doing("repairer", {"link"}) => job["repairer"].held = zst /\ hot["log"] = {}
  /\ Doing("repairer", {"toHot"}) => \A f \in ArchiveFiles : Located(f) => plain[f] # {}
  /\ Doing("repairer", {"retire"}) => zst # {} /\ hot["log"] = zst

Somewhere == Whole \/ zst # {}
LinesKept == 1..spoken \subseteq hot["log"] \cup plain["log"] \cup zst \cup aside

(* A restore that has written its rows has files they name; a record that  *)
(* it still has to place is not an archive run's.                          *)
RestorerOwns ==
  /\ Doing("restorer", {"journal"}) => \A f \in ArchiveFiles : f \in job["restorer"].files => hot[f] = {}
  /\ "record" \in job["restorer"].files => Doing("archiver", {"idle"})
  /\ Doing("restorer", Placing) =>
       /\ "log" \in job["restorer"].files => rows["log"] = "restore"
       /\ "record" \in job["restorer"].files => rows["log"] = "restore" \/ hot["log"] # {}
  /\ Doing("restorer", {"journal"}) /\ job["restorer"].files = {"record"} =>
       hot["log"] # {}

(* A run moves what its rows name; a log that it passes by came back by a  *)
(* restore.                                                                *)
ArchiverRows ==
  /\ Doing("archiver", {"move"}) => \A f \in ArchiveFiles : f \in job["archiver"].files => rows[f] = "archive"
  /\ ~Doing("archiver", {"idle"}) /\ "log" \notin job["archiver"].files /\ hot["log"] # {} =>
       rows["log"] = "restore"

(* Nothing is in the archive of a transcript that is hot although its row  *)
(* says archived.                                                          *)
RowsTell ==
  /\ rows["log"] = "none" => hot["log"] # {}
  /\ rows["log"] = "archive" /\ hot["log"] # {} =>
       plain["log"] = {} /\ zst = {} /\ ~Doing("sweeper", {"begin", "commit", "commitPlain"})

(* The rows tell where a session is that has been moved in part.           *)
RowsAgree ==
  /\ hot["record"] # {} /\ hot["log"] = {} => rows["record"] = "archive" \/ rows["log"] = "restore"
  /\ rows["log"] = "archive" => rows["record"] = "archive"
  /\ plain["record"] # {} /\ hot["log"] # {} => rows["log"] # "archive"
  /\ Doing("restorer", {"journal"}) /\ job["restorer"].files = {"record"} => rows["log"] # "archive"

(* The file is where the row says that a repair has read.                  *)
Folded(f) ==
  /\ fold[f] = "archive" => hot[f] = {}
  /\ fold[f] = "restore" =>
       \/ ~InArchive(f)
       \/ f = "log" /\ plain[f] = {} /\ hot[f] # {} /\ (hot[f] # zst \/ "beside" \in overtaken)
RepairFolds == alone /\ ~Doing("repairer", {"idle"}) =>
  \A f \in ArchiveFiles : f \notin job["repairer"].files => Folded(f)

ArchiveInv ==
  /\ Places /\ JournalOpen /\ OneRecord /\ AloneMeans /\ Repairing
  /\ Uncrossed => /\ ArchiverOwns /\ Apart /\ SweepKeeps /\ RestoreKeeps /\ RepairKeeps
                  /\ Somewhere /\ LinesKept
  /\ LeftAlone => RestorerOwns /\ ArchiverRows /\ RowsTell /\ RepairFolds
  /\ Straight => RowsAgree

Budget == [{"jobs", "crashes", "errors"} -> Nat]
(* Spending keeps the count a number.                                      *)
LEMMA SpendTyped ==
  ASSUME ArchiveTypeOK, NEW k \in {"jobs", "crashes", "errors"}, NEW limit, Spend(k, limit)
  PROVE  spent' \in Budget
  BY DEF ArchiveTypeOK, Spend, Budget

(***************************************************************************)
(* What a step does to one worker and to the files.                        *)
(***************************************************************************)
(* The worker comes to its next call; the others stay where they are.      *)
Becomes(w, step, files, held) ==
  /\ job'[w].at = step /\ job'[w].files = files /\ job'[w].held = held
  /\ \A v \in ArchiveWorkers \ {w} : job'[v] = job[v]
Goes(w, step) == Becomes(w, step, job[w].files, job[w].held)
Rests(w) == Becomes(w, "idle", {}, {})
Through(w, f, step) ==
  LET rest == job[w].files \ {f}
  IN  Becomes(w, IF rest = {} THEN "idle" ELSE step, rest, {})

HotStays == hot' = hot
PlainStays == plain' = plain
FilesStay == HotStays /\ PlainStays /\ zst' = zst /\ aside' = aside
RowsStay == rows' = rows
ClockStays == editor' = editor /\ touched' = touched /\ graced' = graced /\ spoken' = spoken
(* All but the files and the history. *)
RestStays == RowsStay /\ ClockStays /\ journal' = journal
AllStays == FilesStay /\ RestStays /\ overtaken' = overtaken
(* A rename.                                                               *)
Relocated(from, to, f) ==
  \A g \in ArchiveFiles :
    /\ from'[g] = IF g = f THEN {} ELSE from[g]
    /\ to'[g] = IF g = f THEN from[f] ELSE to[g]

JobRecords ==
  [at : ArchiveSteps, files : SUBSET ArchiveFiles, held : SUBSET (1..MaxLines), again : BOOLEAN]
Jobs == [ArchiveWorkers -> JobRecords]

(* The workers are well typed.                                            *)
LEMMA JobsTyped == ArchiveTypeOK => job \in Jobs
  BY DEF ArchiveTypeOK, Jobs, JobRecords

(* A worker is set anew.                                                   *)
LEMMA JobSet ==
  ASSUME ArchiveTypeOK, NEW w \in ArchiveWorkers, NEW j \in JobRecords, job' = [job EXCEPT ![w] = j]
  PROVE  job' \in Jobs /\ Becomes(w, j.at, j.files, j.held)
  BY JobsTyped DEF Jobs, Becomes

(* A worker goes on with what it has.                                      *)
LEMMA JobGoes ==
  ASSUME ArchiveTypeOK, NEW w \in ArchiveWorkers, NEW step \in ArchiveSteps, GoTo(w, step)
  PROVE  job' \in Jobs /\ Goes(w, step)
  BY JobsTyped DEF Jobs, JobRecords, Goes, GoTo, Becomes

(* A worker that rests remembers nothing.                                  *)
LEMMA RestTyped == Rest \in JobRecords /\ Rest.at = "idle" /\ Rest.files = {} /\ Rest.held = {}
  BY DEF JobRecords, Rest, NoContent, ArchiveSteps

(* A worker rests.                                                         *)
LEMMA JobRests ==
  ASSUME ArchiveTypeOK, NEW w \in ArchiveWorkers, job' = [job EXCEPT ![w] = Rest]
  PROVE  job' \in Jobs /\ Rests(w)
<1>1. job' \in Jobs /\ Becomes(w, Rest.at, Rest.files, Rest.held)
  BY RestTyped, JobSet
<1> QED
  BY <1>1, RestTyped DEF Rests

(* A worker starts with some files.                                        *)
LEMMA JobStarts ==
  ASSUME ArchiveTypeOK, NEW w \in ArchiveWorkers, NEW step \in ArchiveSteps,
         NEW files \in SUBSET ArchiveFiles,
         job' = [job EXCEPT ![w] = [Rest EXCEPT !.at = step, !.files = files]]
  PROVE  job' \in Jobs /\ Becomes(w, step, files, {})
<1>1. PICK j : j = [Rest EXCEPT !.at = step, !.files = files]
  OBVIOUS
<1>2. j \in JobRecords /\ j.at = step /\ j.files = files /\ j.held = {}
  BY <1>1, RestTyped DEF JobRecords
<1>3. job' = [job EXCEPT ![w] = j]
  BY <1>1
<1>4. job' \in Jobs /\ Becomes(w, j.at, j.files, j.held)
  BY <1>2, <1>3, JobSet
<1> QED
  BY <1>2, <1>4

(* A worker is through with a file.                                        *)
LEMMA JobThrough ==
  ASSUME ArchiveTypeOK, NEW w \in ArchiveWorkers, NEW f \in ArchiveFiles,
         NEW step \in ArchiveSteps, DoneWith(w, f, step)
  PROVE  job' \in Jobs /\ Through(w, f, step)
<1> DEFINE rest == job[w].files \ {f}
<1>1. CASE rest = {}
  <2>1. job' = [job EXCEPT ![w] = Rest]
    BY <1>1 DEF DoneWith
  <2>2. job' \in Jobs /\ Becomes(w, "idle", {}, {})
    BY <2>1, JobRests DEF Rests
  <2> QED
    BY <1>1, <2>2 DEF Through
<1>2. CASE rest # {}
  <2>1. job' = [job EXCEPT ![w] = [Rest EXCEPT !.at = step, !.files = rest]]
    BY <1>2 DEF DoneWith
  <2>2. rest \in SUBSET ArchiveFiles
    BY JobsTyped DEF Jobs, JobRecords
  <2>3. job' \in Jobs /\ Becomes(w, step, rest, {})
    BY <2>1, <2>2, JobStarts
  <2> QED
    BY <1>2, <2>3 DEF Through
<1> QED
  BY <1>1, <1>2

(* A worker begins.                                                        *)
LEMMA JobBegins ==
  ASSUME ArchiveTypeOK, NEW w \in ArchiveWorkers, NEW step \in ArchiveSteps,
         NEW files \in SUBSET ArchiveFiles, Begins(w, step, files)
  PROVE  job' \in Jobs /\ job[w].at = "idle" /\ Becomes(w, step, files, {})
<1>1. job' \in Jobs /\ Becomes(w, step, files, {})
  BY JobStarts DEF Begins
<1> QED
  BY <1>1 DEF Begins, AtStep

(* A run is planned for a session in the hot directory only. *)
LEMMA PlanRunKeeps ==
  ASSUME ArchiveTypeOK, ArchiveInv, PlanRun, alone' = FALSE, UNCHANGED fold
  PROVE  ArchiveTypeOK' /\ ArchiveInv'
<1>1. /\ job' \in Jobs
      /\ job["archiver"].at = "idle" /\ hot["record"] # {} /\ editor = "out" /\ ~touched /\ ~graced
      /\ Becomes("archiver", "revalidate", {f \in ArchiveFiles : hot[f] # {}}, {})
      /\ AllStays
  BY JobBegins DEF PlanRun, NoContent, ArchiveFiles, FilesStay, HotStays, PlainStays, RowsStay,
         ClockStays, RestStays, AllStays, archiveFiles, archiveClock, ArchiveWorkers, ArchiveSteps
<1>2. ArchiveTypeOK'
  BY <1>1, SpendTyped DEF PlanRun, NoContent, ArchiveFiles, archiveFiles, archiveClock, Begins,
         ArchiveTypeOK, Jobs, JobRecords, Budget
<1>3. /\ (Uncrossed' => Uncrossed) /\ (LeftAlone' => LeftAlone /\ Uncrossed)
      /\ (Straight' => Straight /\ LeftAlone /\ LeftAlone')
  BY <1>1 DEF Uncrossed, LeftAlone, Straight, AllStays
<1>4. Places' /\ JournalOpen' /\ OneRecord' /\ AloneMeans' /\ Repairing'
  BY <1>1 DEF ArchiveInv, Places, JournalOpen, OneRecord, AloneMeans, Repairing, Becomes, AllStays,
         ArchiveFiles, ArchiveWorkers, Doing, Placing, Compressing, SweepSteps, Comparing, Whole,
         IsNext, FilesStay, RestStays, HotStays, PlainStays, RowsStay, ClockStays, Located, Leftover
<1>5. Uncrossed' => /\ Apart' /\ SweepKeeps' /\ RestoreKeeps'
                    /\ RepairKeeps' /\ Somewhere' /\ LinesKept'
  BY <1>1, <1>3 DEF ArchiveInv, Apart, SweepKeeps, RestoreKeeps, RepairKeeps, Somewhere, LinesKept,
         Becomes, AllStays, ArchiveFiles, ArchiveWorkers, SweepFacts, Selected, Doing, Compressing,
         IsNext, Whole, FilesStay, RestStays, Comparing, HotStays, PlainStays, RowsStay, ClockStays,
         Located, Leftover
<1>6. Uncrossed' => ArchiverOwns'
  BY <1>1, <1>3 DEF ArchiveInv, ArchiverOwns, Places, Apart, Becomes, AllStays, ArchiveFiles,
         ArchiveWorkers, Doing, Placing, Compressing, SweepSteps, SweepFacts, Selected, FilesStay,
         RestStays, Comparing, HotStays, PlainStays, RowsStay, ClockStays, Leftover
<1>7. LeftAlone' => ArchiverRows' /\ RowsTell' /\ RepairFolds'
  BY <1>1, <1>3 DEF ArchiveInv, ArchiverRows, RowsTell, RepairFolds, Becomes, AllStays,
         ArchiveFiles, ArchiveWorkers, Doing, Folded, FilesStay, RestStays, InArchive, HotStays,
         PlainStays, RowsStay, ClockStays, NoContent
<1>8. LeftAlone' => RestorerOwns'
  BY <1>1, <1>3 DEF ArchiveInv, RestorerOwns, Places, Becomes, AllStays, ArchiveFiles,
         ArchiveWorkers, Doing, Placing, Compressing, SweepSteps, FilesStay, RestStays, Comparing,
         HotStays, PlainStays, RowsStay, ClockStays, Leftover
<1>9. Straight' => RowsAgree'
  BY <1>1, <1>3 DEF ArchiveInv, ArchiverRows, RowsTell, RepairFolds, Becomes, AllStays,
         ArchiveFiles, ArchiveWorkers, Doing, Folded, FilesStay, RestStays, InArchive, HotStays,
         PlainStays, RowsStay, ClockStays, NoContent, RowsAgree, OneRecord
<1> QED
  BY <1>2, <1>3, <1>4, <1>5, <1>6, <1>7, <1>8, <1>9 DEF ArchiveInv

(* The run looks again which of its files are hot. *)
LEMMA RevalidateDoes ==
  ASSUME ArchiveTypeOK, Revalidate
  PROVE
    /\ job' \in Jobs
    /\ job["archiver"].at = "revalidate"
    /\ \/ Rests("archiver")
       \/ /\ hot["record"] # {} /\ ~touched
          /\ Becomes("archiver", "noClobber", {f \in job["archiver"].files : hot[f] # {}}, job["archiver"].held)
    /\ AllStays
<1>1. job["archiver"].at = "revalidate" /\ AllStays
  BY DEF Revalidate, AtStep, AllStays, FilesStay, HotStays, PlainStays, RestStays, RowsStay,
         ClockStays, archiveFiles, archiveClock
<1>2. CASE hot["record"] = {} \/ touched
  <2>1. job' = [job EXCEPT !["archiver"] = Rest]
    BY <1>2 DEF Revalidate, NoContent
  <2> QED
    BY <1>1, <2>1, JobRests DEF ArchiveWorkers
<1>3. CASE ~(hot["record"] = {} \/ touched)
  <2>1. PICK j : j = [job["archiver"] EXCEPT !.at = "noClobber", !.files = {f \in job["archiver"].files : hot[f] # {}}]
    OBVIOUS
  <2>2. job["archiver"] \in JobRecords
    BY JobsTyped DEF Jobs, ArchiveWorkers
  <2>3. "noClobber" \in ArchiveSteps /\ {f \in job["archiver"].files : hot[f] # {}} \in SUBSET ArchiveFiles
    BY <2>2 DEF ArchiveSteps, JobRecords, ArchiveTypeOK, ArchiveFiles
  <2>4. /\ j \in JobRecords /\ j.at = "noClobber" /\ j.files = {f \in job["archiver"].files : hot[f] # {}}
        /\ j.held = job["archiver"].held
    BY <2>1, <2>2, <2>3 DEF JobRecords
  <2>5. job' = [job EXCEPT !["archiver"] = j]
    BY <1>3, <2>1 DEF Revalidate, NoContent
  <2>6. job' \in Jobs /\ Becomes("archiver", "noClobber", {f \in job["archiver"].files : hot[f] # {}}, job["archiver"].held)
    BY <2>4, <2>5, JobSet DEF ArchiveWorkers
  <2> QED
    BY <1>1, <1>3, <2>6
<1> QED
  BY <1>2, <1>3

(* The run looks again which of its files are hot. *)
LEMMA RevalidateKeeps ==
  ASSUME ArchiveTypeOK, ArchiveInv, Revalidate, alone' = FALSE, UNCHANGED fold
  PROVE  ArchiveTypeOK' /\ ArchiveInv'
<1>1. /\ job' \in Jobs
      /\ job["archiver"].at = "revalidate"
      /\ \/ Rests("archiver")
         \/ /\ hot["record"] # {} /\ ~touched
            /\ Becomes("archiver", "noClobber", {f \in job["archiver"].files : hot[f] # {}}, job["archiver"].held)
      /\ AllStays
  BY RevalidateDoes
<1>2. ArchiveTypeOK'
  BY <1>1 DEF Revalidate, NoContent, archiveFiles, archiveClock, ArchiveTypeOK, Jobs, JobRecords
<1>3. /\ (Uncrossed' => Uncrossed) /\ (LeftAlone' => LeftAlone /\ Uncrossed)
      /\ (Straight' => Straight /\ LeftAlone /\ LeftAlone')
  BY <1>1 DEF Uncrossed, LeftAlone, Straight, AllStays
<1>4. Places' /\ JournalOpen' /\ OneRecord' /\ AloneMeans' /\ Repairing'
  BY <1>1 DEF ArchiveInv, Places, JournalOpen, OneRecord, AloneMeans, Repairing, Becomes, Rests,
         AllStays, ArchiveFiles, ArchiveWorkers, Doing, Placing, Compressing, SweepSteps, Comparing,
         Whole, IsNext, FilesStay, RestStays, HotStays, PlainStays, RowsStay, ClockStays, Located,
         Leftover
<1>5. Uncrossed' => /\ ArchiverOwns' /\ Apart' /\ SweepKeeps' /\ RestoreKeeps'
                    /\ RepairKeeps' /\ Somewhere' /\ LinesKept'
  BY <1>1, <1>3 DEF ArchiveInv, ArchiverOwns, Apart, SweepKeeps, RestoreKeeps, RepairKeeps,
         Somewhere, LinesKept, Becomes, Rests, AllStays, ArchiveFiles, ArchiveWorkers, Doing,
         SweepFacts, Selected, Compressing, IsNext, Whole, FilesStay, RestStays, Comparing,
         HotStays, PlainStays, RowsStay, ClockStays, Located, Leftover
<1>6. LeftAlone' => RestorerOwns' /\ ArchiverRows' /\ RowsTell' /\ RepairFolds'
  BY <1>1, <1>3 DEF ArchiveInv, RestorerOwns, ArchiverRows, RowsTell, RepairFolds, Becomes, Rests,
         AllStays, ArchiveFiles, ArchiveWorkers, Doing, Placing, Folded, FilesStay, RestStays,
         InArchive, HotStays, PlainStays, RowsStay, ClockStays, NoContent, Leftover
<1>7. Straight' => RowsAgree'
  BY <1>1, <1>3 DEF ArchiveInv, RestorerOwns, ArchiverRows, RowsTell, RepairFolds, Becomes, Rests,
         AllStays, ArchiveFiles, ArchiveWorkers, Doing, Placing, Folded, FilesStay, RestStays,
         InArchive, HotStays, PlainStays, RowsStay, ClockStays, NoContent, Leftover, RowsAgree,
         OneRecord
<1> QED
  BY <1>2, <1>3, <1>4, <1>5, <1>6, <1>7 DEF ArchiveInv

(* The run goes on only if none of its files is in the archive. *)
LEMMA NoClobberDoes ==
  ASSUME ArchiveTypeOK, NoClobber
  PROVE
    /\ job' \in Jobs
    /\ job["archiver"].at = "noClobber"
    /\ \/ Rests("archiver")
       \/ Goes("archiver", "journal") /\ \A f \in ArchiveFiles : f \in job["archiver"].files => ~InArchive(f)
    /\ AllStays
<1>1. job["archiver"].at = "noClobber" /\ AllStays
  BY DEF NoClobber, AtStep, AllStays, FilesStay, HotStays, PlainStays, RestStays, RowsStay,
         ClockStays, archiveFiles, archiveClock
<1>2. CASE \E f \in job["archiver"].files : InArchive(f)
  <2>1. job' = [job EXCEPT !["archiver"] = Rest]
    BY <1>2 DEF NoClobber
  <2> QED
    BY <1>1, <2>1, JobRests DEF ArchiveWorkers
<1>3. CASE ~\E f \in job["archiver"].files : InArchive(f)
  <2>1. PICK j : j = [job["archiver"] EXCEPT !.at = "journal"]
    OBVIOUS
  <2>2. job["archiver"] \in JobRecords
    BY JobsTyped DEF Jobs, ArchiveWorkers
  <2>3. "journal" \in ArchiveSteps
    BY <2>2 DEF ArchiveSteps, JobRecords, ArchiveTypeOK, ArchiveFiles
  <2>4. j \in JobRecords /\ j.at = "journal" /\ j.files = job["archiver"].files /\ j.held = job["archiver"].held
    BY <2>1, <2>2, <2>3 DEF JobRecords
  <2>5. job' = [job EXCEPT !["archiver"] = j]
    BY <1>3, <2>1 DEF NoClobber
  <2>6. job' \in Jobs /\ Goes("archiver", "journal")
    BY <2>4, <2>5, JobSet DEF ArchiveWorkers, Goes
  <2> QED
    BY <1>1, <1>3, <2>6
<1> QED
  BY <1>2, <1>3

(* The run goes on only if none of its files is in the archive. *)
LEMMA NoClobberKeeps ==
  ASSUME ArchiveTypeOK, ArchiveInv, NoClobber, alone' = FALSE, UNCHANGED fold
  PROVE  ArchiveTypeOK' /\ ArchiveInv'
<1>1. /\ job' \in Jobs
      /\ job["archiver"].at = "noClobber"
      /\ \/ Rests("archiver")
         \/ Goes("archiver", "journal") /\ \A f \in ArchiveFiles : f \in job["archiver"].files => ~InArchive(f)
      /\ AllStays
  BY NoClobberDoes
<1>2. ArchiveTypeOK'
  BY <1>1 DEF NoClobber, NoContent, archiveFiles, archiveClock, ArchiveTypeOK, Jobs, JobRecords
<1>3. /\ (Uncrossed' => Uncrossed) /\ (LeftAlone' => LeftAlone /\ Uncrossed)
      /\ (Straight' => Straight /\ LeftAlone /\ LeftAlone')
  BY <1>1 DEF Uncrossed, LeftAlone, Straight, AllStays
<1>4. Places' /\ JournalOpen' /\ OneRecord' /\ AloneMeans' /\ Repairing'
  BY <1>1 DEF ArchiveInv, Places, JournalOpen, OneRecord, AloneMeans, Repairing, Goes, Rests,
         AllStays, InArchive, ArchiveFiles, ArchiveWorkers, Doing, Placing, Compressing, SweepSteps,
         Comparing, Whole, IsNext, Becomes, FilesStay, RestStays, NoContent, HotStays, PlainStays,
         RowsStay, ClockStays, Located, Leftover
<1>5. Uncrossed' => /\ ArchiverOwns' /\ Apart' /\ SweepKeeps' /\ RestoreKeeps'
                    /\ RepairKeeps' /\ Somewhere' /\ LinesKept'
  BY <1>1, <1>3 DEF ArchiveInv, ArchiverOwns, Apart, SweepKeeps, RestoreKeeps, RepairKeeps,
         Somewhere, LinesKept, Goes, Rests, AllStays, InArchive, ArchiveFiles, ArchiveWorkers,
         Doing, SweepFacts, Selected, Compressing, IsNext, Whole, Becomes, FilesStay, RestStays,
         NoContent, Comparing, HotStays, PlainStays, RowsStay, ClockStays, Located, Leftover
<1>6. LeftAlone' => RestorerOwns' /\ ArchiverRows' /\ RowsTell' /\ RepairFolds'
  BY <1>1, <1>3 DEF ArchiveInv, RestorerOwns, ArchiverRows, RowsTell, RepairFolds, Goes, Rests,
         AllStays, InArchive, ArchiveFiles, ArchiveWorkers, Doing, Placing, Folded, Becomes,
         FilesStay, RestStays, NoContent, HotStays, PlainStays, RowsStay, ClockStays, Leftover
<1>7. Straight' => RowsAgree'
  BY <1>1, <1>3 DEF ArchiveInv, RestorerOwns, ArchiverRows, RowsTell, RepairFolds, Goes, Rests,
         AllStays, InArchive, ArchiveFiles, ArchiveWorkers, Doing, Placing, Folded, Becomes,
         FilesStay, RestStays, NoContent, HotStays, PlainStays, RowsStay, ClockStays, Leftover,
         RowsAgree, OneRecord
<1> QED
  BY <1>2, <1>3, <1>4, <1>5, <1>6, <1>7 DEF ArchiveInv

(* The rows of the run say what will be where. *)
LEMMA JournalRunKeeps ==
  ASSUME ArchiveTypeOK, ArchiveInv, JournalRun, alone' = FALSE, UNCHANGED fold
  PROVE  ArchiveTypeOK' /\ ArchiveInv'
<1>1. /\ job' \in Jobs
      /\ job["archiver"].at = "journal" /\ Goes("archiver", "move")
      /\ \A f \in ArchiveFiles : rows'[f] = IF f \in job["archiver"].files THEN "archive" ELSE rows[f]
      /\ FilesStay /\ ClockStays /\ journal' = journal /\ overtaken' = overtaken
  BY JobGoes DEF JournalRun, AtStep, ArchiveFiles, FilesStay, HotStays, PlainStays, ClockStays,
         archiveFiles, archiveClock, WriteRows, Goes, ArchiveWorkers, ArchiveSteps
<1>2. ArchiveTypeOK'
  BY <1>1 DEF JournalRun, ArchiveFiles, archiveFiles, archiveClock, WriteRows, ArchiveTypeOK, Jobs,
         JobRecords
<1>3. /\ (Uncrossed' => Uncrossed) /\ (LeftAlone' => LeftAlone /\ Uncrossed)
      /\ (Straight' => Straight /\ LeftAlone /\ LeftAlone')
  BY <1>1 DEF Uncrossed, LeftAlone, Straight
<1>4. Places' /\ JournalOpen' /\ OneRecord' /\ AloneMeans' /\ Repairing'
  BY <1>1 DEF ArchiveInv, Places, JournalOpen, OneRecord, AloneMeans, Repairing, Goes, FilesStay,
         ClockStays, ArchiveFiles, ArchiveWorkers, Doing, Placing, Compressing, SweepSteps,
         Comparing, Whole, IsNext, Becomes, HotStays, PlainStays, Located, Leftover
<1>5. Uncrossed' => /\ ArchiverOwns' /\ Apart' /\ SweepKeeps' /\ RestoreKeeps'
                    /\ RepairKeeps' /\ Somewhere' /\ LinesKept'
  BY <1>1, <1>3 DEF ArchiveInv, ArchiverOwns, Apart, SweepKeeps, RestoreKeeps, RepairKeeps,
         Somewhere, LinesKept, Goes, FilesStay, ClockStays, ArchiveFiles, ArchiveWorkers, Doing,
         SweepFacts, Selected, Compressing, IsNext, Whole, Becomes, HotStays, PlainStays, Comparing,
         Located, Leftover
<1>6. LeftAlone' => ArchiverRows' /\ RepairFolds'
  BY <1>1, <1>3 DEF ArchiveInv, ArchiverRows, RepairFolds, Goes, FilesStay, ClockStays,
         ArchiveFiles, ArchiveWorkers, Doing, Folded, Becomes, HotStays, PlainStays, InArchive,
         NoContent
<1>7. LeftAlone' => RestorerOwns'
  BY <1>1, <1>3 DEF ArchiveInv, RestorerOwns, ArchiverOwns, Places, Goes, FilesStay, ClockStays,
         ArchiveFiles, ArchiveWorkers, Doing, Placing, Compressing, SweepSteps, Becomes, HotStays,
         PlainStays, Comparing, Leftover
<1>8. LeftAlone' => RowsTell'
  <2> SUFFICES ASSUME LeftAlone' PROVE RowsTell'
    OBVIOUS
  <2>1. RowsTell /\ ArchiverOwns /\ Apart
    BY <1>3 DEF ArchiveInv
  <2>2. CASE "log" \in job["archiver"].files
    <3>1. /\ rows'["log"] = "archive" /\ plain["log"] = {} /\ zst = {}
          /\ ~Doing("sweeper", {"begin", "commit", "commitPlain"})
      BY <1>1, <2>1, <2>2 DEF ArchiverOwns, Apart, SweepFacts, Selected, Doing, Compressing,
             ArchiveFiles
    <3> QED
      BY <1>1, <2>1, <3>1 DEF RowsTell, FilesStay, HotStays, PlainStays, Goes,
             Becomes, Doing, ArchiveWorkers
  <2>3. CASE "log" \notin job["archiver"].files
    <3>1. rows'["log"] = rows["log"]
      BY <1>1, <2>3 DEF ArchiveFiles
    <3> QED
      BY <1>1, <2>1, <3>1 DEF RowsTell, FilesStay, HotStays, PlainStays, Goes,
             Becomes, Doing, ArchiveWorkers
  <2> QED
    BY <2>2, <2>3
<1>9. Straight' => RowsAgree'
  <2> SUFFICES ASSUME Straight' PROVE RowsAgree'
    OBVIOUS
  <2>1. /\ ArchiverOwns /\ RestorerOwns /\ Places
        /\ hot["record"] = {} \/ plain["record"] = {}
    BY <1>3 DEF ArchiveInv, OneRecord, LeftAlone
  <2>2. "record" \in job["archiver"].files /\ hot["record"] # {}
    BY <1>1, <2>1 DEF Places, ArchiverOwns, Doing
  <2>3. rows'["record"] = "archive" /\ plain'["record"] = {}
    BY <1>1, <2>1, <2>2 DEF ArchiveFiles, FilesStay, PlainStays
  <2>4. "record" \notin job'["restorer"].files
    BY <1>1, <2>1 DEF RestorerOwns, Doing, Goes, Becomes, ArchiveWorkers
  <2> QED
    BY <2>3, <2>4 DEF RowsAgree
<1> QED
  BY <1>2, <1>3, <1>4, <1>5, <1>6, <1>7, <1>8, <1>9 DEF ArchiveInv

(* A file is moved over no other, for its run has looked. *)
LEMMA MoveOutDoes ==
  ASSUME ArchiveTypeOK, NEW f \in ArchiveFiles, MoveOut(f)
  PROVE
    /\ job' \in Jobs
    /\ job["archiver"].at = "move" /\ IsNext("archiver", f) /\ Through("archiver", f, "move")
    /\ \/ hot[f] = {} /\ FilesStay /\ overtaken' = overtaken
       \/ /\ hot[f] # {} /\ Relocated(hot, plain, f) /\ zst' = zst /\ aside' = aside
          /\ overtaken' = overtaken \cup (IF plain[f] \ hot[f] # {} THEN {"clobbered"} ELSE {})
    /\ RestStays
<1>1. /\ job["archiver"].at = "move" /\ IsNext("archiver", f) /\ RestStays /\ zst' = zst /\ aside' = aside
  BY DEF MoveOut, AtStep, RestStays, RowsStay, ClockStays, archiveClock
<1>2. job' \in Jobs /\ Through("archiver", f, "move")
  BY JobThrough DEF MoveOut, ArchiveWorkers, ArchiveSteps
<1>3. CASE hot[f] = {}
  BY <1>1, <1>2, <1>3 DEF MoveOut, NoContent, FilesStay, HotStays, PlainStays
<1>4. CASE hot[f] # {}
  <2>1. MoveFile(hot, plain, f) /\ Clobbers(hot, plain, f)
    BY <1>4 DEF MoveOut, NoContent
  <2>2. Relocated(hot, plain, f)
    BY <2>1 DEF Relocated, MoveFile, ArchiveTypeOK, NoContent
  <2> QED
    BY <1>1, <1>2, <1>4, <2>1, <2>2 DEF Clobbers
<1> QED
  BY <1>3, <1>4

(* A file is moved over no other, for its run has looked. *)
LEMMA MoveOutKeeps ==
  ASSUME ArchiveTypeOK, ArchiveInv, NEW f \in ArchiveFiles, MoveOut(f),
         alone' = FALSE, UNCHANGED fold
  PROVE  ArchiveTypeOK' /\ ArchiveInv'
<1>1. /\ job' \in Jobs
      /\ job["archiver"].at = "move" /\ IsNext("archiver", f) /\ Through("archiver", f, "move")
      /\ \/ hot[f] = {} /\ FilesStay /\ overtaken' = overtaken
         \/ /\ hot[f] # {} /\ Relocated(hot, plain, f) /\ zst' = zst /\ aside' = aside
            /\ overtaken' = overtaken \cup (IF plain[f] \ hot[f] # {} THEN {"clobbered"} ELSE {})
      /\ RestStays
  BY MoveOutDoes
<1>2. ArchiveTypeOK'
  BY <1>1 DEF MoveOut, NoContent, archiveClock, MoveFile, Clobbers, ArchiveTypeOK, Jobs, JobRecords
<1>3. /\ (Uncrossed' => Uncrossed) /\ (LeftAlone' => LeftAlone /\ Uncrossed)
      /\ (Straight' => Straight /\ LeftAlone /\ LeftAlone')
  BY <1>1 DEF Uncrossed, LeftAlone, Straight
<1>4. Places' /\ JournalOpen' /\ OneRecord' /\ AloneMeans' /\ Repairing'
  BY <1>1 DEF ArchiveInv, Places, JournalOpen, OneRecord, AloneMeans, Repairing, Through, FilesStay,
         RestStays, Relocated, IsNext, ArchiveFiles, ArchiveWorkers, Doing, Placing, Compressing,
         SweepSteps, Comparing, Whole, Becomes, HotStays, PlainStays, RowsStay, ClockStays, Located,
         Leftover
<1>5. Uncrossed' => ArchiverOwns' /\ Apart' /\ RepairKeeps' /\ Somewhere'
  BY <1>1, <1>3 DEF ArchiveInv, ArchiverOwns, Apart, RepairKeeps, Somewhere, Through, FilesStay,
         RestStays, Relocated, IsNext, ArchiveFiles, ArchiveWorkers, Doing, SweepFacts, Selected,
         Whole, Becomes, HotStays, PlainStays, RowsStay, ClockStays, Comparing, Compressing, Located
<1>6. Uncrossed' => SweepKeeps'
  BY <1>1, <1>3 DEF ArchiveInv, SweepKeeps, Places, ArchiverOwns, Apart, Through, FilesStay,
         RestStays, Relocated, IsNext, ArchiveFiles, ArchiveWorkers, Doing, Compressing, Placing,
         SweepSteps, SweepFacts, Selected, Becomes, HotStays, PlainStays, RowsStay, ClockStays,
         Comparing, Leftover
<1>7. Uncrossed' => RestoreKeeps'
  BY <1>1, <1>3 DEF ArchiveInv, RestoreKeeps, ArchiverOwns, Places, Through, FilesStay, RestStays,
         Relocated, IsNext, ArchiveFiles, ArchiveWorkers, Doing, Compressing, Placing, SweepSteps,
         Becomes, HotStays, PlainStays, RowsStay, ClockStays, Comparing, Leftover
<1>8. Uncrossed' => LinesKept'
  BY <1>1, <1>3 DEF ArchiveInv, LinesKept, ArchiverOwns, Places, Through, FilesStay, RestStays,
         Relocated, IsNext, ArchiveFiles, ArchiveWorkers, Doing, Placing, Compressing, SweepSteps,
         Becomes, HotStays, PlainStays, RowsStay, ClockStays, Comparing, Leftover
<1>9. LeftAlone' => RestorerOwns' /\ ArchiverRows' /\ RepairFolds'
  BY <1>1, <1>3 DEF ArchiveInv, RestorerOwns, ArchiverRows, RepairFolds, Through, FilesStay,
         RestStays, Relocated, IsNext, ArchiveFiles, ArchiveWorkers, Doing, Placing, Folded,
         Becomes, HotStays, PlainStays, RowsStay, ClockStays, InArchive, NoContent, Leftover
<1>10. LeftAlone' => RowsTell'
  BY <1>1, <1>3 DEF ArchiveInv, RowsTell, Places, ArchiverRows, Through, FilesStay, RestStays,
         Relocated, IsNext, ArchiveFiles, ArchiveWorkers, Doing, Placing, Compressing, SweepSteps,
         Becomes, HotStays, PlainStays, RowsStay, ClockStays, Comparing, Leftover
<1>11. Straight' => RowsAgree'
  BY <1>1, <1>3 DEF ArchiveInv, RowsTell, Places, ArchiverRows, Through, FilesStay, RestStays,
         Relocated, IsNext, ArchiveFiles, ArchiveWorkers, Doing, Placing, Compressing, SweepSteps,
         Becomes, HotStays, PlainStays, RowsStay, ClockStays, Comparing, Leftover, RowsAgree,
         OneRecord
<1> QED
  BY <1>2, <1>3, <1>4, <1>5, <1>6, <1>7, <1>8, <1>9, <1>10, <1>11 DEF ArchiveInv

(* A failed rename is passed over. *)
LEMMA MoveOutFailsKeeps ==
  ASSUME ArchiveTypeOK, ArchiveInv, NEW f \in ArchiveFiles, MoveOutFails(f),
         alone' = FALSE, UNCHANGED fold
  PROVE  ArchiveTypeOK' /\ ArchiveInv'
<1>1. /\ job' \in Jobs
      /\ job["archiver"].at = "move" /\ IsNext("archiver", f) /\ Through("archiver", f, "move")
      /\ FilesStay /\ RestStays /\ overtaken' = overtaken \cup {"skipped"}
  BY JobThrough DEF MoveOutFails, AtStep, FilesStay, HotStays, PlainStays, RowsStay, ClockStays,
         RestStays, archiveFiles, archiveClock, ArchiveWorkers, ArchiveFiles, ArchiveSteps
<1>2. ArchiveTypeOK'
  BY <1>1, SpendTyped DEF MoveOutFails, archiveFiles, archiveClock, ArchiveTypeOK, Jobs,
         JobRecords, Budget
<1>3. /\ (Uncrossed' => Uncrossed) /\ (LeftAlone' => LeftAlone /\ Uncrossed)
      /\ (Straight' => Straight /\ LeftAlone /\ LeftAlone')
  BY <1>1 DEF Uncrossed, LeftAlone, Straight
<1>4. Places' /\ JournalOpen' /\ OneRecord' /\ AloneMeans' /\ Repairing'
  BY <1>1 DEF ArchiveInv, Places, JournalOpen, OneRecord, AloneMeans, Repairing, Through, FilesStay,
         RestStays, IsNext, ArchiveFiles, ArchiveWorkers, Doing, Placing, Compressing, SweepSteps,
         Comparing, Whole, Becomes, HotStays, PlainStays, RowsStay, ClockStays, Located, Leftover
<1>5. Uncrossed' => /\ ArchiverOwns' /\ Apart' /\ SweepKeeps' /\ RestoreKeeps'
                    /\ RepairKeeps' /\ Somewhere' /\ LinesKept'
  BY <1>1, <1>3 DEF ArchiveInv, ArchiverOwns, Apart, SweepKeeps, RestoreKeeps, RepairKeeps,
         Somewhere, LinesKept, Through, FilesStay, RestStays, IsNext, ArchiveFiles, ArchiveWorkers,
         Doing, SweepFacts, Selected, Compressing, Whole, Becomes, HotStays, PlainStays, RowsStay,
         ClockStays, Comparing, Located, Leftover
<1>6. LeftAlone' => RestorerOwns' /\ RowsTell' /\ RepairFolds'
  BY <1>1, <1>3 DEF ArchiveInv, RestorerOwns, RowsTell, RepairFolds, Through, FilesStay, RestStays,
         IsNext, ArchiveFiles, ArchiveWorkers, Doing, Placing, Folded, Becomes, HotStays,
         PlainStays, RowsStay, ClockStays, InArchive, NoContent, Leftover
<1>7. LeftAlone' => ArchiverRows'
  BY <1>1, <1>3 DEF ArchiveInv, ArchiverRows, Through, FilesStay, RestStays, IsNext, ArchiveFiles,
         ArchiveWorkers, Doing, Becomes, HotStays, PlainStays, RowsStay, ClockStays, Uncrossed,
         LeftAlone
<1>8. Straight' => RowsAgree'
  BY <1>1, <1>3 DEF ArchiveInv, RestorerOwns, RowsTell, RepairFolds, Through, FilesStay, RestStays,
         IsNext, ArchiveFiles, ArchiveWorkers, Doing, Placing, Folded, Becomes, HotStays,
         PlainStays, RowsStay, ClockStays, InArchive, NoContent, Leftover, RowsAgree, OneRecord
<1> QED
  BY <1>2, <1>3, <1>4, <1>5, <1>6, <1>7, <1>8 DEF ArchiveInv

(* A restore is planned for files that are in the archive only. *)
LEMMA PlanRestoreDoes ==
  ASSUME ArchiveTypeOK, PlanRestore
  PROVE
    /\ job' \in Jobs
    /\ job["restorer"].at = "idle"
    /\ \A f \in ArchiveFiles : InArchive(f) => hot[f] = {}
    /\ \E f \in ArchiveFiles : InArchive(f)
    /\ Becomes("restorer", "journal", {f \in ArchiveFiles : InArchive(f)}, IF plain["log"] = {} THEN zst ELSE {})
    /\ AllStays
<1> DEFINE files == {f \in ArchiveFiles : InArchive(f)}
           held == IF plain["log"] = {} THEN zst ELSE {}
<1>1. /\ job["restorer"].at = "idle" /\ AllStays
      /\ \A f \in ArchiveFiles : InArchive(f) => hot[f] = {}
      /\ \E f \in ArchiveFiles : InArchive(f)
  BY DEF PlanRestore, AtStep, AllStays, FilesStay, HotStays, PlainStays, RestStays, RowsStay,
         ClockStays, archiveFiles, archiveClock, NoContent
<1>2. "log" \in files /\ plain["log"] = NoContent <=> plain["log"] = {} /\ zst # {}
  BY DEF InArchive, NoContent, ArchiveFiles
<1>3. held = IF "log" \in files /\ plain["log"] = NoContent THEN zst ELSE NoContent
  BY <1>2 DEF NoContent
<1>4. PICK j : j = [at |-> "journal", files |-> files, again |-> FALSE, held |-> held]
  OBVIOUS
<1>5. j \in JobRecords /\ j.at = "journal" /\ j.files = files /\ j.held = held
  BY <1>4 DEF JobRecords, ArchiveSteps, ArchiveTypeOK
<1>6. job' = [job EXCEPT !["restorer"] = j]
  BY <1>3, <1>4 DEF PlanRestore
<1>7. job' \in Jobs /\ Becomes("restorer", "journal", files, held)
  BY <1>5, <1>6, JobSet DEF ArchiveWorkers
<1> QED
  BY <1>1, <1>7

(* A restore is planned for files that are in the archive only. *)
LEMMA PlanRestoreKeeps ==
  ASSUME ArchiveTypeOK, ArchiveInv, PlanRestore, alone' = FALSE, UNCHANGED fold
  PROVE  ArchiveTypeOK' /\ ArchiveInv'
<1>1. /\ job' \in Jobs
      /\ job["restorer"].at = "idle"
      /\ \A f \in ArchiveFiles : InArchive(f) => hot[f] = {}
      /\ \E f \in ArchiveFiles : InArchive(f)
      /\ Becomes("restorer", "journal", {f \in ArchiveFiles : InArchive(f)}, IF plain["log"] = {} THEN zst ELSE {})
      /\ AllStays
  BY PlanRestoreDoes
<1>2. ArchiveTypeOK'
  BY <1>1, SpendTyped DEF PlanRestore, NoContent, ArchiveFiles, archiveFiles, archiveClock,
         ArchiveWorkers, ArchiveTypeOK, Jobs, JobRecords, Budget
<1>3. /\ (Uncrossed' => Uncrossed) /\ (LeftAlone' => LeftAlone /\ Uncrossed)
      /\ (Straight' => Straight /\ LeftAlone /\ LeftAlone')
  BY <1>1 DEF Uncrossed, LeftAlone, Straight, AllStays
<1>4. Places' /\ JournalOpen' /\ OneRecord' /\ AloneMeans' /\ Repairing'
  BY <1>1 DEF ArchiveInv, Places, JournalOpen, OneRecord, AloneMeans, Repairing, Becomes, AllStays,
         InArchive, ArchiveFiles, ArchiveWorkers, Doing, Placing, Compressing, SweepSteps,
         Comparing, Whole, IsNext, FilesStay, RestStays, NoContent, HotStays, PlainStays, RowsStay,
         ClockStays, Located, Leftover
<1>5. Uncrossed' => /\ ArchiverOwns' /\ Apart' /\ SweepKeeps'
                    /\ RepairKeeps' /\ Somewhere' /\ LinesKept'
  BY <1>1, <1>3 DEF ArchiveInv, ArchiverOwns, Apart, SweepKeeps, RepairKeeps, Somewhere, LinesKept,
         Becomes, AllStays, InArchive, ArchiveFiles, ArchiveWorkers, Doing, SweepFacts, Selected,
         Compressing, IsNext, Whole, FilesStay, RestStays, NoContent, Comparing, HotStays,
         PlainStays, RowsStay, ClockStays, Located
<1>6. Uncrossed' => RestoreKeeps'
  BY <1>1, <1>3 DEF ArchiveInv, RestoreKeeps, SweepKeeps, Places, Becomes, AllStays, InArchive,
         ArchiveFiles, ArchiveWorkers, Doing, Compressing, Placing, SweepSteps, FilesStay,
         RestStays, NoContent, Comparing, HotStays, PlainStays, RowsStay, ClockStays, Leftover
<1>7. LeftAlone' => ArchiverRows' /\ RowsTell' /\ RepairFolds'
  BY <1>1, <1>3 DEF ArchiveInv, ArchiverRows, RowsTell, RepairFolds, Becomes, AllStays, InArchive,
         ArchiveFiles, ArchiveWorkers, Doing, Folded, FilesStay, RestStays, NoContent, HotStays,
         PlainStays, RowsStay, ClockStays
<1>8. LeftAlone' => RestorerOwns'
  BY <1>1, <1>3 DEF ArchiveInv, RestorerOwns, Places, ArchiverOwns, Somewhere, RowsTell, NoContent,
         Becomes, AllStays, InArchive, ArchiveFiles, ArchiveWorkers, Doing, Placing, Compressing,
         SweepSteps, Whole, FilesStay, RestStays, Comparing, HotStays, PlainStays, RowsStay,
         ClockStays, Leftover
<1>9. Straight' => RowsAgree'
  BY <1>1, <1>3 DEF ArchiveInv, RowsAgree, Somewhere, Whole, Becomes, AllStays, InArchive,
         ArchiveFiles, ArchiveWorkers, Doing, FilesStay, RestStays, NoContent, HotStays, PlainStays,
         RowsStay, ClockStays
<1> QED
  BY <1>2, <1>3, <1>4, <1>5, <1>6, <1>7, <1>8, <1>9 DEF ArchiveInv

(* The rows of the restore say what will be where. *)
LEMMA JournalRestoreKeeps ==
  ASSUME ArchiveTypeOK, ArchiveInv, JournalRestore, alone' = FALSE, UNCHANGED fold
  PROVE  ArchiveTypeOK' /\ ArchiveInv'
<1>1. /\ job' \in Jobs
      /\ job["restorer"].at = "journal" /\ Goes("restorer", "resolve") /\ graced'
      /\ \A f \in ArchiveFiles : rows'[f] = IF f \in job["restorer"].files THEN "restore" ELSE rows[f]
      /\ FilesStay /\ journal' = journal /\ editor' = editor /\ touched' = touched /\ spoken' = spoken
      /\ overtaken' = overtaken
  BY JobGoes DEF JournalRestore, AtStep, ArchiveFiles, FilesStay, HotStays, PlainStays,
         archiveFiles, WriteRows, Goes, ArchiveWorkers, ArchiveSteps
<1>2. ArchiveTypeOK'
  BY <1>1 DEF JournalRestore, ArchiveFiles, archiveFiles, WriteRows, ArchiveTypeOK, Jobs, JobRecords
<1>3. /\ (Uncrossed' => Uncrossed) /\ (LeftAlone' => LeftAlone /\ Uncrossed)
      /\ (Straight' => Straight /\ LeftAlone /\ LeftAlone')
  BY <1>1 DEF Uncrossed, LeftAlone, Straight
<1>4. Places' /\ JournalOpen' /\ OneRecord' /\ AloneMeans' /\ Repairing'
  BY <1>1 DEF ArchiveInv, Places, JournalOpen, OneRecord, AloneMeans, Repairing, Goes, FilesStay,
         ArchiveFiles, ArchiveWorkers, Doing, Placing, Compressing, SweepSteps, Comparing, Whole,
         IsNext, Becomes, HotStays, PlainStays, Located, Leftover
<1>5. Uncrossed' => /\ ArchiverOwns' /\ Apart' /\ SweepKeeps' /\ RestoreKeeps'
                    /\ RepairKeeps' /\ Somewhere' /\ LinesKept'
  BY <1>1, <1>3 DEF ArchiveInv, ArchiverOwns, Apart, SweepKeeps, RestoreKeeps, RepairKeeps,
         Somewhere, LinesKept, Goes, FilesStay, ArchiveFiles, ArchiveWorkers, Doing, SweepFacts,
         Selected, Compressing, IsNext, Whole, Becomes, HotStays, PlainStays, Comparing, Located,
         Leftover
<1>6. LeftAlone' => RepairFolds'
  BY <1>1, <1>3 DEF ArchiveInv, RepairFolds, Goes, FilesStay, ArchiveFiles, ArchiveWorkers, Folded,
         Doing, Becomes, HotStays, PlainStays, InArchive, NoContent
<1>7. LeftAlone' => RestorerOwns'
  BY <1>1, <1>3 DEF ArchiveInv, RestorerOwns, Places, Goes, FilesStay, ArchiveFiles, ArchiveWorkers,
         Doing, Placing, Compressing, SweepSteps, Becomes, HotStays, PlainStays, Comparing,
         ArchiveTypeOK, Leftover
<1>8. LeftAlone' => ArchiverRows'
  BY <1>1, <1>3 DEF ArchiveInv, ArchiverRows, Places, ArchiverOwns, RestorerOwns, Somewhere,
         RowsTell, NoContent, Goes, FilesStay, ArchiveFiles, ArchiveWorkers, Doing, Placing,
         Compressing, SweepSteps, Whole, Becomes, HotStays, PlainStays, Comparing, Leftover
<1>9. LeftAlone' => RowsTell'
  <2> SUFFICES ASSUME LeftAlone' PROVE RowsTell'
    OBVIOUS
  <2>1. RowsTell /\ RestorerOwns /\ Places
    BY <1>3 DEF ArchiveInv
  <2>2. CASE "log" \in job["restorer"].files
    <3>1. rows'["log"] = "restore"
      BY <1>1, <2>2 DEF ArchiveFiles
    <3> QED
      BY <3>1 DEF RowsTell
  <2>3. CASE "log" \notin job["restorer"].files
    <3>1. job["restorer"].files = {"record"}
      BY <1>1, <2>1, <2>3 DEF Places, Doing, ArchiveTypeOK, ArchiveFiles, ArchiveWorkers
    <3>2. hot["log"] # {}
      BY <1>1, <2>1, <3>1 DEF RestorerOwns, Doing, ArchiveFiles
    <3>3. rows'["log"] = rows["log"]
      BY <1>1, <2>3 DEF ArchiveFiles
    <3> QED
      BY <1>1, <2>1, <3>2, <3>3 DEF RowsTell, FilesStay, HotStays, PlainStays, Goes, Becomes,
             Doing, ArchiveWorkers
  <2> QED
    BY <2>2, <2>3
<1>10. Straight' => RowsAgree'
  <2> SUFFICES ASSUME Straight' PROVE RowsAgree'
    OBVIOUS
  <2>1. RowsAgree /\ RestorerOwns /\ Places
    BY <1>3 DEF ArchiveInv
  <2>2. job'["restorer"].at = "resolve" /\ hot' = hot
    BY <1>1 DEF Goes, Becomes, FilesStay, HotStays
  <2>3. CASE "log" \in job["restorer"].files
    <3>1. rows'["log"] = "restore"
      BY <1>1, <2>3 DEF ArchiveFiles
    <3> QED
      BY <2>2, <3>1 DEF RowsAgree, Doing
  <2>4. CASE "log" \notin job["restorer"].files
    <3>1. job["restorer"].files = {"record"}
      BY <1>1, <2>1, <2>4 DEF Places, Doing, ArchiveTypeOK, ArchiveFiles, ArchiveWorkers
    <3>2. hot["record"] = {} /\ rows["log"] # "archive"
      BY <1>1, <2>1, <3>1 DEF RestorerOwns, RowsAgree, Doing, ArchiveFiles
    <3>3. rows'["log"] = rows["log"]
      BY <1>1, <2>4 DEF ArchiveFiles
    <3> QED
      BY <2>2, <3>2, <3>3 DEF RowsAgree, Doing
  <2> QED
    BY <2>3, <2>4
<1> QED
  BY <1>2, <1>3, <1>4, <1>5, <1>6, <1>7, <1>8, <1>9, <1>10 DEF ArchiveInv

(* A file is looked up again where it will be taken from. *)
LEMMA FindCopyDoes ==
  ASSUME ArchiveTypeOK, NEW f \in ArchiveFiles, FindCopy(f)
  PROVE
    /\ job' \in Jobs
    /\ job["restorer"].at = "resolve" /\ IsNext("restorer", f)
    /\ \/ ~InArchive(f) /\ Through("restorer", f, "resolve")
       \/ plain[f] # {} /\ Goes("restorer", "rename")
       \/ /\ f = "log" /\ plain["log"] = {} /\ zst # {}
          /\ Becomes("restorer", "link", job["restorer"].files,
                     IF job["restorer"].held = {} THEN zst ELSE job["restorer"].held)
    /\ AllStays
<1>1. job["restorer"].at = "resolve" /\ IsNext("restorer", f) /\ AllStays
  BY DEF FindCopy, AtStep, AllStays, FilesStay, HotStays, PlainStays, RestStays, RowsStay,
         ClockStays, archiveFiles, archiveClock
<1>2. CASE ~InArchive(f)
  <2>1. job' \in Jobs /\ Through("restorer", f, "resolve")
    BY <1>2, JobThrough DEF FindCopy, ArchiveWorkers, ArchiveSteps
  <2> QED
    BY <1>1, <1>2, <2>1
<1>3. CASE InArchive(f) /\ plain[f] # {}
  <2>1. PICK j : j = [job["restorer"] EXCEPT !.at = "rename"]
    OBVIOUS
  <2>2. job["restorer"] \in JobRecords
    BY JobsTyped DEF Jobs, ArchiveWorkers
  <2>3. "rename" \in ArchiveSteps
    BY <2>2 DEF ArchiveSteps, JobRecords, ArchiveTypeOK, ArchiveFiles
  <2>4. j \in JobRecords /\ j.at = "rename" /\ j.files = job["restorer"].files /\ j.held = job["restorer"].held
    BY <2>1, <2>2, <2>3 DEF JobRecords
  <2>5. job' = [job EXCEPT !["restorer"] = j]
    BY <1>3, <2>1 DEF FindCopy, NoContent
  <2>6. job' \in Jobs /\ Goes("restorer", "rename")
    BY <2>4, <2>5, JobSet DEF ArchiveWorkers, Goes
  <2> QED
    BY <1>1, <1>3, <2>6
<1>4. CASE InArchive(f) /\ plain[f] = {}
  <2> DEFINE held == IF job["restorer"].held = {} THEN zst ELSE job["restorer"].held
  <2>1. PICK j : j = [job["restorer"] EXCEPT !.at = "link", !.held = held]
    OBVIOUS
  <2>2. job["restorer"] \in JobRecords
    BY JobsTyped DEF Jobs, ArchiveWorkers
  <2>3. "link" \in ArchiveSteps /\ held \in SUBSET (1..MaxLines)
    BY <2>2 DEF ArchiveSteps, JobRecords, ArchiveTypeOK, ArchiveFiles
  <2>4. j \in JobRecords /\ j.at = "link" /\ j.files = job["restorer"].files /\ j.held = held
    BY <2>1, <2>2, <2>3 DEF JobRecords
  <2>5. job' = [job EXCEPT !["restorer"] = j]
    BY <1>4, <2>1 DEF FindCopy, NoContent
  <2>6. job' \in Jobs /\ Becomes("restorer", "link", job["restorer"].files, held)
    BY <2>4, <2>5, JobSet DEF ArchiveWorkers
  <2>7. f = "log" /\ plain["log"] = {} /\ zst # {}
    BY <1>4 DEF InArchive, NoContent
  <2> QED
    BY <1>1, <2>6, <2>7
<1> QED
  BY <1>2, <1>3, <1>4

(* A file is looked up again where it will be taken from. *)
LEMMA FindCopyKeeps ==
  ASSUME ArchiveTypeOK, ArchiveInv, NEW f \in ArchiveFiles, FindCopy(f),
         alone' = FALSE, UNCHANGED fold
  PROVE  ArchiveTypeOK' /\ ArchiveInv'
<1>1. /\ job' \in Jobs
      /\ job["restorer"].at = "resolve" /\ IsNext("restorer", f)
      /\ \/ ~InArchive(f) /\ Through("restorer", f, "resolve")
         \/ plain[f] # {} /\ Goes("restorer", "rename")
         \/ /\ f = "log" /\ plain["log"] = {} /\ zst # {}
            /\ Becomes("restorer", "link", job["restorer"].files,
                       IF job["restorer"].held = {} THEN zst ELSE job["restorer"].held)
      /\ AllStays
  BY FindCopyDoes
<1>2. ArchiveTypeOK'
  BY <1>1 DEF FindCopy, NoContent, archiveFiles, archiveClock, ArchiveWorkers, ArchiveTypeOK, Jobs,
         JobRecords
<1>3. /\ (Uncrossed' => Uncrossed) /\ (LeftAlone' => LeftAlone /\ Uncrossed)
      /\ (Straight' => Straight /\ LeftAlone /\ LeftAlone')
  BY <1>1 DEF Uncrossed, LeftAlone, Straight, AllStays
<1>4. Places' /\ JournalOpen' /\ OneRecord' /\ AloneMeans' /\ Repairing'
  BY <1>1 DEF ArchiveInv, Places, JournalOpen, OneRecord, AloneMeans, Repairing, Becomes, Goes,
         Through, AllStays, InArchive, IsNext, ArchiveFiles, ArchiveWorkers, Doing, Placing,
         Compressing, SweepSteps, Comparing, Whole, FilesStay, RestStays, NoContent, HotStays,
         PlainStays, RowsStay, ClockStays, Located, Leftover
<1>5. Uncrossed' => /\ ArchiverOwns' /\ Apart' /\ SweepKeeps'
                    /\ RepairKeeps' /\ Somewhere' /\ LinesKept'
  BY <1>1, <1>3 DEF ArchiveInv, ArchiverOwns, Apart, SweepKeeps, RepairKeeps, Somewhere, LinesKept,
         Becomes, Goes, Through, AllStays, InArchive, IsNext, ArchiveFiles, ArchiveWorkers, Doing,
         SweepFacts, Selected, Compressing, Whole, FilesStay, RestStays, NoContent, Comparing,
         HotStays, PlainStays, RowsStay, ClockStays, Located
<1>6. Uncrossed' => RestoreKeeps'
  BY <1>1, <1>3 DEF ArchiveInv, RestoreKeeps, SweepKeeps, Places, Becomes, Goes, Through, AllStays,
         InArchive, IsNext, ArchiveFiles, ArchiveWorkers, Doing, Compressing, Placing, SweepSteps,
         FilesStay, RestStays, NoContent, Comparing, HotStays, PlainStays, RowsStay, ClockStays,
         Leftover
<1>7. LeftAlone' => RestorerOwns' /\ ArchiverRows' /\ RowsTell' /\ RepairFolds'
  BY <1>1, <1>3 DEF ArchiveInv, RestorerOwns, ArchiverRows, RowsTell, RepairFolds, Becomes, Goes,
         Through, AllStays, InArchive, IsNext, ArchiveFiles, ArchiveWorkers, Doing, Placing, Folded,
         FilesStay, RestStays, NoContent, HotStays, PlainStays, RowsStay, ClockStays, Leftover
<1>8. Straight' => RowsAgree'
  BY <1>1, <1>3 DEF ArchiveInv, RestorerOwns, ArchiverRows, RowsTell, RepairFolds, Becomes, Goes,
         Through, AllStays, InArchive, IsNext, ArchiveFiles, ArchiveWorkers, Doing, Placing, Folded,
         FilesStay, RestStays, NoContent, HotStays, PlainStays, RowsStay, ClockStays, Leftover,
         RowsAgree, OneRecord
<1> QED
  BY <1>2, <1>3, <1>4, <1>5, <1>6, <1>7, <1>8 DEF ArchiveInv

(* What was missing is looked up once more, or passed over. *)
LEMMA JobAgain ==
  ASSUME ArchiveTypeOK, NEW f \in ArchiveFiles, ResolveAgain(f)
  PROVE  /\ job' \in Jobs
         /\ \/ Through("restorer", f, "resolve")
            \/ Becomes("restorer", "resolve", job["restorer"].files, {})
<1>1. CASE job["restorer"].again
  BY <1>1, JobThrough DEF ResolveAgain, ArchiveWorkers, ArchiveSteps
<1>2. CASE ~job["restorer"].again
  <2>1. job' \in Jobs /\ Becomes("restorer", "resolve", job["restorer"].files, {})
    BY <1>2, JobsTyped DEF ResolveAgain, Jobs, JobRecords, ArchiveSteps, ArchiveWorkers, Becomes,
           NoContent
  <2> QED
    BY <2>1
<1> QED
  BY <1>1, <1>2

(* A plain form is renamed into place. *)
LEMMA PlaceByRenameDoes ==
  ASSUME ArchiveTypeOK, NEW f \in ArchiveFiles, PlaceByRename(f)
  PROVE
    /\ job' \in Jobs
    /\ job["restorer"].at = "rename" /\ IsNext("restorer", f)
    /\ \/ /\ plain[f] = {} /\ FilesStay /\ overtaken' = overtaken
          /\ \/ Through("restorer", f, "resolve")
             \/ Becomes("restorer", "resolve", job["restorer"].files, {})
       \/ /\ plain[f] # {} /\ Relocated(plain, hot, f) /\ zst' = zst /\ aside' = aside
          /\ overtaken' = overtaken \cup (IF hot[f] \ plain[f] # {} THEN {"clobbered"} ELSE {})
          /\ \/ f = "log" /\ Goes("restorer", "settle")
             \/ f # "log" /\ Through("restorer", f, "resolve")
    /\ RestStays
<1>1. job["restorer"].at = "rename" /\ IsNext("restorer", f) /\ RestStays /\ zst' = zst /\ aside' = aside
  BY DEF PlaceByRename, AtStep, RestStays, RowsStay, ClockStays, archiveClock
<1>2. CASE plain[f] = {}
  <2>1. FilesStay /\ overtaken' = overtaken /\ ResolveAgain(f)
    BY <1>1, <1>2 DEF PlaceByRename, NoContent, FilesStay, HotStays, PlainStays
  <2> QED
    BY <1>1, <1>2, <2>1, JobAgain
<1>3. CASE plain[f] # {}
  <2>1. Relocated(plain, hot, f)
    BY <1>3 DEF PlaceByRename, Relocated, MoveFile, ArchiveTypeOK, NoContent, ArchiveFiles
  <2>2. overtaken' = overtaken \cup (IF hot[f] \ plain[f] # {} THEN {"clobbered"} ELSE {})
    BY <1>3 DEF PlaceByRename, Clobbers, NoContent
  <2>3. /\ job' \in Jobs
        /\ \/ f = "log" /\ Goes("restorer", "settle")
           \/ f # "log" /\ Through("restorer", f, "resolve")
    BY <1>3, JobGoes, JobThrough DEF PlaceByRename, NoContent, ArchiveWorkers, ArchiveSteps
  <2> QED
    BY <1>1, <1>3, <2>1, <2>2, <2>3
<1> QED
  BY <1>2, <1>3

(* A plain form is renamed into place. *)
LEMMA PlaceByRenameKeeps ==
  ASSUME ArchiveTypeOK, ArchiveInv, NEW f \in ArchiveFiles, PlaceByRename(f),
         alone' = FALSE, UNCHANGED fold
  PROVE  ArchiveTypeOK' /\ ArchiveInv'
<1>1. /\ job' \in Jobs
      /\ job["restorer"].at = "rename" /\ IsNext("restorer", f)
      /\ \/ /\ plain[f] = {} /\ FilesStay /\ overtaken' = overtaken
            /\ \/ Through("restorer", f, "resolve")
               \/ Becomes("restorer", "resolve", job["restorer"].files, {})
         \/ /\ plain[f] # {} /\ Relocated(plain, hot, f) /\ zst' = zst /\ aside' = aside
            /\ overtaken' = overtaken \cup (IF hot[f] \ plain[f] # {} THEN {"clobbered"} ELSE {})
            /\ \/ f = "log" /\ Goes("restorer", "settle")
               \/ f # "log" /\ Through("restorer", f, "resolve")
      /\ RestStays
  BY PlaceByRenameDoes
<1>2. ArchiveTypeOK'
  BY <1>1 DEF PlaceByRename, NoContent, archiveClock, MoveFile, Clobbers, ArchiveTypeOK, Jobs,
         JobRecords
<1>3. /\ (Uncrossed' => Uncrossed) /\ (LeftAlone' => LeftAlone /\ Uncrossed)
      /\ (Straight' => Straight /\ LeftAlone /\ LeftAlone')
  BY <1>1 DEF Uncrossed, LeftAlone, Straight
<1>4. Places' /\ JournalOpen' /\ OneRecord' /\ AloneMeans' /\ Repairing'
  BY <1>1 DEF ArchiveInv, Places, JournalOpen, OneRecord, AloneMeans, Repairing, Becomes, Goes,
         Through, FilesStay, RestStays, Relocated, IsNext, ArchiveFiles, ArchiveWorkers, Doing,
         Placing, Compressing, SweepSteps, Comparing, Whole, HotStays, PlainStays, RowsStay,
         ClockStays, Located, Leftover
<1>5. Uncrossed' => ArchiverOwns' /\ RestoreKeeps' /\ RepairKeeps' /\ Somewhere'
  BY <1>1, <1>3 DEF ArchiveInv, ArchiverOwns, RestoreKeeps, RepairKeeps, Somewhere, Becomes, Goes,
         Through, FilesStay, RestStays, Relocated, IsNext, ArchiveFiles, ArchiveWorkers, Doing,
         Compressing, Whole, HotStays, PlainStays, RowsStay, ClockStays, Located, Leftover
<1>6. Uncrossed' => Apart'
  BY <1>1, <1>3 DEF ArchiveInv, Apart, ArchiverOwns, Places, Becomes, Goes, Through, FilesStay,
         RestStays, Relocated, IsNext, ArchiveFiles, ArchiveWorkers, SweepFacts, Selected, Doing,
         Placing, Compressing, SweepSteps, HotStays, PlainStays, RowsStay, ClockStays, Comparing,
         Leftover
<1>7. Uncrossed' => SweepKeeps'
  BY <1>1, <1>3 DEF ArchiveInv, SweepKeeps, Places, AloneMeans, Becomes, Goes, Through, FilesStay,
         RestStays, Relocated, IsNext, ArchiveFiles, ArchiveWorkers, Doing, Compressing, Placing,
         SweepSteps, HotStays, PlainStays, RowsStay, ClockStays, Comparing, Uncrossed, Leftover
<1>8. Uncrossed' => LinesKept'
  BY <1>1, <1>3 DEF ArchiveInv, LinesKept, Places, AloneMeans, Becomes, Goes, Through, FilesStay,
         RestStays, Relocated, IsNext, ArchiveFiles, ArchiveWorkers, Doing, Placing, Compressing,
         SweepSteps, HotStays, PlainStays, RowsStay, ClockStays, Comparing, Uncrossed, Leftover
<1>9. LeftAlone' => RestorerOwns' /\ RepairFolds'
  BY <1>1, <1>3 DEF ArchiveInv, RestorerOwns, RepairFolds, Becomes, Goes, Through, FilesStay,
         RestStays, Relocated, IsNext, ArchiveFiles, ArchiveWorkers, Doing, Placing, Folded,
         HotStays, PlainStays, RowsStay, ClockStays, InArchive, NoContent, Leftover
<1>10. LeftAlone' => ArchiverRows'
  BY <1>1, <1>3 DEF ArchiveInv, ArchiverRows, Places, RowsTell, RestorerOwns, Becomes, Goes,
         Through, FilesStay, RestStays, Relocated, IsNext, ArchiveFiles, ArchiveWorkers, Doing,
         Placing, Compressing, SweepSteps, HotStays, PlainStays, RowsStay, ClockStays, Comparing,
         Leftover
<1>11. LeftAlone' => RowsTell'
  BY <1>1, <1>3 DEF ArchiveInv, RowsTell, Places, RestorerOwns, Becomes, Goes, Through, FilesStay,
         RestStays, Relocated, IsNext, ArchiveFiles, ArchiveWorkers, Doing, Placing, Compressing,
         SweepSteps, HotStays, PlainStays, RowsStay, ClockStays, Comparing, Leftover
<1>12. Straight' => RowsAgree'
  BY <1>1, <1>3 DEF ArchiveInv, RowsTell, Places, RestorerOwns, Becomes, Goes, Through, FilesStay,
         RestStays, Relocated, IsNext, ArchiveFiles, ArchiveWorkers, Doing, Placing, Compressing,
         SweepSteps, HotStays, PlainStays, RowsStay, ClockStays, Comparing, Leftover, RowsAgree,
         OneRecord
<1> QED
  BY <1>2, <1>3, <1>4, <1>5, <1>6, <1>7, <1>8, <1>9, <1>10, <1>11, <1>12 DEF ArchiveInv

(* The compressed form beside a plain one is read. *)
LEMMA ReadLeftoverKeeps ==
  ASSUME ArchiveTypeOK, ArchiveInv, ReadLeftover, alone' = FALSE, UNCHANGED fold
  PROVE  ArchiveTypeOK' /\ ArchiveInv'
<1>1. /\ job' \in Jobs /\ job["restorer"].at = "settle"
      /\ \/ zst = {} /\ Through("restorer", "log", "resolve")
         \/ zst # {} /\ Becomes("restorer", "verdict", job["restorer"].files, zst)
      /\ AllStays
  <2>1. job["restorer"].at = "settle" /\ AllStays
    BY DEF ReadLeftover, AtStep, AllStays, FilesStay, HotStays, PlainStays, RestStays, RowsStay,
           ClockStays, archiveFiles, archiveClock
  <2>2. CASE zst = {}
    BY <2>1, <2>2, JobThrough DEF ReadLeftover, NoContent, ArchiveWorkers, ArchiveFiles, ArchiveSteps
  <2>3. CASE zst # {}
    <3>1. job' \in Jobs /\ Becomes("restorer", "verdict", job["restorer"].files, zst)
      BY <2>3, JobsTyped DEF ReadLeftover, NoContent, Jobs, JobRecords, ArchiveSteps,
             ArchiveWorkers, ArchiveTypeOK, Becomes
    <3> QED
      BY <2>1, <2>3, <3>1
  <2> QED
    BY <2>2, <2>3
<1>2. ArchiveTypeOK'
  BY <1>1 DEF ReadLeftover, archiveFiles, archiveClock, ArchiveTypeOK, Jobs, JobRecords
<1>3. /\ (Uncrossed' => Uncrossed) /\ (LeftAlone' => LeftAlone /\ Uncrossed)
      /\ (Straight' => Straight /\ LeftAlone /\ LeftAlone')
  BY <1>1 DEF Uncrossed, LeftAlone, Straight, AllStays
<1>4. Places' /\ JournalOpen' /\ OneRecord' /\ AloneMeans' /\ Repairing'
  BY <1>1 DEF ArchiveInv, Places, JournalOpen, OneRecord, AloneMeans, Repairing, Goes, Becomes,
         Through, AllStays, ArchiveFiles, ArchiveWorkers, Doing, Placing, Leftover, Compressing,
         SweepSteps, Comparing, Whole, Located, FilesStay, RestStays, HotStays, PlainStays,
         RowsStay, ClockStays
<1>5. Uncrossed' => /\ ArchiverOwns' /\ Apart' /\ SweepKeeps'
                    /\ RepairKeeps' /\ Somewhere' /\ LinesKept'
  BY <1>1, <1>3 DEF ArchiveInv, ArchiverOwns, Apart, SweepKeeps, RepairKeeps, Somewhere, LinesKept,
         Goes, Becomes, Through, AllStays, Located, ArchiveFiles, ArchiveWorkers, Doing, SweepFacts,
         Selected, Compressing, Whole, FilesStay, RestStays, Comparing, HotStays, PlainStays,
         RowsStay, ClockStays
<1>6. Uncrossed' => RestoreKeeps'
  BY <1>1, <1>3 DEF ArchiveInv, RestoreKeeps, SweepKeeps, Places, Goes, Becomes, Through, AllStays,
         ArchiveFiles, ArchiveWorkers, Doing, Compressing, Placing, Leftover, SweepSteps, FilesStay,
         RestStays, Comparing, HotStays, PlainStays, RowsStay, ClockStays
<1>7. LeftAlone' => RestorerOwns' /\ ArchiverRows' /\ RowsTell' /\ RepairFolds'
  BY <1>1, <1>3 DEF ArchiveInv, RestorerOwns, ArchiverRows, RowsTell, RepairFolds, Goes, Becomes,
         Through, AllStays, InArchive, ArchiveFiles, ArchiveWorkers, Doing, Placing, Leftover,
         Folded, FilesStay, RestStays, NoContent, HotStays, PlainStays, RowsStay, ClockStays
<1>8. Straight' => RowsAgree'
  BY <1>1, <1>3 DEF ArchiveInv, RowsAgree, Goes, Becomes, Through, AllStays, ArchiveFiles,
         ArchiveWorkers, Doing, FilesStay, RestStays, HotStays, PlainStays, RowsStay, ClockStays
<1> QED
  BY <1>2, <1>3, <1>4, <1>5, <1>6, <1>7, <1>8 DEF ArchiveInv

(* It is compared with what has been placed. *)
LEMMA LeftoverVerdictKeeps ==
  ASSUME ArchiveTypeOK, ArchiveInv, LeftoverVerdict, alone' = FALSE, UNCHANGED fold
  PROVE  ArchiveTypeOK' /\ ArchiveInv'
<1>1. /\ job' \in Jobs /\ job["restorer"].at = "verdict"
      /\ \/ Through("restorer", "log", "resolve")
         \/ Becomes("restorer", "resolve", job["restorer"].files, {})
         \/ hot["log"] = job["restorer"].held /\ Goes("restorer", "dropZst")
         \/ Goes("restorer", "setAside")
      /\ AllStays
  <2>1. job["restorer"].at = "verdict" /\ AllStays
    BY DEF LeftoverVerdict, AtStep, AllStays, FilesStay, HotStays, PlainStays, RestStays, RowsStay,
           ClockStays, archiveFiles, archiveClock
  <2>2. CASE hot["log"] = {}
    BY <2>1, <2>2, JobAgain DEF LeftoverVerdict, NoContent, ArchiveFiles
  <2>3. CASE hot["log"] # {}
    BY <2>1, <2>3, JobGoes DEF LeftoverVerdict, NoContent, ArchiveWorkers, ArchiveSteps
  <2> QED
    BY <2>2, <2>3
<1>2. ArchiveTypeOK'
  BY <1>1 DEF LeftoverVerdict, archiveFiles, archiveClock, ArchiveTypeOK, Jobs, JobRecords
<1>3. /\ (Uncrossed' => Uncrossed) /\ (LeftAlone' => LeftAlone /\ Uncrossed)
      /\ (Straight' => Straight /\ LeftAlone /\ LeftAlone')
  BY <1>1 DEF Uncrossed, LeftAlone, Straight, AllStays
<1>4. Places' /\ JournalOpen' /\ OneRecord' /\ AloneMeans' /\ Repairing'
  BY <1>1 DEF ArchiveInv, Places, JournalOpen, OneRecord, AloneMeans, Repairing, Goes, Becomes,
         Through, AllStays, ArchiveFiles, ArchiveWorkers, Doing, Placing, Leftover, Compressing,
         SweepSteps, Comparing, Whole, Located, FilesStay, RestStays, HotStays, PlainStays,
         RowsStay, ClockStays
<1>5. Uncrossed' => /\ ArchiverOwns' /\ Apart' /\ SweepKeeps'
                    /\ RepairKeeps' /\ Somewhere' /\ LinesKept'
  BY <1>1, <1>3 DEF ArchiveInv, ArchiverOwns, Apart, SweepKeeps, RepairKeeps, Somewhere, LinesKept,
         Goes, Becomes, Through, AllStays, Located, ArchiveFiles, ArchiveWorkers, Doing, SweepFacts,
         Selected, Compressing, Whole, FilesStay, RestStays, Comparing, HotStays, PlainStays,
         RowsStay, ClockStays
<1>6. Uncrossed' => RestoreKeeps'
  BY <1>1, <1>3 DEF ArchiveInv, RestoreKeeps, SweepKeeps, Places, Goes, Becomes, Through, AllStays,
         ArchiveFiles, ArchiveWorkers, Doing, Compressing, Placing, Leftover, SweepSteps, FilesStay,
         RestStays, Comparing, HotStays, PlainStays, RowsStay, ClockStays
<1>7. LeftAlone' => RestorerOwns' /\ ArchiverRows' /\ RowsTell' /\ RepairFolds'
  BY <1>1, <1>3 DEF ArchiveInv, RestorerOwns, ArchiverRows, RowsTell, RepairFolds, Goes, Becomes,
         Through, AllStays, InArchive, ArchiveFiles, ArchiveWorkers, Doing, Placing, Leftover,
         Folded, FilesStay, RestStays, NoContent, HotStays, PlainStays, RowsStay, ClockStays
<1>8. Straight' => RowsAgree'
  BY <1>1, <1>3 DEF ArchiveInv, RowsAgree, Goes, Becomes, Through, AllStays, ArchiveFiles,
         ArchiveWorkers, Doing, FilesStay, RestStays, HotStays, PlainStays, RowsStay, ClockStays
<1> QED
  BY <1>2, <1>3, <1>4, <1>5, <1>6, <1>7, <1>8 DEF ArchiveInv

(* It goes or is put aside. *)
LEMMA TakeLeftoverKeeps ==
  ASSUME ArchiveTypeOK, ArchiveInv, DropLeftover \/ PutLeftoverAside, alone' = FALSE, UNCHANGED fold
  PROVE  ArchiveTypeOK' /\ ArchiveInv'
<1>1. /\ job' \in Jobs
      /\ \/ Through("restorer", "log", "resolve")
         \/ Becomes("restorer", "resolve", job["restorer"].files, {})
      /\ \/ job["restorer"].at = "dropZst" /\ aside' = aside
         \/ job["restorer"].at = "setAside" /\ aside' = aside \cup zst
      /\ zst' = {} /\ HotStays /\ PlainStays /\ RestStays /\ overtaken' = overtaken
  BY JobAgain, JobThrough DEF DropLeftover, PutLeftoverAside, TakeLeftover, AtStep, NoContent,
         HotStays, PlainStays, RowsStay, ClockStays, RestStays, archiveClock, ArchiveWorkers,
         ArchiveFiles, ArchiveSteps
<1>2. ArchiveTypeOK'
  BY <1>1 DEF DropLeftover, PutLeftoverAside, TakeLeftover, archiveClock, ArchiveTypeOK, Jobs,
         JobRecords
<1>3. /\ (Uncrossed' => Uncrossed) /\ (LeftAlone' => LeftAlone /\ Uncrossed)
      /\ (Straight' => Straight /\ LeftAlone /\ LeftAlone')
  BY <1>1 DEF Uncrossed, LeftAlone, Straight
<1>4. Places' /\ JournalOpen' /\ OneRecord' /\ AloneMeans' /\ Repairing'
  BY <1>1 DEF ArchiveInv, Places, JournalOpen, OneRecord, AloneMeans, Repairing, Through, HotStays,
         PlainStays, RestStays, ArchiveFiles, ArchiveWorkers, Doing, Placing, Leftover, Compressing,
         SweepSteps, Comparing, Whole, Becomes, RowsStay, ClockStays, Located
<1>5. Uncrossed' => ArchiverOwns' /\ RestoreKeeps' /\ RepairKeeps' /\ LinesKept'
  BY <1>1, <1>3 DEF ArchiveInv, ArchiverOwns, RestoreKeeps, RepairKeeps, LinesKept, Places, Through,
         HotStays, PlainStays, RestStays, ArchiveFiles, ArchiveWorkers, Doing, Compressing, Leftover,
         Becomes, RowsStay, ClockStays, Located
<1>6. Uncrossed' => Apart'
  BY <1>1, <1>3 DEF ArchiveInv, Apart, ArchiverOwns, Places, Through, HotStays, PlainStays,
         RestStays, ArchiveFiles, ArchiveWorkers, SweepFacts, Selected, Doing, Placing, Leftover,
         Compressing, SweepSteps, Becomes, RowsStay, ClockStays, Comparing
<1>7. Uncrossed' => SweepKeeps'
  BY <1>1, <1>3 DEF ArchiveInv, SweepKeeps, Places, RestoreKeeps, Through, HotStays, PlainStays,
         RestStays, ArchiveFiles, ArchiveWorkers, Doing, Compressing, Placing, Leftover, SweepSteps,
         Becomes, RowsStay, ClockStays, Comparing
<1>8. Uncrossed' => Somewhere'
  BY <1>1, <1>3 DEF ArchiveInv, Somewhere, Places, SweepKeeps, RestoreKeeps, Through, HotStays,
         PlainStays, RestStays, ArchiveFiles, ArchiveWorkers, Whole, Doing, Placing, Leftover,
         Compressing, SweepSteps, Becomes, RowsStay, ClockStays, Comparing
<1>9. LeftAlone' => RestorerOwns' /\ ArchiverRows' /\ RowsTell' /\ RepairFolds'
  BY <1>1, <1>3 DEF ArchiveInv, RestorerOwns, ArchiverRows, RowsTell, RepairFolds, Through,
         HotStays, PlainStays, RestStays, ArchiveFiles, ArchiveWorkers, Doing, Placing, Leftover,
         Folded, Becomes, RowsStay, ClockStays, InArchive, NoContent
<1>10. Straight' => RowsAgree'
  BY <1>1, <1>3 DEF ArchiveInv, RowsAgree, Through, HotStays, PlainStays, RestStays, ArchiveFiles,
         ArchiveWorkers, Doing, Becomes, RowsStay, ClockStays
<1> QED
  BY <1>2, <1>3, <1>4, <1>5, <1>6, <1>7, <1>8, <1>9, <1>10 DEF ArchiveInv

(* A compressed form is linked into place, if nothing is there. *)
LEMMA PlaceByLinkKeeps ==
  ASSUME ArchiveTypeOK, ArchiveInv, NEW f \in ArchiveFiles, PlaceByLink(f),
         alone' = FALSE, UNCHANGED fold
  PROVE  ArchiveTypeOK' /\ ArchiveInv'
<1>1. /\ job' \in Jobs
      /\ job["restorer"].at = "link" /\ IsNext("restorer", f)
      /\ \/ hot[f] # {} /\ Through("restorer", f, "resolve") /\ HotStays
         \/ /\ hot[f] = {} /\ Goes("restorer", "retire")
            /\ \A g \in ArchiveFiles : hot'[g] = IF g = f THEN job["restorer"].held ELSE hot[g]
      /\ PlainStays /\ zst' = zst /\ aside' = aside /\ RestStays /\ overtaken' = overtaken
  BY JobGoes, JobThrough DEF PlaceByLink, AtStep, NoContent, ArchiveFiles, HotStays, PlainStays,
         RowsStay, ClockStays, RestStays, archiveClock, Goes, ArchiveWorkers, ArchiveSteps,
         ArchiveTypeOK
<1>2. ArchiveTypeOK'
  <2>1. hot' \in [ArchiveFiles -> SUBSET (1..MaxLines)] /\ plain' \in [ArchiveFiles -> SUBSET (1..MaxLines)]
    BY DEF PlaceByLink, NoContent, ArchiveWorkers, ArchiveTypeOK
  <2> QED
    BY <1>1, <2>1 DEF PlaceByLink, NoContent, archiveClock, ArchiveWorkers, ArchiveTypeOK, Jobs,
           JobRecords
<1>3. /\ (Uncrossed' => Uncrossed) /\ (LeftAlone' => LeftAlone /\ Uncrossed)
      /\ (Straight' => Straight /\ LeftAlone /\ LeftAlone')
  BY <1>1 DEF Uncrossed, LeftAlone, Straight
<1>4. Places' /\ JournalOpen' /\ AloneMeans' /\ Repairing'
  BY <1>1 DEF ArchiveInv, Places, JournalOpen, AloneMeans, Repairing, Goes, Through, HotStays,
         PlainStays, RestStays, IsNext, ArchiveFiles, ArchiveWorkers, Doing, Placing, Compressing,
         SweepSteps, Comparing, Whole, Becomes, RowsStay, ClockStays, Located, Leftover
<1>5. OneRecord'
  BY <1>1 DEF ArchiveInv, OneRecord, Places, Goes, Through, HotStays, PlainStays, RestStays, IsNext,
         ArchiveFiles, ArchiveWorkers, Doing, Placing, Compressing, SweepSteps, Becomes, RowsStay,
         ClockStays, Comparing, Leftover
<1>6. Uncrossed' => /\ ArchiverOwns' /\ SweepKeeps' /\ RestoreKeeps'
                    /\ RepairKeeps' /\ Somewhere' /\ LinesKept'
  BY <1>1, <1>3 DEF ArchiveInv, ArchiverOwns, SweepKeeps, RestoreKeeps, RepairKeeps, Somewhere,
         LinesKept, Goes, Through, HotStays, PlainStays, RestStays, IsNext, ArchiveFiles,
         ArchiveWorkers, Doing, Compressing, Whole, Becomes, RowsStay, ClockStays, Located, Leftover
<1>7. Uncrossed' => Apart'
  BY <1>1, <1>3 DEF ArchiveInv, Apart, Places, Goes, Through, HotStays, PlainStays, RestStays,
         IsNext, ArchiveFiles, ArchiveWorkers, SweepFacts, Selected, Doing, Placing, Compressing,
         SweepSteps, Becomes, RowsStay, ClockStays, Comparing, Leftover
<1>8. LeftAlone' => RestorerOwns' /\ RepairFolds'
  BY <1>1, <1>3 DEF ArchiveInv, RestorerOwns, RepairFolds, Goes, Through, HotStays, PlainStays,
         RestStays, IsNext, ArchiveFiles, ArchiveWorkers, Doing, Placing, Folded, Becomes, RowsStay,
         ClockStays, InArchive, NoContent, Leftover
<1>9. LeftAlone' => ArchiverRows'
  BY <1>1, <1>3 DEF ArchiveInv, ArchiverRows, Places, RowsTell, RestorerOwns, Goes, Through,
         HotStays, PlainStays, RestStays, IsNext, ArchiveFiles, ArchiveWorkers, Doing, Placing,
         Compressing, SweepSteps, Becomes, RowsStay, ClockStays, Comparing, Leftover
<1>10. LeftAlone' => RowsTell'
  BY <1>1, <1>3 DEF ArchiveInv, RowsTell, Places, RestorerOwns, Goes, Through, HotStays, PlainStays,
         RestStays, IsNext, ArchiveFiles, ArchiveWorkers, Doing, Placing, Compressing, SweepSteps,
         Becomes, RowsStay, ClockStays, Comparing, Leftover
<1>11. Straight' => RowsAgree'
  BY <1>1, <1>3 DEF ArchiveInv, RowsTell, Places, RestorerOwns, Goes, Through, HotStays, PlainStays,
         RestStays, IsNext, ArchiveFiles, ArchiveWorkers, Doing, Placing, Compressing, SweepSteps,
         Becomes, RowsStay, ClockStays, Comparing, Leftover, RowsAgree, OneRecord
<1> QED
  BY <1>2, <1>3, <1>4, <1>5, <1>6, <1>7, <1>8, <1>9, <1>10, <1>11 DEF ArchiveInv

(* The compressed form of what was linked goes. *)
LEMMA RetireAfterLinkKeeps ==
  ASSUME ArchiveTypeOK, ArchiveInv, RetireAfterLink, alone' = FALSE, UNCHANGED fold
  PROVE  ArchiveTypeOK' /\ ArchiveInv'
<1>1. /\ job' \in Jobs
      /\ job["restorer"].at = "retire" /\ Through("restorer", "log", "resolve") /\ zst' = {}
      /\ HotStays /\ PlainStays /\ aside' = aside /\ RestStays /\ overtaken' = overtaken
  BY JobThrough DEF RetireAfterLink, AtStep, NoContent, HotStays, PlainStays, RowsStay, ClockStays,
         RestStays, archiveClock, ArchiveWorkers, ArchiveFiles, ArchiveSteps
<1>2. ArchiveTypeOK'
  BY <1>1 DEF RetireAfterLink, NoContent, archiveClock, ArchiveTypeOK, Jobs, JobRecords
<1>3. /\ (Uncrossed' => Uncrossed) /\ (LeftAlone' => LeftAlone /\ Uncrossed)
      /\ (Straight' => Straight /\ LeftAlone /\ LeftAlone')
  BY <1>1 DEF Uncrossed, LeftAlone, Straight
<1>4. Places' /\ JournalOpen' /\ OneRecord' /\ AloneMeans' /\ Repairing'
  BY <1>1 DEF ArchiveInv, Places, JournalOpen, OneRecord, AloneMeans, Repairing, Through, HotStays,
         PlainStays, RestStays, ArchiveFiles, ArchiveWorkers, Doing, Placing, Compressing,
         SweepSteps, Comparing, Whole, IsNext, Becomes, RowsStay, ClockStays, Located, Leftover
<1>5. Uncrossed' => ArchiverOwns' /\ RestoreKeeps' /\ RepairKeeps'
  BY <1>1, <1>3 DEF ArchiveInv, ArchiverOwns, RestoreKeeps, RepairKeeps, Through, HotStays,
         PlainStays, RestStays, ArchiveFiles, ArchiveWorkers, Doing, Compressing, IsNext, Becomes,
         RowsStay, ClockStays, Located, Leftover
<1>6. Uncrossed' => Apart'
  BY <1>1, <1>3 DEF ArchiveInv, Apart, ArchiverOwns, Places, Through, HotStays, PlainStays,
         RestStays, ArchiveFiles, ArchiveWorkers, SweepFacts, Selected, Doing, Placing, Compressing,
         SweepSteps, Becomes, RowsStay, ClockStays, Comparing, Leftover
<1>7. Uncrossed' => SweepKeeps'
  BY <1>1, <1>3 DEF ArchiveInv, SweepKeeps, Places, RestoreKeeps, Through, HotStays, PlainStays,
         RestStays, ArchiveFiles, ArchiveWorkers, Doing, Compressing, Placing, SweepSteps, Becomes,
         RowsStay, ClockStays, Comparing, Leftover
<1>8. Uncrossed' => Somewhere'
  BY <1>1, <1>3 DEF ArchiveInv, Somewhere, Places, SweepKeeps, RestoreKeeps, Through, HotStays,
         PlainStays, RestStays, ArchiveFiles, ArchiveWorkers, Whole, Doing, Placing, Compressing,
         SweepSteps, Becomes, RowsStay, ClockStays, Comparing, Leftover
<1>9. Uncrossed' => LinesKept'
  BY <1>1, <1>3 DEF ArchiveInv, LinesKept, Places, SweepKeeps, RestoreKeeps, Through, HotStays,
         PlainStays, RestStays, ArchiveFiles, ArchiveWorkers, Doing, Placing, Compressing,
         SweepSteps, Becomes, RowsStay, ClockStays, Comparing, Leftover
<1>10. LeftAlone' => RestorerOwns' /\ ArchiverRows' /\ RowsTell' /\ RepairFolds'
  BY <1>1, <1>3 DEF ArchiveInv, RestorerOwns, ArchiverRows, RowsTell, RepairFolds, Through,
         HotStays, PlainStays, RestStays, ArchiveFiles, ArchiveWorkers, Doing, Placing, Folded,
         Becomes, RowsStay, ClockStays, InArchive, NoContent, Leftover
<1>11. Straight' => RowsAgree'
  BY <1>1, <1>3 DEF ArchiveInv, RestorerOwns, ArchiverRows, RowsTell, RepairFolds, Through,
         HotStays, PlainStays, RestStays, ArchiveFiles, ArchiveWorkers, Doing, Placing, Folded,
         Becomes, RowsStay, ClockStays, InArchive, NoContent, Leftover, RowsAgree, OneRecord
<1> QED
  BY <1>2, <1>3, <1>4, <1>5, <1>6, <1>7, <1>8, <1>9, <1>10, <1>11 DEF ArchiveInv

(* A failed placement is passed over. *)
LEMMA PlaceFailsKeeps ==
  ASSUME ArchiveTypeOK, ArchiveInv, NEW f \in ArchiveFiles, PlaceFails(f),
         alone' = FALSE, UNCHANGED fold
  PROVE  ArchiveTypeOK' /\ ArchiveInv'
<1>1. /\ job' \in Jobs
      /\ job["restorer"].at \in {"rename", "link"} /\ IsNext("restorer", f)
      /\ Through("restorer", f, "resolve")
      /\ FilesStay /\ RestStays /\ overtaken' = overtaken \cup {"skipped"}
  BY JobThrough DEF PlaceFails, FilesStay, HotStays, PlainStays, RowsStay, ClockStays, RestStays,
         archiveFiles, archiveClock, ArchiveWorkers, ArchiveFiles, ArchiveSteps
<1>2. ArchiveTypeOK'
  BY <1>1, SpendTyped DEF PlaceFails, archiveFiles, archiveClock, ArchiveTypeOK, Jobs, JobRecords,
         Budget
<1>3. /\ (Uncrossed' => Uncrossed) /\ (LeftAlone' => LeftAlone /\ Uncrossed)
      /\ (Straight' => Straight /\ LeftAlone /\ LeftAlone')
  BY <1>1 DEF Uncrossed, LeftAlone, Straight
<1>4. Places' /\ JournalOpen' /\ OneRecord' /\ AloneMeans' /\ Repairing'
  BY <1>1 DEF ArchiveInv, Places, JournalOpen, OneRecord, AloneMeans, Repairing, Through, FilesStay,
         RestStays, IsNext, ArchiveFiles, ArchiveWorkers, Doing, Placing, Compressing, SweepSteps,
         Comparing, Whole, Becomes, HotStays, PlainStays, RowsStay, ClockStays, Located, Leftover
<1>5. Uncrossed' => /\ ArchiverOwns' /\ Apart' /\ SweepKeeps' /\ RestoreKeeps'
                    /\ RepairKeeps' /\ Somewhere' /\ LinesKept'
  BY <1>1, <1>3 DEF ArchiveInv, ArchiverOwns, Apart, SweepKeeps, RestoreKeeps, RepairKeeps,
         Somewhere, LinesKept, Through, FilesStay, RestStays, IsNext, ArchiveFiles, ArchiveWorkers,
         Doing, SweepFacts, Selected, Compressing, Whole, Becomes, HotStays, PlainStays, RowsStay,
         ClockStays, Comparing, Located, Leftover
<1>6. LeftAlone' => RestorerOwns' /\ ArchiverRows' /\ RowsTell' /\ RepairFolds'
  BY <1>1, <1>3 DEF ArchiveInv, RestorerOwns, ArchiverRows, RowsTell, RepairFolds, Through,
         FilesStay, RestStays, IsNext, ArchiveFiles, ArchiveWorkers, Doing, Placing, Folded,
         Becomes, HotStays, PlainStays, RowsStay, ClockStays, InArchive, NoContent, Leftover
<1>7. Straight' => RowsAgree'
  BY <1>1, <1>3 DEF ArchiveInv, RestorerOwns, ArchiverRows, RowsTell, RepairFolds, Through,
         FilesStay, RestStays, IsNext, ArchiveFiles, ArchiveWorkers, Doing, Placing, Folded,
         Becomes, HotStays, PlainStays, RowsStay, ClockStays, InArchive, NoContent, Leftover,
         RowsAgree, OneRecord
<1> QED
  BY <1>2, <1>3, <1>4, <1>5, <1>6, <1>7 DEF ArchiveInv

(* A sweep starts. *)
LEMMA StartSweepKeeps ==
  ASSUME ArchiveTypeOK, ArchiveInv, StartSweep, alone' = FALSE, UNCHANGED fold
  PROVE  ArchiveTypeOK' /\ ArchiveInv'
<1>1. /\ job' \in Jobs
      /\ job["sweeper"].at = "idle"
      /\ \/ /\ hot["log"] = {} /\ hot["record"] = {} /\ rows["log"] # "restore" /\ plain["log"] # {}
            /\ Becomes("sweeper", "reconcile", {"log"}, {})
         \/ journal = "begin" /\ Becomes("sweeper", "reconcile", {}, {})
      /\ AllStays
  BY JobBegins DEF StartSweep, NoContent, ArchiveFiles, FilesStay, HotStays, PlainStays, RowsStay,
         ClockStays, RestStays, AllStays, archiveFiles, archiveClock, ArchiveWorkers, ArchiveSteps
<1>2. ArchiveTypeOK'
  BY <1>1, SpendTyped DEF StartSweep, NoContent, ArchiveFiles, archiveFiles, archiveClock, Begins,
         ArchiveTypeOK, Jobs, JobRecords, Budget
<1>3. /\ (Uncrossed' => Uncrossed) /\ (LeftAlone' => LeftAlone /\ Uncrossed)
      /\ (Straight' => Straight /\ LeftAlone /\ LeftAlone')
  BY <1>1 DEF Uncrossed, LeftAlone, Straight, AllStays
<1>4. Places' /\ JournalOpen' /\ OneRecord' /\ AloneMeans' /\ Repairing'
  BY <1>1 DEF ArchiveInv, Places, JournalOpen, OneRecord, AloneMeans, Repairing, Becomes, AllStays,
         ArchiveFiles, ArchiveWorkers, Doing, Placing, Compressing, SweepSteps, Comparing, Whole,
         IsNext, FilesStay, RestStays, HotStays, PlainStays, RowsStay, ClockStays, Located, Leftover
<1>5. Uncrossed' => /\ ArchiverOwns' /\ SweepKeeps' /\ RestoreKeeps'
                    /\ RepairKeeps' /\ Somewhere' /\ LinesKept'
  BY <1>1, <1>3 DEF ArchiveInv, ArchiverOwns, SweepKeeps, RestoreKeeps, RepairKeeps, Somewhere,
         LinesKept, Becomes, AllStays, ArchiveFiles, ArchiveWorkers, Doing, Compressing, IsNext,
         Whole, FilesStay, RestStays, HotStays, PlainStays, RowsStay, ClockStays, Located, Leftover
<1>6. Uncrossed' => Apart'
  BY <1>1, <1>3 DEF ArchiveInv, Apart, ArchiverOwns, Places, Becomes, AllStays, ArchiveFiles,
         ArchiveWorkers, SweepFacts, Selected, Doing, Placing, Compressing, SweepSteps, FilesStay,
         RestStays, Comparing, HotStays, PlainStays, RowsStay, ClockStays, Leftover
<1>7. LeftAlone' => RestorerOwns' /\ ArchiverRows' /\ RowsTell' /\ RepairFolds'
  BY <1>1, <1>3 DEF ArchiveInv, RestorerOwns, ArchiverRows, RowsTell, RepairFolds, Becomes,
         AllStays, ArchiveFiles, ArchiveWorkers, Doing, Placing, Folded, FilesStay, RestStays,
         InArchive, HotStays, PlainStays, RowsStay, ClockStays, NoContent, Leftover
<1>8. Straight' => RowsAgree'
  BY <1>1, <1>3 DEF ArchiveInv, RestorerOwns, ArchiverRows, RowsTell, RepairFolds, Becomes,
         AllStays, ArchiveFiles, ArchiveWorkers, Doing, Placing, Folded, FilesStay, RestStays,
         InArchive, HotStays, PlainStays, RowsStay, ClockStays, NoContent, Leftover, RowsAgree,
         OneRecord
<1> QED
  BY <1>2, <1>3, <1>4, <1>5, <1>6, <1>7, <1>8 DEF ArchiveInv

(* What an interrupted sweep left open is closed. *)
LEMMA ReconcileDoes ==
  ASSUME ArchiveTypeOK, Reconcile
  PROVE
    /\ job' \in Jobs
    /\ job["sweeper"].at = "reconcile"
    /\ \/ Goes("sweeper", "eligible") /\ journal' = journal /\ journal # "begin"
       \/ Goes("sweeper", "compare") /\ journal' = journal /\ plain["log"] # {} /\ zst # {}
       \/ /\ Goes("sweeper", "eligible") /\ (plain["log"] = {} \/ zst = {})
          /\ journal' = IF plain["log"] = {} /\ zst # {} THEN "compressed" ELSE "closed"
    /\ FilesStay /\ RowsStay /\ ClockStays /\ overtaken' = overtaken
<1>1. job["sweeper"].at = "reconcile" /\ FilesStay /\ RowsStay /\ ClockStays /\ overtaken' = overtaken
  BY DEF Reconcile, AtStep, FilesStay, HotStays, PlainStays, RowsStay, ClockStays, archiveFiles,
         archiveClock
<1>2. CASE journal # "begin"
  BY <1>1, <1>2, JobGoes DEF Reconcile, ArchiveWorkers, ArchiveSteps
<1>3. CASE journal = "begin" /\ plain["log"] # {} /\ zst # {}
  <2>1. journal' = journal /\ job' = [job EXCEPT !["sweeper"].at = "compare", !["sweeper"].again = TRUE]
    BY <1>3 DEF Reconcile, NoContent
  <2>2. job' \in Jobs /\ Goes("sweeper", "compare")
    <3>1. PICK j : j = [job["sweeper"] EXCEPT !.at = "compare", !.again = TRUE]
      OBVIOUS
    <3>2. job["sweeper"] \in JobRecords /\ "compare" \in ArchiveSteps
      BY JobsTyped DEF Jobs, ArchiveWorkers, ArchiveSteps
    <3>3. /\ j \in JobRecords /\ j.at = "compare" /\ j.files = job["sweeper"].files
          /\ j.held = job["sweeper"].held
      BY <3>1, <3>2 DEF JobRecords
    <3>4. job' = [job EXCEPT !["sweeper"] = j]
      BY <2>1, <3>1, JobsTyped DEF Jobs, JobRecords, ArchiveWorkers
    <3> QED
      BY <3>3, <3>4, JobSet DEF Goes, ArchiveWorkers
  <2> QED
    BY <1>1, <1>3, <2>1, <2>2
<1>4. CASE journal = "begin" /\ (plain["log"] = {} \/ zst = {})
  <2>1. GoTo("sweeper", "eligible") /\ journal' = IF plain["log"] = {} /\ zst # {} THEN "compressed" ELSE "closed"
    BY <1>4 DEF Reconcile, NoContent
  <2>2. job' \in Jobs /\ Goes("sweeper", "eligible")
    BY <2>1, JobGoes DEF ArchiveWorkers, ArchiveSteps
  <2> QED
    BY <1>1, <1>4, <2>1, <2>2
<1> QED
  BY <1>2, <1>3, <1>4

(* What an interrupted sweep left open is closed. *)
LEMMA ReconcileKeeps ==
  ASSUME ArchiveTypeOK, ArchiveInv, Reconcile, alone' = FALSE, UNCHANGED fold
  PROVE  ArchiveTypeOK' /\ ArchiveInv'
<1>1. /\ job' \in Jobs
      /\ job["sweeper"].at = "reconcile"
      /\ \/ Goes("sweeper", "eligible") /\ journal' = journal /\ journal # "begin"
         \/ Goes("sweeper", "compare") /\ journal' = journal /\ plain["log"] # {} /\ zst # {}
         \/ /\ Goes("sweeper", "eligible") /\ (plain["log"] = {} \/ zst = {})
            /\ journal' = IF plain["log"] = {} /\ zst # {} THEN "compressed" ELSE "closed"
      /\ FilesStay /\ RowsStay /\ ClockStays /\ overtaken' = overtaken
  BY ReconcileDoes
<1>2. ArchiveTypeOK'
  BY <1>1 DEF Reconcile, NoContent, archiveFiles, archiveClock, ArchiveTypeOK, Jobs, JobRecords
<1>3. /\ (Uncrossed' => Uncrossed) /\ (LeftAlone' => LeftAlone /\ Uncrossed)
      /\ (Straight' => Straight /\ LeftAlone /\ LeftAlone')
  BY <1>1 DEF Uncrossed, LeftAlone, Straight
<1>4. Places' /\ JournalOpen' /\ OneRecord' /\ AloneMeans' /\ Repairing'
  BY <1>1 DEF ArchiveInv, Places, JournalOpen, OneRecord, AloneMeans, Repairing, Goes, FilesStay,
         RowsStay, ClockStays, ArchiveFiles, ArchiveWorkers, Doing, Placing, Compressing,
         SweepSteps, Comparing, Whole, IsNext, Becomes, HotStays, PlainStays, Located, Leftover
<1>5. Uncrossed' => /\ ArchiverOwns' /\ Apart' /\ SweepKeeps' /\ RestoreKeeps'
                    /\ RepairKeeps' /\ Somewhere' /\ LinesKept'
  BY <1>1, <1>3 DEF ArchiveInv, ArchiverOwns, Apart, SweepKeeps, RestoreKeeps, RepairKeeps,
         Somewhere, LinesKept, Goes, FilesStay, RowsStay, ClockStays, ArchiveFiles, ArchiveWorkers,
         Doing, SweepFacts, Selected, Compressing, IsNext, Whole, Becomes, HotStays, PlainStays,
         Comparing, Located, Leftover
<1>6. LeftAlone' => RestorerOwns' /\ ArchiverRows' /\ RowsTell' /\ RepairFolds'
  BY <1>1, <1>3 DEF ArchiveInv, RestorerOwns, ArchiverRows, RowsTell, RepairFolds, Goes, FilesStay,
         RowsStay, ClockStays, ArchiveFiles, ArchiveWorkers, Doing, Placing, Folded, Becomes,
         HotStays, PlainStays, InArchive, NoContent, Leftover
<1>7. Straight' => RowsAgree'
  BY <1>1, <1>3 DEF ArchiveInv, RestorerOwns, ArchiverRows, RowsTell, RepairFolds, Goes, FilesStay,
         RowsStay, ClockStays, ArchiveFiles, ArchiveWorkers, Doing, Placing, Folded, Becomes,
         HotStays, PlainStays, InArchive, NoContent, Leftover, RowsAgree, OneRecord
<1> QED
  BY <1>2, <1>3, <1>4, <1>5, <1>6, <1>7 DEF ArchiveInv

(* Two forms are compared. *)
LEMMA CompareFormsKeeps ==
  ASSUME ArchiveTypeOK, ArchiveInv, CompareForms, alone' = FALSE, UNCHANGED fold
  PROVE  ArchiveTypeOK' /\ ArchiveInv'
<1>1. /\ job' \in Jobs
      /\ job["sweeper"].at = "compare"
      /\ \/ Goes("sweeper", "vanished") /\ (plain["log"] = {} \/ zst = {})
         \/ Goes("sweeper", "dropPlain") /\ plain["log"] # {} /\ zst # {} /\ plain["log"] = zst
         \/ Goes("sweeper", "quarantine") /\ plain["log"] # {} /\ zst # {}
      /\ AllStays
  BY JobGoes DEF CompareForms, AtStep, NoContent, FilesStay, HotStays, PlainStays, RowsStay,
         ClockStays, RestStays, AllStays, archiveFiles, archiveClock, Goes, ArchiveWorkers,
         ArchiveFiles, ArchiveSteps
<1>2. ArchiveTypeOK'
  BY <1>1 DEF CompareForms, NoContent, archiveFiles, archiveClock, ArchiveTypeOK, Jobs, JobRecords
<1>3. /\ (Uncrossed' => Uncrossed) /\ (LeftAlone' => LeftAlone /\ Uncrossed)
      /\ (Straight' => Straight /\ LeftAlone /\ LeftAlone')
  BY <1>1 DEF Uncrossed, LeftAlone, Straight, AllStays
<1>4. Places' /\ JournalOpen' /\ OneRecord' /\ AloneMeans' /\ Repairing'
  BY <1>1 DEF ArchiveInv, Places, JournalOpen, OneRecord, AloneMeans, Repairing, Goes, AllStays,
         ArchiveFiles, ArchiveWorkers, Doing, Placing, Compressing, SweepSteps, Comparing, Whole,
         IsNext, Becomes, FilesStay, RestStays, HotStays, PlainStays, RowsStay, ClockStays, Located,
         Leftover
<1>5. Uncrossed' => /\ ArchiverOwns' /\ Apart' /\ SweepKeeps' /\ RestoreKeeps'
                    /\ RepairKeeps' /\ Somewhere' /\ LinesKept'
  BY <1>1, <1>3 DEF ArchiveInv, ArchiverOwns, Apart, SweepKeeps, RestoreKeeps, RepairKeeps,
         Somewhere, LinesKept, Goes, AllStays, ArchiveFiles, ArchiveWorkers, Doing, SweepFacts,
         Selected, Compressing, IsNext, Whole, Becomes, FilesStay, RestStays, Comparing, HotStays,
         PlainStays, RowsStay, ClockStays, Located, Leftover
<1>6. LeftAlone' => RestorerOwns' /\ ArchiverRows' /\ RowsTell' /\ RepairFolds'
  BY <1>1, <1>3 DEF ArchiveInv, RestorerOwns, ArchiverRows, RowsTell, RepairFolds, Goes, AllStays,
         ArchiveFiles, ArchiveWorkers, Doing, Placing, Folded, Becomes, FilesStay, RestStays,
         InArchive, HotStays, PlainStays, RowsStay, ClockStays, NoContent, Leftover
<1>7. Straight' => RowsAgree'
  BY <1>1, <1>3 DEF ArchiveInv, RestorerOwns, ArchiverRows, RowsTell, RepairFolds, Goes, AllStays,
         ArchiveFiles, ArchiveWorkers, Doing, Placing, Folded, Becomes, FilesStay, RestStays,
         InArchive, HotStays, PlainStays, RowsStay, ClockStays, NoContent, Leftover, RowsAgree,
         OneRecord
<1> QED
  BY <1>2, <1>3, <1>4, <1>5, <1>6, <1>7 DEF ArchiveInv

(* A form has moved meanwhile. *)
LEMMA FormVanishedKeeps ==
  ASSUME ArchiveTypeOK, ArchiveInv, FormVanished, alone' = FALSE, UNCHANGED fold
  PROVE  ArchiveTypeOK' /\ ArchiveInv'
<1>1. /\ job' \in Jobs
      /\ job["sweeper"].at = "vanished" /\ Rests("sweeper") /\ journal' \in {journal, "closed"}
      /\ FilesStay /\ RowsStay /\ ClockStays /\ overtaken' = overtaken
  BY JobRests DEF FormVanished, AtStep, FilesStay, HotStays, PlainStays, RowsStay, ClockStays,
         archiveFiles, archiveClock, Rests, ArchiveWorkers, ArchiveFiles, ArchiveSteps,
         ArchiveTypeOK
<1>2. ArchiveTypeOK'
  BY <1>1 DEF FormVanished, archiveFiles, archiveClock, ArchiveTypeOK, Jobs, JobRecords
<1>3. /\ (Uncrossed' => Uncrossed) /\ (LeftAlone' => LeftAlone /\ Uncrossed)
      /\ (Straight' => Straight /\ LeftAlone /\ LeftAlone')
  BY <1>1 DEF Uncrossed, LeftAlone, Straight
<1>4. Places' /\ JournalOpen' /\ OneRecord' /\ AloneMeans' /\ Repairing'
  BY <1>1 DEF ArchiveInv, Places, JournalOpen, OneRecord, AloneMeans, Repairing, Rests, FilesStay,
         RowsStay, ClockStays, ArchiveFiles, ArchiveWorkers, Doing, Placing, Compressing,
         SweepSteps, Comparing, Whole, IsNext, Becomes, HotStays, PlainStays, Located, Leftover
<1>5. Uncrossed' => /\ ArchiverOwns' /\ Apart' /\ SweepKeeps' /\ RestoreKeeps'
                    /\ RepairKeeps' /\ Somewhere' /\ LinesKept'
  BY <1>1, <1>3 DEF ArchiveInv, ArchiverOwns, Apart, SweepKeeps, RestoreKeeps, RepairKeeps,
         Somewhere, LinesKept, Rests, FilesStay, RowsStay, ClockStays, ArchiveFiles, ArchiveWorkers,
         Doing, SweepFacts, Selected, Compressing, IsNext, Whole, Becomes, HotStays, PlainStays,
         Comparing, Located, Leftover
<1>6. LeftAlone' => RestorerOwns' /\ ArchiverRows' /\ RowsTell' /\ RepairFolds'
  BY <1>1, <1>3 DEF ArchiveInv, RestorerOwns, ArchiverRows, RowsTell, RepairFolds, Rests, FilesStay,
         RowsStay, ClockStays, ArchiveFiles, ArchiveWorkers, Doing, Placing, Folded, Becomes,
         HotStays, PlainStays, InArchive, NoContent, Leftover
<1>7. Straight' => RowsAgree'
  BY <1>1, <1>3 DEF ArchiveInv, RestorerOwns, ArchiverRows, RowsTell, RepairFolds, Rests, FilesStay,
         RowsStay, ClockStays, ArchiveFiles, ArchiveWorkers, Doing, Placing, Folded, Becomes,
         HotStays, PlainStays, InArchive, NoContent, Leftover, RowsAgree, OneRecord
<1> QED
  BY <1>2, <1>3, <1>4, <1>5, <1>6, <1>7 DEF ArchiveInv

(* The plain one of two identical forms goes. *)
LEMMA DropPlainKeeps ==
  ASSUME ArchiveTypeOK, ArchiveInv, DropPlain, alone' = FALSE, UNCHANGED fold
  PROVE  ArchiveTypeOK' /\ ArchiveInv'
<1>1. /\ job' \in Jobs
      /\ job["sweeper"].at = "dropPlain" /\ Rests("sweeper") /\ journal' = "compressed"
      /\ plain'["log"] = {} /\ plain'["record"] = plain["record"]
      /\ HotStays /\ zst' = zst /\ aside' = aside /\ RowsStay /\ ClockStays /\ overtaken' = overtaken
  BY JobRests DEF DropPlain, AtStep, NoContent, HotStays, RowsStay, ClockStays, archiveClock,
         Rests, ArchiveWorkers, ArchiveFiles, ArchiveSteps, ArchiveTypeOK
<1>2. ArchiveTypeOK'
  BY <1>1 DEF DropPlain, NoContent, archiveClock, ArchiveTypeOK, Jobs, JobRecords
<1>3. /\ (Uncrossed' => Uncrossed) /\ (LeftAlone' => LeftAlone /\ Uncrossed)
      /\ (Straight' => Straight /\ LeftAlone /\ LeftAlone')
  BY <1>1 DEF Uncrossed, LeftAlone, Straight
<1>4. Places' /\ JournalOpen' /\ OneRecord' /\ AloneMeans' /\ Repairing'
  BY <1>1 DEF ArchiveInv, Places, JournalOpen, OneRecord, AloneMeans, Repairing, Rests, HotStays,
         RowsStay, ClockStays, ArchiveFiles, ArchiveWorkers, Doing, Placing, Compressing,
         SweepSteps, Comparing, Whole, IsNext, Becomes, Located, Leftover
<1>5. Uncrossed' => ArchiverOwns' /\ Apart' /\ SweepKeeps' /\ RestoreKeeps' /\ RepairKeeps'
  BY <1>1, <1>3 DEF ArchiveInv, ArchiverOwns, Apart, SweepKeeps, RestoreKeeps, RepairKeeps, Rests,
         HotStays, RowsStay, ClockStays, ArchiveFiles, ArchiveWorkers, Doing, SweepFacts, Selected,
         Compressing, IsNext, Becomes, Comparing, Located, Leftover
<1>6. Uncrossed' => Somewhere'
  BY <1>1, <1>3 DEF ArchiveInv, Somewhere, SweepKeeps, Places, Rests, HotStays, RowsStay,
         ClockStays, ArchiveFiles, ArchiveWorkers, Whole, Doing, Compressing, Placing, SweepSteps,
         Becomes, Comparing, Leftover
<1>7. Uncrossed' => LinesKept'
  BY <1>1, <1>3 DEF ArchiveInv, LinesKept, SweepKeeps, Places, Rests, HotStays, RowsStay,
         ClockStays, ArchiveFiles, ArchiveWorkers, Doing, Compressing, Placing, SweepSteps, Becomes,
         Comparing, Leftover
<1>8. LeftAlone' => RestorerOwns' /\ ArchiverRows' /\ RowsTell' /\ RepairFolds'
  BY <1>1, <1>3 DEF ArchiveInv, RestorerOwns, ArchiverRows, RowsTell, RepairFolds, Rests, HotStays,
         RowsStay, ClockStays, ArchiveFiles, ArchiveWorkers, Doing, Placing, Folded, Becomes,
         InArchive, NoContent, Leftover
<1>9. Straight' => RowsAgree'
  BY <1>1, <1>3 DEF ArchiveInv, RestorerOwns, ArchiverRows, RowsTell, RepairFolds, Rests, HotStays,
         RowsStay, ClockStays, ArchiveFiles, ArchiveWorkers, Doing, Placing, Folded, Becomes,
         InArchive, NoContent, Leftover, RowsAgree, OneRecord
<1> QED
  BY <1>2, <1>3, <1>4, <1>5, <1>6, <1>7, <1>8, <1>9 DEF ArchiveInv

(* The compressed one of two forms is put aside. *)
LEMMA QuarantineKeeps ==
  ASSUME ArchiveTypeOK, ArchiveInv, Quarantine, alone' = FALSE, UNCHANGED fold
  PROVE  ArchiveTypeOK' /\ ArchiveInv'
<1>1. /\ job' \in Jobs
      /\ job["sweeper"].at = "quarantine" /\ Rests("sweeper") /\ journal' = "closed"
      /\ zst' = {} /\ aside' = aside \cup zst
      /\ HotStays /\ PlainStays /\ RowsStay /\ ClockStays /\ overtaken' = overtaken
  BY JobRests DEF Quarantine, AtStep, NoContent, HotStays, PlainStays, RowsStay, ClockStays,
         archiveClock, Rests, ArchiveWorkers, ArchiveFiles, ArchiveSteps, ArchiveTypeOK
<1>2. ArchiveTypeOK'
  BY <1>1 DEF Quarantine, NoContent, archiveClock, ArchiveTypeOK, Jobs, JobRecords
<1>3. /\ (Uncrossed' => Uncrossed) /\ (LeftAlone' => LeftAlone /\ Uncrossed)
      /\ (Straight' => Straight /\ LeftAlone /\ LeftAlone')
  BY <1>1 DEF Uncrossed, LeftAlone, Straight
<1>4. Places' /\ JournalOpen' /\ OneRecord' /\ AloneMeans' /\ Repairing'
  BY <1>1 DEF ArchiveInv, Places, JournalOpen, OneRecord, AloneMeans, Repairing, Rests, HotStays,
         PlainStays, RowsStay, ClockStays, ArchiveFiles, ArchiveWorkers, Doing, Placing,
         Compressing, SweepSteps, Comparing, Whole, IsNext, Becomes, Located, Leftover
<1>5. Uncrossed' => /\ ArchiverOwns' /\ Apart' /\ SweepKeeps'
                    /\ RestoreKeeps' /\ RepairKeeps' /\ LinesKept'
  BY <1>1, <1>3 DEF ArchiveInv, ArchiverOwns, Apart, SweepKeeps, RestoreKeeps, RepairKeeps,
         LinesKept, Rests, HotStays, PlainStays, RowsStay, ClockStays, ArchiveFiles, ArchiveWorkers,
         Doing, SweepFacts, Selected, Compressing, IsNext, Becomes, Comparing, Located, Leftover
<1>6. Uncrossed' => Somewhere'
  BY <1>1, <1>3 DEF ArchiveInv, Somewhere, JournalOpen, Places, Rests, HotStays, PlainStays,
         RowsStay, ClockStays, ArchiveFiles, ArchiveWorkers, Whole, Doing, Compressing, Comparing,
         Placing, SweepSteps, Becomes, Leftover
<1>7. LeftAlone' => RestorerOwns' /\ ArchiverRows' /\ RowsTell' /\ RepairFolds'
  BY <1>1, <1>3 DEF ArchiveInv, RestorerOwns, ArchiverRows, RowsTell, RepairFolds, Rests, HotStays,
         PlainStays, RowsStay, ClockStays, ArchiveFiles, ArchiveWorkers, Doing, Placing, Folded,
         Becomes, InArchive, NoContent, Leftover
<1>8. Straight' => RowsAgree'
  BY <1>1, <1>3 DEF ArchiveInv, RestorerOwns, ArchiverRows, RowsTell, RepairFolds, Rests, HotStays,
         PlainStays, RowsStay, ClockStays, ArchiveFiles, ArchiveWorkers, Doing, Placing, Folded,
         Becomes, InArchive, NoContent, Leftover, RowsAgree, OneRecord
<1> QED
  BY <1>2, <1>3, <1>4, <1>5, <1>6, <1>7, <1>8 DEF ArchiveInv

(* The plain form is read. *)
LEMMA ReadPlainDoes ==
  ASSUME ArchiveTypeOK, ReadPlain
  PROVE
    /\ job' \in Jobs
    /\ job["sweeper"].at = "eligible"
    /\ \/ Rests("sweeper")
       \/ /\ job["sweeper"].files # {} /\ hot["log"] = {} /\ hot["record"] = {} /\ plain["log"] # {}
          /\ \/ zst # {} /\ Goes("sweeper", "compare")
             \/ zst = {} /\ Becomes("sweeper", "begin", job["sweeper"].files, plain["log"])
    /\ AllStays
<1> DEFINE stops == \/ job["sweeper"].files = {} \/ (\E f \in ArchiveFiles : hot[f] # NoContent)
                     \/ plain["log"] = NoContent
<1>1. job["sweeper"].at = "eligible" /\ AllStays
  BY DEF ReadPlain, AtStep, AllStays, FilesStay, HotStays, PlainStays, RestStays, RowsStay,
         ClockStays, archiveFiles, archiveClock
<1>2. CASE stops
  <2>1. job' = [job EXCEPT !["sweeper"] = Rest]
    BY <1>2 DEF ReadPlain
  <2> QED
    BY <1>1, <2>1, JobRests DEF ArchiveWorkers
<1>3. CASE ~stops /\ zst # {}
  <2>1. PICK j : j = [job["sweeper"] EXCEPT !.at = "compare"]
    OBVIOUS
  <2>2. job["sweeper"] \in JobRecords
    BY JobsTyped DEF Jobs, ArchiveWorkers
  <2>3. "compare" \in ArchiveSteps
    BY <2>2 DEF ArchiveSteps, JobRecords, ArchiveTypeOK, ArchiveFiles
  <2>4. j \in JobRecords /\ j.at = "compare" /\ j.files = job["sweeper"].files /\ j.held = job["sweeper"].held
    BY <2>1, <2>2, <2>3 DEF JobRecords
  <2>5. job' = [job EXCEPT !["sweeper"] = j]
    BY <1>3, <2>1 DEF ReadPlain, NoContent
  <2>6. job' \in Jobs /\ Goes("sweeper", "compare")
    BY <2>4, <2>5, JobSet DEF ArchiveWorkers, Goes
  <2> QED
    BY <1>1, <1>3, <2>6 DEF NoContent, ArchiveFiles
<1>4. CASE ~stops /\ zst = {}
  <2>1. PICK j : j = [job["sweeper"] EXCEPT !.at = "begin", !.held = plain["log"]]
    OBVIOUS
  <2>2. job["sweeper"] \in JobRecords
    BY JobsTyped DEF Jobs, ArchiveWorkers
  <2>3. "begin" \in ArchiveSteps /\ plain["log"] \in SUBSET (1..MaxLines)
    BY <2>2 DEF ArchiveSteps, JobRecords, ArchiveTypeOK, ArchiveFiles
  <2>4. j \in JobRecords /\ j.at = "begin" /\ j.files = job["sweeper"].files /\ j.held = plain["log"]
    BY <2>1, <2>2, <2>3 DEF JobRecords
  <2>5. job' = [job EXCEPT !["sweeper"] = j]
    BY <1>4, <2>1 DEF ReadPlain, NoContent
  <2>6. job' \in Jobs /\ Becomes("sweeper", "begin", job["sweeper"].files, plain["log"])
    BY <2>4, <2>5, JobSet DEF ArchiveWorkers
  <2> QED
    BY <1>1, <1>4, <2>6 DEF NoContent, ArchiveFiles
<1> QED
  BY <1>2, <1>3, <1>4

(* The plain form is read. *)
LEMMA ReadPlainKeeps ==
  ASSUME ArchiveTypeOK, ArchiveInv, ReadPlain, alone' = FALSE, UNCHANGED fold
  PROVE  ArchiveTypeOK' /\ ArchiveInv'
<1>1. /\ job' \in Jobs
      /\ job["sweeper"].at = "eligible"
      /\ \/ Rests("sweeper")
         \/ /\ job["sweeper"].files # {} /\ hot["log"] = {} /\ hot["record"] = {} /\ plain["log"] # {}
            /\ \/ zst # {} /\ Goes("sweeper", "compare")
               \/ zst = {} /\ Becomes("sweeper", "begin", job["sweeper"].files, plain["log"])
      /\ AllStays
  BY ReadPlainDoes
<1>2. ArchiveTypeOK'
  BY <1>1 DEF ReadPlain, NoContent, ArchiveFiles, archiveFiles, archiveClock, ArchiveWorkers,
         ArchiveTypeOK, Jobs, JobRecords
<1>3. /\ (Uncrossed' => Uncrossed) /\ (LeftAlone' => LeftAlone /\ Uncrossed)
      /\ (Straight' => Straight /\ LeftAlone /\ LeftAlone')
  BY <1>1 DEF Uncrossed, LeftAlone, Straight, AllStays
<1>4. Places' /\ JournalOpen' /\ OneRecord' /\ AloneMeans' /\ Repairing'
  BY <1>1 DEF ArchiveInv, Places, JournalOpen, OneRecord, AloneMeans, Repairing, Becomes, Goes,
         Rests, AllStays, ArchiveFiles, ArchiveWorkers, Doing, Placing, Compressing, SweepSteps,
         Comparing, Whole, IsNext, FilesStay, RestStays, HotStays, PlainStays, RowsStay, ClockStays,
         Located, Leftover
<1>5. Uncrossed' => /\ ArchiverOwns' /\ SweepKeeps' /\ RestoreKeeps'
                    /\ RepairKeeps' /\ Somewhere' /\ LinesKept'
  BY <1>1, <1>3 DEF ArchiveInv, ArchiverOwns, SweepKeeps, RestoreKeeps, RepairKeeps, Somewhere,
         LinesKept, Becomes, Goes, Rests, AllStays, ArchiveFiles, ArchiveWorkers, Doing,
         Compressing, IsNext, Whole, FilesStay, RestStays, HotStays, PlainStays, RowsStay,
         ClockStays, Located, Leftover
<1>6. Uncrossed' => Apart'
  BY <1>1, <1>3 DEF ArchiveInv, Apart, ArchiverOwns, Places, Becomes, Goes, Rests, AllStays,
         ArchiveFiles, ArchiveWorkers, SweepFacts, Selected, Doing, Placing, Compressing,
         SweepSteps, FilesStay, RestStays, Comparing, HotStays, PlainStays, RowsStay, ClockStays,
         Leftover
<1>7. LeftAlone' => RestorerOwns' /\ ArchiverRows' /\ RowsTell' /\ RepairFolds'
  BY <1>1, <1>3 DEF ArchiveInv, RestorerOwns, ArchiverRows, RowsTell, RepairFolds, Becomes, Goes,
         Rests, AllStays, ArchiveFiles, ArchiveWorkers, Doing, Placing, Folded, FilesStay,
         RestStays, InArchive, HotStays, PlainStays, RowsStay, ClockStays, NoContent, Leftover
<1>8. Straight' => RowsAgree'
  BY <1>1, <1>3 DEF ArchiveInv, RestorerOwns, ArchiverRows, RowsTell, RepairFolds, Becomes, Goes,
         Rests, AllStays, ArchiveFiles, ArchiveWorkers, Doing, Placing, Folded, FilesStay,
         RestStays, InArchive, HotStays, PlainStays, RowsStay, ClockStays, NoContent, Leftover,
         RowsAgree, OneRecord
<1> QED
  BY <1>2, <1>3, <1>4, <1>5, <1>6, <1>7, <1>8 DEF ArchiveInv

(* The journal is opened. *)
LEMMA JournalBeginKeeps ==
  ASSUME ArchiveTypeOK, ArchiveInv, JournalBegin, alone' = FALSE, UNCHANGED fold
  PROVE  ArchiveTypeOK' /\ ArchiveInv'
<1>1. /\ job' \in Jobs
      /\ job["sweeper"].at = "begin" /\ Goes("sweeper", "commit") /\ journal' = "begin"
      /\ FilesStay /\ RowsStay /\ ClockStays /\ overtaken' = overtaken
  BY JobGoes DEF JournalBegin, AtStep, FilesStay, HotStays, PlainStays, RowsStay, ClockStays,
         archiveFiles, archiveClock, Goes, ArchiveWorkers, ArchiveFiles, ArchiveSteps
<1>2. ArchiveTypeOK'
  BY <1>1 DEF JournalBegin, archiveFiles, archiveClock, ArchiveTypeOK, Jobs, JobRecords
<1>3. /\ (Uncrossed' => Uncrossed) /\ (LeftAlone' => LeftAlone /\ Uncrossed)
      /\ (Straight' => Straight /\ LeftAlone /\ LeftAlone')
  BY <1>1 DEF Uncrossed, LeftAlone, Straight
<1>4. Places' /\ JournalOpen' /\ OneRecord' /\ AloneMeans' /\ Repairing'
  BY <1>1 DEF ArchiveInv, Places, JournalOpen, OneRecord, AloneMeans, Repairing, Goes, FilesStay,
         RowsStay, ClockStays, ArchiveFiles, ArchiveWorkers, Doing, Placing, Compressing,
         SweepSteps, Comparing, Whole, IsNext, Becomes, HotStays, PlainStays, Located, Leftover
<1>5. Uncrossed' => /\ ArchiverOwns' /\ Apart' /\ SweepKeeps' /\ RestoreKeeps'
                    /\ RepairKeeps' /\ Somewhere' /\ LinesKept'
  BY <1>1, <1>3 DEF ArchiveInv, ArchiverOwns, Apart, SweepKeeps, RestoreKeeps, RepairKeeps,
         Somewhere, LinesKept, Goes, FilesStay, RowsStay, ClockStays, ArchiveFiles, ArchiveWorkers,
         Doing, SweepFacts, Selected, Compressing, IsNext, Whole, Becomes, HotStays, PlainStays,
         Comparing, Located, Leftover
<1>6. LeftAlone' => RestorerOwns' /\ ArchiverRows' /\ RowsTell' /\ RepairFolds'
  BY <1>1, <1>3 DEF ArchiveInv, RestorerOwns, ArchiverRows, RowsTell, RepairFolds, Goes, FilesStay,
         RowsStay, ClockStays, ArchiveFiles, ArchiveWorkers, Doing, Placing, Folded, Becomes,
         HotStays, PlainStays, InArchive, NoContent, Leftover
<1>7. Straight' => RowsAgree'
  BY <1>1, <1>3 DEF ArchiveInv, RestorerOwns, ArchiverRows, RowsTell, RepairFolds, Goes, FilesStay,
         RowsStay, ClockStays, ArchiveFiles, ArchiveWorkers, Doing, Placing, Folded, Becomes,
         HotStays, PlainStays, InArchive, NoContent, Leftover, RowsAgree, OneRecord
<1> QED
  BY <1>2, <1>3, <1>4, <1>5, <1>6, <1>7 DEF ArchiveInv

(* The compressed form is put in its place. *)
LEMMA CommitZstKeeps ==
  ASSUME ArchiveTypeOK, ArchiveInv, CommitZst, alone' = FALSE, UNCHANGED fold
  PROVE  ArchiveTypeOK' /\ ArchiveInv'
<1>1. /\ job' \in Jobs
      /\ job["sweeper"].at = "commit"
      /\ \/ zst # {} /\ Goes("sweeper", "compare") /\ zst' = zst
         \/ zst = {} /\ Goes("sweeper", "recheck") /\ zst' = job["sweeper"].held
      /\ HotStays /\ PlainStays /\ aside' = aside /\ RestStays /\ overtaken' = overtaken
  BY JobGoes DEF CommitZst, AtStep, NoContent, HotStays, PlainStays, RowsStay, ClockStays,
         RestStays, archiveClock, Goes, ArchiveWorkers, ArchiveFiles, ArchiveSteps
<1>2. ArchiveTypeOK'
  BY <1>1 DEF CommitZst, NoContent, archiveClock, ArchiveWorkers, ArchiveTypeOK, Jobs, JobRecords
<1>3. /\ (Uncrossed' => Uncrossed) /\ (LeftAlone' => LeftAlone /\ Uncrossed)
      /\ (Straight' => Straight /\ LeftAlone /\ LeftAlone')
  BY <1>1 DEF Uncrossed, LeftAlone, Straight
<1>4. Places' /\ JournalOpen' /\ OneRecord' /\ AloneMeans' /\ Repairing'
  BY <1>1 DEF ArchiveInv, Places, JournalOpen, OneRecord, AloneMeans, Repairing, Goes, HotStays,
         PlainStays, RestStays, ArchiveFiles, ArchiveWorkers, Doing, Placing, Compressing,
         SweepSteps, Comparing, Whole, IsNext, Becomes, RowsStay, ClockStays, Located, Leftover
<1>5. Uncrossed' => RestoreKeeps' /\ RepairKeeps' /\ Somewhere' /\ LinesKept'
  BY <1>1, <1>3 DEF ArchiveInv, RestoreKeeps, SweepKeeps, RepairKeeps, Somewhere, LinesKept, Goes, HotStays,
         PlainStays, RestStays, ArchiveFiles, ArchiveWorkers, Doing, Compressing, IsNext, Whole,
         Becomes, RowsStay, ClockStays, Located, Leftover
<1>6. Uncrossed' => ArchiverOwns'
  BY <1>1, <1>3 DEF ArchiveInv, ArchiverOwns, Places, Apart, Goes, HotStays, PlainStays, RestStays,
         ArchiveFiles, ArchiveWorkers, Doing, Placing, Compressing, SweepSteps, SweepFacts,
         Selected, Becomes, RowsStay, ClockStays, Comparing, Leftover
<1>7. Uncrossed' => Apart'
  BY <1>1, <1>3 DEF ArchiveInv, Apart, SweepKeeps, Places, Goes, HotStays, PlainStays, RestStays,
         ArchiveFiles, ArchiveWorkers, SweepFacts, Selected, Doing, Compressing, Placing,
         SweepSteps, Becomes, RowsStay, ClockStays, Comparing, Leftover
<1>8. Uncrossed' => SweepKeeps'
  BY <1>1, <1>3 DEF ArchiveInv, SweepKeeps, Places, Goes, HotStays, PlainStays, RestStays,
         ArchiveFiles, ArchiveWorkers, Doing, Compressing, Placing, SweepSteps, Becomes, RowsStay,
         ClockStays, Comparing, Leftover
<1>9. LeftAlone' => RestorerOwns' /\ ArchiverRows' /\ RowsTell' /\ RepairFolds'
  BY <1>1, <1>3 DEF ArchiveInv, RestorerOwns, ArchiverRows, RowsTell, RepairFolds, Goes, HotStays,
         PlainStays, RestStays, ArchiveFiles, ArchiveWorkers, Doing, Placing, Folded, Becomes,
         RowsStay, ClockStays, InArchive, NoContent, Leftover
<1>10. Straight' => RowsAgree'
  BY <1>1, <1>3 DEF ArchiveInv, RestorerOwns, ArchiverRows, RowsTell, RepairFolds, Goes, HotStays,
         PlainStays, RestStays, ArchiveFiles, ArchiveWorkers, Doing, Placing, Folded, Becomes,
         RowsStay, ClockStays, InArchive, NoContent, Leftover, RowsAgree, OneRecord
<1> QED
  BY <1>2, <1>3, <1>4, <1>5, <1>6, <1>7, <1>8, <1>9, <1>10 DEF ArchiveInv

(* The plain form is compared with what was read. *)
LEMMA RecheckPlainKeeps ==
  ASSUME ArchiveTypeOK, ArchiveInv, RecheckPlain, alone' = FALSE, UNCHANGED fold
  PROVE  ArchiveTypeOK' /\ ArchiveInv'
<1>1. /\ job' \in Jobs
      /\ job["sweeper"].at = "recheck"
      /\ \/ plain["log"] = job["sweeper"].held /\ Goes("sweeper", "unlinkPlain")
         \/ plain["log"] # job["sweeper"].held /\ Goes("sweeper", "dropOurs")
      /\ AllStays
  BY JobGoes DEF RecheckPlain, AtStep, FilesStay, HotStays, PlainStays, RowsStay, ClockStays,
         RestStays, AllStays, archiveFiles, archiveClock, Goes, ArchiveWorkers, ArchiveFiles,
         ArchiveSteps
<1>2. ArchiveTypeOK'
  BY <1>1 DEF RecheckPlain, archiveFiles, archiveClock, ArchiveWorkers, ArchiveTypeOK, Jobs,
         JobRecords
<1>3. /\ (Uncrossed' => Uncrossed) /\ (LeftAlone' => LeftAlone /\ Uncrossed)
      /\ (Straight' => Straight /\ LeftAlone /\ LeftAlone')
  BY <1>1 DEF Uncrossed, LeftAlone, Straight, AllStays
<1>4. Places' /\ JournalOpen' /\ OneRecord' /\ AloneMeans' /\ Repairing'
  BY <1>1 DEF ArchiveInv, Places, JournalOpen, OneRecord, AloneMeans, Repairing, Goes, AllStays,
         ArchiveFiles, ArchiveWorkers, Doing, Placing, Compressing, SweepSteps, Comparing, Whole,
         IsNext, Becomes, FilesStay, RestStays, HotStays, PlainStays, RowsStay, ClockStays, Located,
         Leftover
<1>5. Uncrossed' => /\ ArchiverOwns' /\ Apart' /\ SweepKeeps' /\ RestoreKeeps'
                    /\ RepairKeeps' /\ Somewhere' /\ LinesKept'
  BY <1>1, <1>3 DEF ArchiveInv, ArchiverOwns, Apart, SweepKeeps, RestoreKeeps, RepairKeeps,
         Somewhere, LinesKept, Goes, AllStays, ArchiveFiles, ArchiveWorkers, Doing, SweepFacts,
         Selected, Compressing, IsNext, Whole, Becomes, FilesStay, RestStays, Comparing, HotStays,
         PlainStays, RowsStay, ClockStays, Located, Leftover
<1>6. LeftAlone' => RestorerOwns' /\ ArchiverRows' /\ RowsTell' /\ RepairFolds'
  BY <1>1, <1>3 DEF ArchiveInv, RestorerOwns, ArchiverRows, RowsTell, RepairFolds, Goes, AllStays,
         ArchiveFiles, ArchiveWorkers, Doing, Placing, Folded, Becomes, FilesStay, RestStays,
         InArchive, HotStays, PlainStays, RowsStay, ClockStays, NoContent, Leftover
<1>7. Straight' => RowsAgree'
  BY <1>1, <1>3 DEF ArchiveInv, RestorerOwns, ArchiverRows, RowsTell, RepairFolds, Goes, AllStays,
         ArchiveFiles, ArchiveWorkers, Doing, Placing, Folded, Becomes, FilesStay, RestStays,
         InArchive, HotStays, PlainStays, RowsStay, ClockStays, NoContent, Leftover, RowsAgree,
         OneRecord
<1> QED
  BY <1>2, <1>3, <1>4, <1>5, <1>6, <1>7 DEF ArchiveInv

(* The plain form goes, for it is the one that was compressed. *)
LEMMA UnlinkPlainKeeps ==
  ASSUME ArchiveTypeOK, ArchiveInv, UnlinkPlain, alone' = FALSE, UNCHANGED fold
  PROVE  ArchiveTypeOK' /\ ArchiveInv'
<1>1. /\ job' \in Jobs
      /\ job["sweeper"].at = "unlinkPlain"
      /\ \/ plain["log"] = {} /\ Goes("sweeper", "dropOurs")
         \/ plain["log"] # {} /\ Goes("sweeper", "credit")
      /\ plain'["log"] = {} /\ plain'["record"] = plain["record"]
      /\ HotStays /\ zst' = zst /\ aside' = aside /\ RestStays /\ overtaken' = overtaken
  BY JobGoes DEF UnlinkPlain, AtStep, NoContent, HotStays, RowsStay, ClockStays, RestStays,
         archiveClock, Goes, ArchiveWorkers, ArchiveFiles, ArchiveSteps, ArchiveTypeOK
<1>2. ArchiveTypeOK'
  BY <1>1 DEF UnlinkPlain, NoContent, archiveClock, ArchiveTypeOK, Jobs, JobRecords
<1>3. /\ (Uncrossed' => Uncrossed) /\ (LeftAlone' => LeftAlone /\ Uncrossed)
      /\ (Straight' => Straight /\ LeftAlone /\ LeftAlone')
  BY <1>1 DEF Uncrossed, LeftAlone, Straight
<1>4. Places' /\ JournalOpen' /\ OneRecord' /\ AloneMeans' /\ Repairing'
  BY <1>1 DEF ArchiveInv, Places, JournalOpen, OneRecord, AloneMeans, Repairing, Goes, HotStays,
         RestStays, ArchiveFiles, ArchiveWorkers, Doing, Placing, Compressing, SweepSteps,
         Comparing, Whole, IsNext, Becomes, RowsStay, ClockStays, Located, Leftover
<1>5. Uncrossed' => ArchiverOwns' /\ Apart' /\ SweepKeeps' /\ RestoreKeeps' /\ RepairKeeps'
  BY <1>1, <1>3 DEF ArchiveInv, ArchiverOwns, Apart, SweepKeeps, RestoreKeeps, RepairKeeps, Goes,
         HotStays, RestStays, ArchiveFiles, ArchiveWorkers, Doing, SweepFacts, Selected,
         Compressing, IsNext, Becomes, RowsStay, ClockStays, Comparing, Located, Leftover
<1>6. Uncrossed' => Somewhere'
  BY <1>1, <1>3 DEF ArchiveInv, Somewhere, SweepKeeps, Places, Goes, HotStays, RestStays,
         ArchiveFiles, ArchiveWorkers, Whole, Doing, Compressing, Placing, SweepSteps, Becomes,
         RowsStay, ClockStays, Comparing, Leftover
<1>7. Uncrossed' => LinesKept'
  BY <1>1, <1>3 DEF ArchiveInv, LinesKept, SweepKeeps, Places, Goes, HotStays, RestStays,
         ArchiveFiles, ArchiveWorkers, Doing, Compressing, Placing, SweepSteps, Becomes, RowsStay,
         ClockStays, Comparing, Leftover
<1>8. LeftAlone' => RestorerOwns' /\ ArchiverRows' /\ RowsTell' /\ RepairFolds'
  BY <1>1, <1>3 DEF ArchiveInv, RestorerOwns, ArchiverRows, RowsTell, RepairFolds, Goes, HotStays,
         RestStays, ArchiveFiles, ArchiveWorkers, Doing, Placing, Folded, Becomes, RowsStay,
         ClockStays, InArchive, NoContent, Leftover
<1>9. Straight' => RowsAgree'
  BY <1>1, <1>3 DEF ArchiveInv, RestorerOwns, ArchiverRows, RowsTell, RepairFolds, Goes, HotStays,
         RestStays, ArchiveFiles, ArchiveWorkers, Doing, Placing, Folded, Becomes, RowsStay,
         ClockStays, InArchive, NoContent, Leftover, RowsAgree, OneRecord
<1> QED
  BY <1>2, <1>3, <1>4, <1>5, <1>6, <1>7, <1>8, <1>9 DEF ArchiveInv

(* The new compressed form goes, for the plain one has changed. *)
LEMMA DropOursKeeps ==
  ASSUME ArchiveTypeOK, ArchiveInv, DropOurs, alone' = FALSE, UNCHANGED fold
  PROVE  ArchiveTypeOK' /\ ArchiveInv'
<1>1. /\ job' \in Jobs
      /\ job["sweeper"].at = "dropOurs" /\ Rests("sweeper") /\ journal' = "closed" /\ zst' = {}
      /\ HotStays /\ PlainStays /\ aside' = aside /\ RowsStay /\ ClockStays /\ overtaken' = overtaken
  BY JobRests DEF DropOurs, AtStep, NoContent, HotStays, PlainStays, RowsStay, ClockStays,
         archiveClock, Rests, ArchiveWorkers, ArchiveFiles, ArchiveSteps, ArchiveTypeOK
<1>2. ArchiveTypeOK'
  BY <1>1 DEF DropOurs, NoContent, archiveClock, ArchiveTypeOK, Jobs, JobRecords
<1>3. /\ (Uncrossed' => Uncrossed) /\ (LeftAlone' => LeftAlone /\ Uncrossed)
      /\ (Straight' => Straight /\ LeftAlone /\ LeftAlone')
  BY <1>1 DEF Uncrossed, LeftAlone, Straight
<1>4. Places' /\ JournalOpen' /\ OneRecord' /\ AloneMeans' /\ Repairing'
  BY <1>1 DEF ArchiveInv, Places, JournalOpen, OneRecord, AloneMeans, Repairing, Rests, HotStays,
         PlainStays, RowsStay, ClockStays, ArchiveFiles, ArchiveWorkers, Doing, Placing,
         Compressing, SweepSteps, Comparing, Whole, IsNext, Becomes, Located, Leftover
<1>5. Uncrossed' => ArchiverOwns' /\ Apart' /\ SweepKeeps' /\ RestoreKeeps' /\ RepairKeeps'
  BY <1>1, <1>3 DEF ArchiveInv, ArchiverOwns, Apart, SweepKeeps, RestoreKeeps, RepairKeeps, Rests,
         HotStays, PlainStays, RowsStay, ClockStays, ArchiveFiles, ArchiveWorkers, Doing,
         SweepFacts, Selected, Compressing, IsNext, Becomes, Comparing, Located, Leftover
<1>6. Uncrossed' => Somewhere'
  BY <1>1, <1>3 DEF ArchiveInv, Somewhere, JournalOpen, Places, Rests, HotStays, PlainStays,
         RowsStay, ClockStays, ArchiveFiles, ArchiveWorkers, Whole, Doing, Compressing, Comparing,
         Placing, SweepSteps, Becomes, Leftover
<1>7. Uncrossed' => LinesKept'
  BY <1>1, <1>3 DEF ArchiveInv, LinesKept, SweepKeeps, Places, Rests, HotStays, PlainStays,
         RowsStay, ClockStays, ArchiveFiles, ArchiveWorkers, Doing, Compressing, Placing,
         SweepSteps, Becomes, Comparing, Leftover
<1>8. LeftAlone' => RestorerOwns' /\ ArchiverRows' /\ RowsTell' /\ RepairFolds'
  BY <1>1, <1>3 DEF ArchiveInv, RestorerOwns, ArchiverRows, RowsTell, RepairFolds, Rests, HotStays,
         PlainStays, RowsStay, ClockStays, ArchiveFiles, ArchiveWorkers, Doing, Placing, Folded,
         Becomes, InArchive, NoContent, Leftover
<1>9. Straight' => RowsAgree'
  BY <1>1, <1>3 DEF ArchiveInv, RestorerOwns, ArchiverRows, RowsTell, RepairFolds, Rests, HotStays,
         PlainStays, RowsStay, ClockStays, ArchiveFiles, ArchiveWorkers, Doing, Placing, Folded,
         Becomes, InArchive, NoContent, Leftover, RowsAgree, OneRecord
<1> QED
  BY <1>2, <1>3, <1>4, <1>5, <1>6, <1>7, <1>8, <1>9 DEF ArchiveInv

(* The journal is closed. *)
LEMMA CreditCompressedKeeps ==
  ASSUME ArchiveTypeOK, ArchiveInv, CreditCompressed, alone' = FALSE, UNCHANGED fold
  PROVE  ArchiveTypeOK' /\ ArchiveInv'
<1>1. /\ job' \in Jobs
      /\ job["sweeper"].at = "credit" /\ Rests("sweeper") /\ journal' = "compressed"
      /\ FilesStay /\ RowsStay /\ ClockStays /\ overtaken' = overtaken
  BY JobRests DEF CreditCompressed, AtStep, FilesStay, HotStays, PlainStays, RowsStay, ClockStays,
         archiveFiles, archiveClock, Rests, ArchiveWorkers, ArchiveFiles, ArchiveSteps,
         ArchiveTypeOK
<1>2. ArchiveTypeOK'
  BY <1>1 DEF CreditCompressed, archiveFiles, archiveClock, ArchiveTypeOK, Jobs, JobRecords
<1>3. /\ (Uncrossed' => Uncrossed) /\ (LeftAlone' => LeftAlone /\ Uncrossed)
      /\ (Straight' => Straight /\ LeftAlone /\ LeftAlone')
  BY <1>1 DEF Uncrossed, LeftAlone, Straight
<1>4. Places' /\ JournalOpen' /\ OneRecord' /\ AloneMeans' /\ Repairing'
  BY <1>1 DEF ArchiveInv, Places, JournalOpen, OneRecord, AloneMeans, Repairing, Rests, FilesStay,
         RowsStay, ClockStays, ArchiveFiles, ArchiveWorkers, Doing, Placing, Compressing,
         SweepSteps, Comparing, Whole, IsNext, Becomes, HotStays, PlainStays, Located, Leftover
<1>5. Uncrossed' => /\ ArchiverOwns' /\ Apart' /\ SweepKeeps' /\ RestoreKeeps'
                    /\ RepairKeeps' /\ Somewhere' /\ LinesKept'
  BY <1>1, <1>3 DEF ArchiveInv, ArchiverOwns, Apart, SweepKeeps, RestoreKeeps, RepairKeeps,
         Somewhere, LinesKept, Rests, FilesStay, RowsStay, ClockStays, ArchiveFiles, ArchiveWorkers,
         Doing, SweepFacts, Selected, Compressing, IsNext, Whole, Becomes, HotStays, PlainStays,
         Comparing, Located, Leftover
<1>6. LeftAlone' => RestorerOwns' /\ ArchiverRows' /\ RowsTell' /\ RepairFolds'
  BY <1>1, <1>3 DEF ArchiveInv, RestorerOwns, ArchiverRows, RowsTell, RepairFolds, Rests, FilesStay,
         RowsStay, ClockStays, ArchiveFiles, ArchiveWorkers, Doing, Placing, Folded, Becomes,
         HotStays, PlainStays, InArchive, NoContent, Leftover
<1>7. Straight' => RowsAgree'
  BY <1>1, <1>3 DEF ArchiveInv, RestorerOwns, ArchiverRows, RowsTell, RepairFolds, Rests, FilesStay,
         RowsStay, ClockStays, ArchiveFiles, ArchiveWorkers, Doing, Placing, Folded, Becomes,
         HotStays, PlainStays, InArchive, NoContent, Leftover, RowsAgree, OneRecord
<1> QED
  BY <1>2, <1>3, <1>4, <1>5, <1>6, <1>7 DEF ArchiveInv

(* A decompression starts. *)
LEMMA StartDecompressKeeps ==
  ASSUME ArchiveTypeOK, ArchiveInv, StartDecompress, alone' = FALSE, UNCHANGED fold
  PROVE  ArchiveTypeOK' /\ ArchiveInv'
<1>1. /\ job' \in Jobs
      /\ job["sweeper"].at = "idle" /\ zst # {}
      /\ \/ plain["log"] # {} /\ Becomes("sweeper", "compare", {"log"}, {})
         \/ plain["log"] = {} /\ Becomes("sweeper", "stage", {"log"}, {})
      /\ AllStays
  BY JobBegins DEF StartDecompress, NoContent, FilesStay, HotStays, PlainStays, RowsStay,
         ClockStays, RestStays, AllStays, archiveFiles, archiveClock, ArchiveWorkers, ArchiveFiles,
         ArchiveSteps
<1>2. ArchiveTypeOK'
  BY <1>1, SpendTyped DEF StartDecompress, NoContent, archiveFiles, archiveClock, Begins,
         ArchiveTypeOK, Jobs, JobRecords, Budget
<1>3. /\ (Uncrossed' => Uncrossed) /\ (LeftAlone' => LeftAlone /\ Uncrossed)
      /\ (Straight' => Straight /\ LeftAlone /\ LeftAlone')
  BY <1>1 DEF Uncrossed, LeftAlone, Straight, AllStays
<1>4. Places' /\ JournalOpen' /\ OneRecord' /\ AloneMeans' /\ Repairing'
  BY <1>1 DEF ArchiveInv, Places, JournalOpen, OneRecord, AloneMeans, Repairing, Becomes, AllStays,
         ArchiveFiles, ArchiveWorkers, Doing, Placing, Compressing, SweepSteps, Comparing, Whole,
         IsNext, FilesStay, RestStays, HotStays, PlainStays, RowsStay, ClockStays, Located, Leftover
<1>5. Uncrossed' => /\ ArchiverOwns' /\ Apart' /\ SweepKeeps' /\ RestoreKeeps'
                    /\ RepairKeeps' /\ Somewhere' /\ LinesKept'
  BY <1>1, <1>3 DEF ArchiveInv, ArchiverOwns, Apart, SweepKeeps, RestoreKeeps, RepairKeeps,
         Somewhere, LinesKept, Becomes, AllStays, ArchiveFiles, ArchiveWorkers, Doing, SweepFacts,
         Selected, Compressing, IsNext, Whole, FilesStay, RestStays, Comparing, HotStays,
         PlainStays, RowsStay, ClockStays, Located, Leftover
<1>6. LeftAlone' => RestorerOwns' /\ ArchiverRows' /\ RowsTell' /\ RepairFolds'
  BY <1>1, <1>3 DEF ArchiveInv, RestorerOwns, ArchiverRows, RowsTell, RepairFolds, Becomes,
         AllStays, ArchiveFiles, ArchiveWorkers, Doing, Placing, Folded, FilesStay, RestStays,
         InArchive, HotStays, PlainStays, RowsStay, ClockStays, NoContent, Leftover
<1>7. Straight' => RowsAgree'
  BY <1>1, <1>3 DEF ArchiveInv, RestorerOwns, ArchiverRows, RowsTell, RepairFolds, Becomes,
         AllStays, ArchiveFiles, ArchiveWorkers, Doing, Placing, Folded, FilesStay, RestStays,
         InArchive, HotStays, PlainStays, RowsStay, ClockStays, NoContent, Leftover, RowsAgree,
         OneRecord
<1> QED
  BY <1>2, <1>3, <1>4, <1>5, <1>6, <1>7 DEF ArchiveInv

(* The compressed form is read. *)
LEMMA StageZstDoes ==
  ASSUME ArchiveTypeOK, StageZst
  PROVE
    /\ job' \in Jobs
    /\ job["sweeper"].at = "stage"
    /\ \/ Rests("sweeper")
       \/ zst # {} /\ Becomes("sweeper", "commitPlain", job["sweeper"].files, zst)
    /\ AllStays
<1>1. job["sweeper"].at = "stage" /\ AllStays
  BY DEF StageZst, AtStep, AllStays, FilesStay, HotStays, PlainStays, RestStays, RowsStay,
         ClockStays, archiveFiles, archiveClock
<1>2. CASE zst = {}
  <2>1. job' = [job EXCEPT !["sweeper"] = Rest]
    BY <1>2 DEF StageZst, NoContent
  <2> QED
    BY <1>1, <2>1, JobRests DEF ArchiveWorkers
<1>3. CASE zst # {}
  <2>1. PICK j : j = [job["sweeper"] EXCEPT !.at = "commitPlain", !.held = zst]
    OBVIOUS
  <2>2. job["sweeper"] \in JobRecords
    BY JobsTyped DEF Jobs, ArchiveWorkers
  <2>3. "commitPlain" \in ArchiveSteps /\ zst \in SUBSET (1..MaxLines)
    BY <2>2 DEF ArchiveSteps, JobRecords, ArchiveTypeOK, ArchiveFiles
  <2>4. j \in JobRecords /\ j.at = "commitPlain" /\ j.files = job["sweeper"].files /\ j.held = zst
    BY <2>1, <2>2, <2>3 DEF JobRecords
  <2>5. job' = [job EXCEPT !["sweeper"] = j]
    BY <1>3, <2>1 DEF StageZst, NoContent
  <2>6. job' \in Jobs /\ Becomes("sweeper", "commitPlain", job["sweeper"].files, zst)
    BY <2>4, <2>5, JobSet DEF ArchiveWorkers
  <2> QED
    BY <1>1, <1>3, <2>6
<1> QED
  BY <1>2, <1>3

(* The compressed form is read. *)
LEMMA StageZstKeeps ==
  ASSUME ArchiveTypeOK, ArchiveInv, StageZst, alone' = FALSE, UNCHANGED fold
  PROVE  ArchiveTypeOK' /\ ArchiveInv'
<1>1. /\ job' \in Jobs
      /\ job["sweeper"].at = "stage"
      /\ \/ Rests("sweeper")
         \/ zst # {} /\ Becomes("sweeper", "commitPlain", job["sweeper"].files, zst)
      /\ AllStays
  BY StageZstDoes
<1>2. ArchiveTypeOK'
  BY <1>1 DEF StageZst, NoContent, archiveFiles, archiveClock, ArchiveWorkers, ArchiveTypeOK, Jobs,
         JobRecords
<1>3. /\ (Uncrossed' => Uncrossed) /\ (LeftAlone' => LeftAlone /\ Uncrossed)
      /\ (Straight' => Straight /\ LeftAlone /\ LeftAlone')
  BY <1>1 DEF Uncrossed, LeftAlone, Straight, AllStays
<1>4. Places' /\ JournalOpen' /\ OneRecord' /\ AloneMeans' /\ Repairing'
  BY <1>1 DEF ArchiveInv, Places, JournalOpen, OneRecord, AloneMeans, Repairing, Becomes, Rests,
         AllStays, ArchiveFiles, ArchiveWorkers, Doing, Placing, Compressing, SweepSteps, Comparing,
         Whole, IsNext, FilesStay, RestStays, HotStays, PlainStays, RowsStay, ClockStays, Located,
         Leftover
<1>5. Uncrossed' => /\ ArchiverOwns' /\ Apart' /\ SweepKeeps' /\ RestoreKeeps'
                    /\ RepairKeeps' /\ Somewhere' /\ LinesKept'
  BY <1>1, <1>3 DEF ArchiveInv, ArchiverOwns, Apart, SweepKeeps, RestoreKeeps, RepairKeeps,
         Somewhere, LinesKept, Becomes, Rests, AllStays, ArchiveFiles, ArchiveWorkers, Doing,
         SweepFacts, Selected, Compressing, IsNext, Whole, FilesStay, RestStays, Comparing,
         HotStays, PlainStays, RowsStay, ClockStays, Located, Leftover
<1>6. LeftAlone' => RestorerOwns' /\ ArchiverRows' /\ RowsTell' /\ RepairFolds'
  BY <1>1, <1>3 DEF ArchiveInv, RestorerOwns, ArchiverRows, RowsTell, RepairFolds, Becomes, Rests,
         AllStays, ArchiveFiles, ArchiveWorkers, Doing, Placing, Folded, FilesStay, RestStays,
         InArchive, HotStays, PlainStays, RowsStay, ClockStays, NoContent, Leftover
<1>7. Straight' => RowsAgree'
  BY <1>1, <1>3 DEF ArchiveInv, RestorerOwns, ArchiverRows, RowsTell, RepairFolds, Becomes, Rests,
         AllStays, ArchiveFiles, ArchiveWorkers, Doing, Placing, Folded, FilesStay, RestStays,
         InArchive, HotStays, PlainStays, RowsStay, ClockStays, NoContent, Leftover, RowsAgree,
         OneRecord
<1> QED
  BY <1>2, <1>3, <1>4, <1>5, <1>6, <1>7 DEF ArchiveInv

(* The plain form is put in its place, if there is none. *)
LEMMA CommitPlainKeeps ==
  ASSUME ArchiveTypeOK, ArchiveInv, CommitPlain, alone' = FALSE, UNCHANGED fold
  PROVE  ArchiveTypeOK' /\ ArchiveInv'
<1>1. /\ job' \in Jobs
      /\ job["sweeper"].at = "commitPlain"
      /\ \/ plain["log"] # {} /\ Rests("sweeper") /\ PlainStays
         \/ /\ plain["log"] = {} /\ Goes("sweeper", "retireZst")
            /\ plain'["log"] = job["sweeper"].held /\ plain'["record"] = plain["record"]
      /\ HotStays /\ zst' = zst /\ aside' = aside /\ RestStays /\ overtaken' = overtaken
  BY JobGoes, JobRests DEF CommitPlain, AtStep, NoContent, HotStays, PlainStays, RowsStay,
         ClockStays, RestStays, archiveClock, Goes, Rests, ArchiveWorkers, ArchiveFiles,
         ArchiveSteps, ArchiveTypeOK
<1>2. ArchiveTypeOK'
  <2>1. hot' \in [ArchiveFiles -> SUBSET (1..MaxLines)] /\ plain' \in [ArchiveFiles -> SUBSET (1..MaxLines)]
    BY DEF CommitPlain, NoContent, ArchiveWorkers, ArchiveTypeOK
  <2> QED
    BY <1>1, <2>1 DEF CommitPlain, NoContent, archiveClock, ArchiveWorkers, ArchiveTypeOK, Jobs,
           JobRecords
<1>3. /\ (Uncrossed' => Uncrossed) /\ (LeftAlone' => LeftAlone /\ Uncrossed)
      /\ (Straight' => Straight /\ LeftAlone /\ LeftAlone')
  BY <1>1 DEF Uncrossed, LeftAlone, Straight
<1>4. Places' /\ OneRecord' /\ AloneMeans' /\ Repairing'
  BY <1>1 DEF ArchiveInv, Places, OneRecord, AloneMeans, Repairing, Goes, Rests, HotStays,
         PlainStays, RestStays, ArchiveFiles, ArchiveWorkers, Doing, Placing, Compressing,
         SweepSteps, IsNext, Becomes, RowsStay, ClockStays, Comparing, Located, Leftover
<1>5. JournalOpen'
  BY <1>1 DEF ArchiveInv, JournalOpen, Places, Goes, Rests, HotStays, PlainStays, RestStays,
         ArchiveFiles, ArchiveWorkers, Doing, Compressing, Comparing, Whole, Placing, SweepSteps,
         Becomes, RowsStay, ClockStays, Leftover
<1>6. Uncrossed' => SweepKeeps' /\ RestoreKeeps' /\ RepairKeeps' /\ Somewhere' /\ LinesKept'
  BY <1>1, <1>3 DEF ArchiveInv, SweepKeeps, RestoreKeeps, RepairKeeps, Somewhere, LinesKept, Goes,
         Rests, HotStays, PlainStays, RestStays, ArchiveFiles, ArchiveWorkers, Doing, Compressing,
         IsNext, Whole, Becomes, RowsStay, ClockStays, Located, Leftover
<1>7. Uncrossed' => ArchiverOwns'
  BY <1>1, <1>3 DEF ArchiveInv, ArchiverOwns, Places, Apart, Goes, Rests, HotStays, PlainStays,
         RestStays, ArchiveFiles, ArchiveWorkers, Doing, Placing, Compressing, SweepSteps,
         SweepFacts, Selected, Becomes, RowsStay, ClockStays, Comparing, Leftover
<1>8. Uncrossed' => Apart'
  BY <1>1, <1>3 DEF ArchiveInv, Apart, Places, Goes, Rests, HotStays, PlainStays, RestStays,
         ArchiveFiles, ArchiveWorkers, SweepFacts, Selected, Doing, Placing, Compressing,
         SweepSteps, Becomes, RowsStay, ClockStays, Comparing, Leftover
<1>9. LeftAlone' => RestorerOwns' /\ ArchiverRows' /\ RowsTell' /\ RepairFolds'
  BY <1>1, <1>3 DEF ArchiveInv, RestorerOwns, ArchiverRows, RowsTell, RepairFolds, Goes, Rests,
         HotStays, PlainStays, RestStays, ArchiveFiles, ArchiveWorkers, Doing, Placing, Folded,
         Becomes, RowsStay, ClockStays, InArchive, NoContent, Leftover
<1>10. Straight' => RowsAgree'
  BY <1>1, <1>3 DEF ArchiveInv, RestorerOwns, ArchiverRows, RowsTell, RepairFolds, Goes, Rests,
         HotStays, PlainStays, RestStays, ArchiveFiles, ArchiveWorkers, Doing, Placing, Folded,
         Becomes, RowsStay, ClockStays, InArchive, NoContent, Leftover, RowsAgree, OneRecord
<1> QED
  BY <1>2, <1>3, <1>4, <1>5, <1>6, <1>7, <1>8, <1>9, <1>10 DEF ArchiveInv

(* The compressed form of what was put in place goes. *)
LEMMA RetireZstKeeps ==
  ASSUME ArchiveTypeOK, ArchiveInv, RetireZst, alone' = FALSE, UNCHANGED fold
  PROVE  ArchiveTypeOK' /\ ArchiveInv'
<1>1. /\ job' \in Jobs
      /\ job["sweeper"].at = "retireZst" /\ Rests("sweeper") /\ journal' = "closed" /\ zst' = {}
      /\ HotStays /\ PlainStays /\ aside' = aside /\ RowsStay /\ ClockStays /\ overtaken' = overtaken
  BY JobRests DEF RetireZst, AtStep, NoContent, HotStays, PlainStays, RowsStay, ClockStays,
         archiveClock, Rests, ArchiveWorkers, ArchiveFiles, ArchiveSteps, ArchiveTypeOK
<1>2. ArchiveTypeOK'
  BY <1>1 DEF RetireZst, NoContent, archiveClock, ArchiveTypeOK, Jobs, JobRecords
<1>3. /\ (Uncrossed' => Uncrossed) /\ (LeftAlone' => LeftAlone /\ Uncrossed)
      /\ (Straight' => Straight /\ LeftAlone /\ LeftAlone')
  BY <1>1 DEF Uncrossed, LeftAlone, Straight
<1>4. Places' /\ JournalOpen' /\ OneRecord' /\ AloneMeans' /\ Repairing'
  BY <1>1 DEF ArchiveInv, Places, JournalOpen, OneRecord, AloneMeans, Repairing, Rests, HotStays,
         PlainStays, RowsStay, ClockStays, ArchiveFiles, ArchiveWorkers, Doing, Placing,
         Compressing, SweepSteps, Comparing, Whole, IsNext, Becomes, Located, Leftover
<1>5. Uncrossed' => ArchiverOwns' /\ Apart' /\ SweepKeeps' /\ RestoreKeeps' /\ RepairKeeps'
  BY <1>1, <1>3 DEF ArchiveInv, ArchiverOwns, Apart, SweepKeeps, RestoreKeeps, RepairKeeps, Rests,
         HotStays, PlainStays, RowsStay, ClockStays, ArchiveFiles, ArchiveWorkers, Doing,
         SweepFacts, Selected, Compressing, IsNext, Becomes, Comparing, Located, Leftover
<1>6. Uncrossed' => Somewhere'
  BY <1>1, <1>3 DEF ArchiveInv, Somewhere, JournalOpen, Places, Rests, HotStays, PlainStays,
         RowsStay, ClockStays, ArchiveFiles, ArchiveWorkers, Whole, Doing, Compressing, Comparing,
         Placing, SweepSteps, Becomes, Leftover
<1>7. Uncrossed' => LinesKept'
  BY <1>1, <1>3 DEF ArchiveInv, LinesKept, SweepKeeps, Places, Rests, HotStays, PlainStays,
         RowsStay, ClockStays, ArchiveFiles, ArchiveWorkers, Doing, Compressing, Placing,
         SweepSteps, Becomes, Comparing, Leftover
<1>8. LeftAlone' => RestorerOwns' /\ ArchiverRows' /\ RowsTell' /\ RepairFolds'
  BY <1>1, <1>3 DEF ArchiveInv, RestorerOwns, ArchiverRows, RowsTell, RepairFolds, Rests, HotStays,
         PlainStays, RowsStay, ClockStays, ArchiveFiles, ArchiveWorkers, Doing, Placing, Folded,
         Becomes, InArchive, NoContent, Leftover
<1>9. Straight' => RowsAgree'
  BY <1>1, <1>3 DEF ArchiveInv, RestorerOwns, ArchiverRows, RowsTell, RepairFolds, Rests, HotStays,
         PlainStays, RowsStay, ClockStays, ArchiveFiles, ArchiveWorkers, Doing, Placing, Folded,
         Becomes, InArchive, NoContent, Leftover, RowsAgree, OneRecord
<1> QED
  BY <1>2, <1>3, <1>4, <1>5, <1>6, <1>7, <1>8, <1>9 DEF ArchiveInv

(* A repair reads the rows. *)
LEMMA FoldManifestKeeps ==
  ASSUME ArchiveTypeOK, ArchiveInv, FoldManifest
  PROVE  ArchiveTypeOK' /\ ArchiveInv'
<1>1. /\ job' \in Jobs
      /\ job["repairer"].at = "idle"
      /\ Becomes("repairer", "locate", {f \in ArchiveFiles : rows[f] # "none"}, {})
      /\ \E f \in ArchiveFiles : rows[f] # "none"
      /\ fold' = rows /\ overtaken' = overtaken \ {"beside"}
      /\ alone' => editor = "out" /\ \A w \in ArchiveWorkers : job[w].at = "idle"
      /\ FilesStay /\ RestStays
  BY JobBegins DEF FoldManifest, AtStep, ArchiveFiles, ArchiveWorkers, FilesStay, HotStays,
         PlainStays, RowsStay, ClockStays, RestStays, archiveFiles, archiveClock, ArchiveSteps
<1>2. ArchiveTypeOK'
  BY <1>1, SpendTyped DEF FoldManifest, ArchiveFiles, archiveFiles, archiveClock, Begins,
         ArchiveTypeOK, Jobs, JobRecords, Budget
<1>3. /\ (Uncrossed' => Uncrossed) /\ (LeftAlone' => LeftAlone /\ Uncrossed)
      /\ (Straight' => Straight /\ LeftAlone /\ LeftAlone')
  BY <1>1 DEF Uncrossed, LeftAlone, Straight
<1>4. Places' /\ JournalOpen' /\ OneRecord' /\ AloneMeans' /\ Repairing'
  BY <1>1 DEF ArchiveInv, Places, JournalOpen, OneRecord, AloneMeans, Repairing, Becomes, FilesStay,
         RestStays, ArchiveFiles, ArchiveWorkers, Doing, Placing, Compressing, SweepSteps,
         Comparing, Whole, IsNext, HotStays, PlainStays, RowsStay, ClockStays, Located, Leftover
<1>5. Uncrossed' => /\ ArchiverOwns' /\ Apart' /\ SweepKeeps' /\ RestoreKeeps'
                    /\ RepairKeeps' /\ Somewhere' /\ LinesKept'
  BY <1>1, <1>3 DEF ArchiveInv, ArchiverOwns, Apart, SweepKeeps, RestoreKeeps, RepairKeeps,
         Somewhere, LinesKept, Becomes, FilesStay, RestStays, ArchiveFiles, ArchiveWorkers, Doing,
         SweepFacts, Selected, Compressing, IsNext, Whole, HotStays, PlainStays, RowsStay,
         ClockStays, Comparing, Located, Leftover
<1>6. LeftAlone' => RestorerOwns' /\ ArchiverRows' /\ RowsTell' /\ RepairFolds'
  BY <1>1, <1>3 DEF ArchiveInv, RestorerOwns, ArchiverRows, RowsTell, RepairFolds, Becomes,
         FilesStay, RestStays, ArchiveFiles, ArchiveWorkers, Doing, Placing, Folded, HotStays,
         PlainStays, RowsStay, ClockStays, InArchive, NoContent, Leftover
<1>7. Straight' => RowsAgree'
  BY <1>1, <1>3 DEF ArchiveInv, RestorerOwns, ArchiverRows, RowsTell, RepairFolds, Becomes,
         FilesStay, RestStays, ArchiveFiles, ArchiveWorkers, Doing, Placing, Folded, HotStays,
         PlainStays, RowsStay, ClockStays, InArchive, NoContent, Leftover, RowsAgree, OneRecord
<1> QED
  BY <1>2, <1>3, <1>4, <1>5, <1>6, <1>7 DEF ArchiveInv

(* It goes on with no other file. *)
GoesOnWith(f) == \A g \in ArchiveFiles : Located(g)' => g = f

(* A repair looks where a file is. *)
LEMMA LocateDoes ==
  ASSUME ArchiveTypeOK, NEW f \in ArchiveFiles, Locate(f)
  PROVE
    /\ job' \in Jobs
    /\ job["repairer"].at = "locate" /\ f \in job["repairer"].files
    /\ \/ Found(f) \in {fold[f], "neither"} /\ Through("repairer", f, "locate")
       \/ Found(f) \notin {fold[f], "neither"} /\ fold[f] = "archive" /\ Goes("repairer", "toArchive") /\ GoesOnWith(f)
       \/ Found(f) \notin {fold[f], "neither"} /\ fold[f] # "archive" /\ plain[f] # {}
          /\ Goes("repairer", "toHot") /\ GoesOnWith(f)
       \/ Found(f) \notin {fold[f], "neither"} /\ fold[f] # "archive" /\ plain[f] = {} /\ Goes("repairer", "fromZst")
    /\ AllStays
<1>1. job["repairer"].at = "locate" /\ f \in job["repairer"].files /\ AllStays
  BY DEF Locate, AtStep, FilesStay, HotStays, PlainStays, RowsStay, ClockStays, RestStays, AllStays,
         archiveFiles, archiveClock
<1>2. CASE Found(f) \in {fold[f], "neither"}
  BY <1>1, <1>2, JobThrough DEF Locate, ArchiveWorkers, ArchiveSteps
<1>3. CASE Found(f) \notin {fold[f], "neither"}
  <2> DEFINE step == IF fold[f] = "archive" THEN "toArchive"
                     ELSE IF plain[f] # {} THEN "toHot" ELSE "fromZst"
  <2>1. job' = [job EXCEPT !["repairer"].again = (f = "record"), !["repairer"].at = step]
    BY <1>3 DEF Locate, NoContent
  <2>2. /\ job["repairer"] \in JobRecords /\ step \in ArchiveSteps /\ (f = "record") \in BOOLEAN
        /\ job \in Jobs
    BY JobsTyped DEF Jobs, ArchiveSteps, ArchiveWorkers
  <2>3. PICK j : j = [job["repairer"] EXCEPT !.again = (f = "record"), !.at = step]
    OBVIOUS
  <2>5. /\ j \in JobRecords /\ j.at = step /\ j.again = (f = "record")
        /\ j.files = job["repairer"].files /\ j.held = job["repairer"].held
    BY <2>2, <2>3 DEF JobRecords
  <2>6. job' = [job EXCEPT !["repairer"] = j]
    BY <2>1, <2>3
  <2>7. job' \in Jobs /\ Goes("repairer", step) /\ job'["repairer"].again = (f = "record")
    BY <2>2, <2>5, <2>6, JobSet DEF Goes, Becomes, Jobs, ArchiveWorkers
  <2>4. GoesOnWith(f)
    BY <2>7 DEF GoesOnWith, Located, ArchiveFiles
  <2> QED
    BY <1>1, <1>3, <2>4, <2>7
<1> QED
  BY <1>2, <1>3

(* What it has folded stays folded. *)
LEMMA LocateFolds ==
  ASSUME ArchiveTypeOK, ArchiveInv, NEW f \in ArchiveFiles, Locate(f),
         UNCHANGED <<fold, alone>>, LeftAlone, alone
  PROVE  \A g \in ArchiveFiles : g \notin job'["repairer"].files => Folded(g)'
<1>1. /\ RowsTell /\ RepairFolds /\ ~Doing("repairer", {"idle"}) /\ fold = rows
      /\ hot["record"] = {} \/ plain["record"] = {}
  BY LocateDoes DEF ArchiveInv, LeftAlone, OneRecord, AloneMeans, Doing
<1>2. \A g \in ArchiveFiles : Folded(g)' = Folded(g)
  BY LocateDoes DEF AllStays, FilesStay, HotStays, PlainStays, Folded, InArchive
<1>3. CASE Found(f) \in {fold[f], "neither"} /\ Through("repairer", f, "locate")
  <2>1. fold[f] = "archive" => hot[f] = {}
    BY <1>1, <1>3 DEF RowsTell, Found, InArchive, NoContent, ArchiveFiles
  <2>2. fold[f] = "restore" => ~InArchive(f)
    BY <1>3 DEF Found
  <2>3. Folded(f)
    BY <2>1, <2>2 DEF Folded
  <2> QED
    BY <1>1, <1>2, <1>3, <2>3 DEF RepairFolds, Through, Becomes
<1>4. CASE job'["repairer"].files = job["repairer"].files
  BY <1>1, <1>2, <1>4 DEF RepairFolds
<1> QED
  BY <1>3, <1>4, LocateDoes DEF Goes, Becomes

(* A repair looks where a file is. *)
LEMMA LocateKeeps ==
  ASSUME ArchiveTypeOK, ArchiveInv, NEW f \in ArchiveFiles, Locate(f), UNCHANGED <<fold, alone>>
  PROVE  ArchiveTypeOK' /\ ArchiveInv'
<1>1. /\ job' \in Jobs
      /\ job["repairer"].at = "locate" /\ f \in job["repairer"].files
      /\ \/ Found(f) \in {fold[f], "neither"} /\ Through("repairer", f, "locate")
         \/ Found(f) \notin {fold[f], "neither"} /\ fold[f] = "archive" /\ Goes("repairer", "toArchive") /\ GoesOnWith(f)
         \/ Found(f) \notin {fold[f], "neither"} /\ fold[f] # "archive" /\ plain[f] # {}
            /\ Goes("repairer", "toHot") /\ GoesOnWith(f)
         \/ Found(f) \notin {fold[f], "neither"} /\ fold[f] # "archive" /\ plain[f] = {} /\ Goes("repairer", "fromZst")
      /\ AllStays
  BY LocateDoes
<1>2. ArchiveTypeOK'
  BY <1>1 DEF Locate, NoContent, archiveFiles, archiveClock, ArchiveTypeOK, Jobs, JobRecords
<1>3. /\ (Uncrossed' => Uncrossed) /\ (LeftAlone' => LeftAlone /\ Uncrossed)
      /\ (Straight' => Straight /\ LeftAlone /\ LeftAlone')
  BY <1>1 DEF Uncrossed, LeftAlone, Straight, AllStays
<1>4. JournalOpen' /\ OneRecord' /\ AloneMeans'
  BY <1>1 DEF ArchiveInv, JournalOpen, OneRecord, AloneMeans, Goes, Through, AllStays, IsNext,
         Found, ArchiveFiles, ArchiveWorkers, Doing, Compressing, Comparing, Whole, Becomes,
         FilesStay, RestStays, NoContent, InArchive, HotStays, PlainStays, RowsStay, ClockStays
<1>5. Places'
  BY <1>1 DEF ArchiveInv, Places, AloneMeans, Repairing, Goes, Through, AllStays, IsNext, Found,
         ArchiveFiles, ArchiveWorkers, Doing, Placing, Compressing, SweepSteps, Becomes, FilesStay,
         RestStays, NoContent, InArchive, Comparing, HotStays, PlainStays, RowsStay, ClockStays,
         Uncrossed, LeftAlone, ArchiveTypeOK, Located, Leftover
<1>6. Repairing'
  BY <1>1 DEF ArchiveInv, Repairing, GoesOnWith, Places, Goes, Through, AllStays, IsNext, Found, ArchiveFiles,
         ArchiveWorkers, Doing, Placing, Compressing, SweepSteps, Becomes, FilesStay, RestStays,
         NoContent, InArchive, Comparing, HotStays, PlainStays, RowsStay, ClockStays, ArchiveTypeOK,
         Located, Leftover
<1>7. Uncrossed' => /\ ArchiverOwns' /\ Apart' /\ SweepKeeps'
                    /\ RestoreKeeps' /\ Somewhere' /\ LinesKept'
  BY <1>1, <1>3 DEF ArchiveInv, ArchiverOwns, Apart, SweepKeeps, RestoreKeeps, Somewhere, LinesKept,
         Goes, Through, AllStays, IsNext, Found, ArchiveFiles, ArchiveWorkers, Doing, SweepFacts,
         Selected, Compressing, Whole, Becomes, FilesStay, RestStays, NoContent, InArchive,
         Comparing, HotStays, PlainStays, RowsStay, ClockStays, Leftover
<1>8. Uncrossed' => RepairKeeps'
  BY <1>1, <1>3 DEF ArchiveInv, RepairKeeps, GoesOnWith, Places, AloneMeans, Repairing, Goes, Through, AllStays,
         IsNext, Found, ArchiveFiles, ArchiveWorkers, Doing, Placing, Compressing, SweepSteps,
         Becomes, FilesStay, RestStays, NoContent, InArchive, Comparing, HotStays, PlainStays,
         RowsStay, ClockStays, Uncrossed, LeftAlone, ArchiveTypeOK, Located, Leftover
<1>9. LeftAlone' => RestorerOwns' /\ ArchiverRows' /\ RowsTell'
  BY <1>1, <1>3 DEF ArchiveInv, RestorerOwns, ArchiverRows, RowsTell, Goes, Through, AllStays,
         IsNext, Found, ArchiveFiles, ArchiveWorkers, Doing, Placing, Becomes, FilesStay, RestStays,
         NoContent, InArchive, HotStays, PlainStays, RowsStay, ClockStays, Leftover
<1>10. LeftAlone' => RepairFolds'
  BY <1>3, LocateFolds DEF RepairFolds
<1>11. Straight' => RowsAgree'
  BY <1>1, <1>3 DEF ArchiveInv, RestorerOwns, ArchiverRows, RowsTell, Goes, Through, AllStays,
         IsNext, Found, ArchiveFiles, ArchiveWorkers, Doing, Placing, Becomes, FilesStay, RestStays,
         NoContent, InArchive, HotStays, PlainStays, RowsStay, ClockStays, Leftover, RowsAgree,
         OneRecord
<1> QED
  BY <1>2, <1>3, <1>4, <1>5, <1>6, <1>7, <1>8, <1>9, <1>10, <1>11 DEF ArchiveInv

(* A repair that nobody disturbs moves a file where its row says. *)
LEMMA RepairRenameDoes ==
  ASSUME ArchiveTypeOK, NEW f \in ArchiveFiles, RepairRename(f)
  PROVE
    /\ job' \in Jobs
    /\ job["repairer"].at \in {"toArchive", "toHot"} /\ Located(f)
    /\ Through("repairer", f, "locate")
    /\ \/ /\ job["repairer"].at = "toArchive" /\ hot[f] # {} /\ Relocated(hot, plain, f)
          /\ overtaken' = Passes(f) \cup (IF plain[f] \ hot[f] # {} THEN {"clobbered"} ELSE {})
       \/ /\ job["repairer"].at = "toHot" /\ plain[f] # {} /\ Relocated(plain, hot, f)
          /\ overtaken' = Passes(f) \cup (IF hot[f] \ plain[f] # {} THEN {"clobbered"} ELSE {})
                             \cup (IF f = "log" /\ zst # {} THEN {"beside"} ELSE {})
       \/ /\ job["repairer"].at = "toArchive" => hot[f] = {}
          /\ job["repairer"].at = "toHot" => plain[f] = {}
          /\ HotStays /\ PlainStays /\ overtaken' = overtaken
    /\ zst' = zst /\ aside' = aside /\ RestStays
<1>1. /\ job["repairer"].at \in {"toArchive", "toHot"} /\ Located(f)
      /\ RestStays /\ zst' = zst /\ aside' = aside
  BY DEF RepairRename, AtStep, RestStays, RowsStay, ClockStays, archiveClock
<1>2. job' \in Jobs /\ Through("repairer", f, "locate")
  BY JobThrough DEF RepairRename, ArchiveWorkers, ArchiveSteps
<1>3. CASE job["repairer"].at = "toArchive" /\ hot[f] # {}
  <2>1. MoveFile(hot, plain, f) /\ Overtakes(hot, plain, f)
    BY <1>3 DEF RepairRename, AtStep, NoContent
  <2>2. Relocated(hot, plain, f)
    BY <2>1 DEF Relocated, MoveFile, ArchiveTypeOK, NoContent
  <2>3. overtaken' = Passes(f) \cup (IF plain[f] \ hot[f] # {} THEN {"clobbered"} ELSE {})
    BY <1>3, <2>1 DEF Overtakes, AtStep
  <2> QED
    BY <1>1, <1>2, <1>3, <2>2, <2>3
<1>4. CASE job["repairer"].at = "toHot" /\ plain[f] # {}
  <2>1. MoveFile(plain, hot, f) /\ Overtakes(plain, hot, f)
    BY <1>4 DEF RepairRename, AtStep, NoContent
  <2>2. Relocated(plain, hot, f)
    BY <2>1 DEF Relocated, MoveFile, ArchiveTypeOK, NoContent
  <2>3. overtaken' = Passes(f) \cup (IF hot[f] \ plain[f] # {} THEN {"clobbered"} ELSE {})
                              \cup (IF f = "log" /\ zst # {} THEN {"beside"} ELSE {})
    BY <1>4, <2>1 DEF Overtakes, AtStep, NoContent
  <2> QED
    BY <1>1, <1>2, <1>4, <2>2, <2>3
<1>5. CASE ~(job["repairer"].at = "toArchive" /\ hot[f] # {}) /\ ~(job["repairer"].at = "toHot" /\ plain[f] # {})
  <2>1. UNCHANGED <<hot, plain, overtaken>>
    BY <1>5 DEF RepairRename, AtStep, NoContent
  <2> QED
    BY <1>1, <1>2, <1>5, <2>1 DEF HotStays, PlainStays
<1> QED
  BY <1>3, <1>4, <1>5

(* What it has folded stays folded. *)
LEMMA RepairRenameFolds ==
  ASSUME ArchiveTypeOK, ArchiveInv, NEW f \in ArchiveFiles, RepairRename(f),
         UNCHANGED <<fold, alone>>, LeftAlone, alone
  PROVE  \A g \in ArchiveFiles : g \notin job'["repairer"].files => Folded(g)'
  BY RepairRenameDoes DEF ArchiveInv, Uncrossed, LeftAlone, ArchiveTypeOK, Places, Repairing,
         RepairKeeps, RepairFolds, Through, HotStays, PlainStays, RestStays, Relocated, Passes,
         Crossed, ArchiveFiles, ArchiveWorkers, Doing, Placing, Compressing, SweepSteps, Folded,
         Becomes, RowsStay, ClockStays, Comparing, InArchive, NoContent, Located, Leftover

(* A repair that nobody disturbs moves a file where its row says. *)
LEMMA RepairRenameKeeps ==
  ASSUME ArchiveTypeOK, ArchiveInv, NEW f \in ArchiveFiles, RepairRename(f),
         UNCHANGED <<fold, alone>>
  PROVE  ArchiveTypeOK' /\ ArchiveInv'
<1>1. /\ job' \in Jobs
      /\ job["repairer"].at \in {"toArchive", "toHot"} /\ Located(f)
      /\ Through("repairer", f, "locate")
      /\ \/ /\ job["repairer"].at = "toArchive" /\ hot[f] # {} /\ Relocated(hot, plain, f)
            /\ overtaken' = Passes(f) \cup (IF plain[f] \ hot[f] # {} THEN {"clobbered"} ELSE {})
         \/ /\ job["repairer"].at = "toHot" /\ plain[f] # {} /\ Relocated(plain, hot, f)
            /\ overtaken' = Passes(f) \cup (IF hot[f] \ plain[f] # {} THEN {"clobbered"} ELSE {})
                               \cup (IF f = "log" /\ zst # {} THEN {"beside"} ELSE {})
         \/ /\ job["repairer"].at = "toArchive" => hot[f] = {}
            /\ job["repairer"].at = "toHot" => plain[f] = {}
            /\ HotStays /\ PlainStays /\ overtaken' = overtaken
      /\ zst' = zst /\ aside' = aside /\ RestStays
  BY RepairRenameDoes
<1>2. ArchiveTypeOK'
  BY <1>1 DEF RepairRename, NoContent, archiveClock, MoveFile, Overtakes, Crossed, Passes, ArchiveTypeOK,
         Jobs, JobRecords
<1>3. /\ (Uncrossed' => Uncrossed) /\ (LeftAlone' => LeftAlone /\ Uncrossed)
      /\ (Straight' => LeftAlone') /\ (Straight' => Straight \/ Joins(f))
  BY <1>1 DEF Uncrossed, LeftAlone, Straight, Passes
<1>4. Places' /\ JournalOpen' /\ OneRecord' /\ AloneMeans' /\ Repairing'
  BY <1>1 DEF ArchiveInv, Places, JournalOpen, OneRecord, AloneMeans, Repairing, Through, HotStays,
         PlainStays, RestStays, Relocated, IsNext, Crossed, Passes, ArchiveFiles, ArchiveWorkers, Doing,
         Placing, Compressing, SweepSteps, Comparing, Whole, Becomes, RowsStay, ClockStays, Located,
         Leftover
<1>5. Uncrossed' => RepairKeeps' /\ Somewhere'
  BY <1>1, <1>3 DEF ArchiveInv, RepairKeeps, Somewhere, Through, HotStays, PlainStays, RestStays,
         Relocated, IsNext, Crossed, Passes, ArchiveFiles, ArchiveWorkers, Doing, Whole, Becomes, RowsStay,
         ClockStays, Located
<1>6. Uncrossed' => ArchiverOwns'
  BY <1>1, <1>3 DEF ArchiveInv, ArchiverOwns, Places, AloneMeans, Through, HotStays, PlainStays,
         RestStays, Relocated, IsNext, Crossed, Passes, ArchiveFiles, ArchiveWorkers, Doing, Placing,
         Compressing, SweepSteps, Becomes, RowsStay, ClockStays, Comparing, Uncrossed, Leftover
<1>7. Uncrossed' => Apart'
  BY <1>1, <1>3 DEF ArchiveInv, Apart, Places, AloneMeans, Through, HotStays, PlainStays, RestStays,
         Relocated, IsNext, Crossed, Passes, ArchiveFiles, ArchiveWorkers, SweepFacts, Selected, Doing,
         Placing, Compressing, SweepSteps, Becomes, RowsStay, ClockStays, Comparing, Uncrossed,
         Leftover
<1>8. Uncrossed' => SweepKeeps'
  BY <1>1, <1>3 DEF ArchiveInv, SweepKeeps, Places, AloneMeans, Through, HotStays, PlainStays,
         RestStays, Relocated, IsNext, Crossed, Passes, ArchiveFiles, ArchiveWorkers, Doing, Compressing,
         Placing, SweepSteps, Becomes, RowsStay, ClockStays, Comparing, Uncrossed, Leftover
<1>9. Uncrossed' => RestoreKeeps'
  BY <1>1, <1>3 DEF ArchiveInv, RestoreKeeps, Places, AloneMeans, Through, HotStays, PlainStays,
         RestStays, Relocated, IsNext, Crossed, Passes, ArchiveFiles, ArchiveWorkers, Doing, Compressing,
         Placing, SweepSteps, Becomes, RowsStay, ClockStays, Comparing, Uncrossed, Leftover
<1>10. Uncrossed' => LinesKept'
  BY <1>1, <1>3 DEF ArchiveInv, LinesKept, Places, AloneMeans, Through, HotStays, PlainStays,
         RestStays, Relocated, IsNext, Crossed, Passes, ArchiveFiles, ArchiveWorkers, Doing, Placing,
         Compressing, SweepSteps, Becomes, RowsStay, ClockStays, Comparing, Uncrossed, Leftover
<1>11. LeftAlone' => RestorerOwns'
  BY <1>1, <1>3 DEF ArchiveInv, RestorerOwns, Places, AloneMeans, Repairing, Through, HotStays,
         PlainStays, RestStays, Relocated, IsNext, Crossed, Passes, ArchiveFiles, ArchiveWorkers, Doing,
         Placing, Compressing, SweepSteps, Becomes, RowsStay, ClockStays, Comparing, Uncrossed,
         LeftAlone, ArchiveTypeOK, Located, Leftover
<1>12. LeftAlone' => ArchiverRows'
  BY <1>1, <1>3 DEF ArchiveInv, ArchiverRows, Places, AloneMeans, Repairing, Through, HotStays,
         PlainStays, RestStays, Relocated, IsNext, Crossed, Passes, ArchiveFiles, ArchiveWorkers, Doing,
         Placing, Compressing, SweepSteps, Becomes, RowsStay, ClockStays, Comparing, Uncrossed,
         LeftAlone, ArchiveTypeOK, Located, Leftover
<1>13. LeftAlone' => RowsTell'
  <2> SUFFICES ASSUME LeftAlone' PROVE RowsTell'
    OBVIOUS
  <2>1. RowsTell
    BY <1>3 DEF ArchiveInv
  <2>2. /\ rows' = rows /\ zst' = zst /\ job'["sweeper"] = job["sweeper"]
    BY <1>1 DEF RestStays, RowsStay, Through, Becomes, ArchiveWorkers
  <2>3. CASE hot' = hot /\ plain' = plain
    BY <2>1, <2>2, <2>3 DEF RowsTell, Doing
  <2>4. CASE ~(hot' = hot /\ plain' = plain)
    <3>1. alone
      BY <1>1, <2>4 DEF LeftAlone, Passes, Crossed, HotStays, PlainStays
    <3>2. fold = rows /\ ~Doing("repairer", {"idle"})
      BY <1>1, <3>1 DEF ArchiveInv, AloneMeans, Doing
    <3>3. /\ job["repairer"].at = "toArchive" => rows[f] = "archive"
          /\ job["repairer"].at = "toHot" => rows[f] = "restore"
      BY <1>1, <3>2 DEF ArchiveInv, Repairing, Doing
    <3>4. CASE f = "log"
      BY <1>1, <2>2, <2>4, <3>3, <3>4 DEF RowsTell, Relocated, ArchiveFiles, HotStays, PlainStays
    <3>5. CASE f = "record"
      <4>1. hot'["log"] = hot["log"] /\ plain'["log"] = plain["log"]
        BY <1>1, <2>4, <3>5 DEF Relocated, ArchiveFiles, HotStays, PlainStays
      <4> QED
        BY <2>1, <2>2, <4>1 DEF RowsTell, Doing
    <3> QED
      BY <3>4, <3>5 DEF ArchiveFiles
  <2> QED
    BY <2>3, <2>4
<1>14. LeftAlone' => RepairFolds'
  BY <1>3, RepairRenameFolds DEF RepairFolds
<1>15. Straight' => RowsAgree'
  <2> SUFFICES ASSUME Straight' PROVE RowsAgree'
    OBVIOUS
  <2>1. /\ RowsTell /\ RepairFolds /\ OneRecord /\ "late" \notin overtaken
        /\ Straight => RowsAgree
    BY <1>3 DEF ArchiveInv, LeftAlone
  <2>2. rows' = rows /\ zst' = zst /\ job'["restorer"] = job["restorer"]
    BY <1>1 DEF RestStays, RowsStay, Through, Becomes, ArchiveWorkers
  <2>3. CASE hot' = hot /\ plain' = plain
    <3>1. Straight
      BY <1>1, <2>3 DEF Straight, Passes, Relocated, Located, ArchiveFiles
    <3> QED
      BY <2>1, <2>2, <2>3, <3>1 DEF RowsAgree, Doing
  <2>4. CASE ~(hot' = hot /\ plain' = plain)
    <3>1. alone
      BY <1>1, <1>3, <2>4 DEF LeftAlone, Passes, Crossed, HotStays, PlainStays
    <3>2. /\ fold = rows /\ ~Doing("repairer", {"idle"})
          /\ job'["restorer"].at = "idle"
      BY <1>1, <2>2, <3>1 DEF ArchiveInv, AloneMeans, Doing
    <3>3. /\ job["repairer"].at = "toArchive" => rows[f] = "archive"
          /\ job["repairer"].at = "toHot" => rows[f] = "restore"
      BY <1>1, <3>2 DEF ArchiveInv, Repairing, Doing
    <3>4. ~Parts(f)
      BY <1>1, <2>4 DEF Straight, Passes, HotStays, PlainStays
    <3>5. rows["log"] \in {"none", "archive", "restore"}
      BY DEF ArchiveTypeOK, ArchiveFiles
    <3>6. CASE f = "log" /\ job["repairer"].at = "toHot"
      BY <2>2, <3>2, <3>3, <3>6 DEF RowsAgree, Doing
    <3>7. CASE f = "log" /\ job["repairer"].at = "toArchive"
      <4>1. hot'["log"] = {} /\ rows["log"] = "archive"
        BY <1>1, <2>4, <3>3, <3>7 DEF Relocated, ArchiveFiles, HotStays, PlainStays
      <4>2. rows["record"] = "archive"
        BY <1>3, <2>1, <3>2, <4>1 DEF RowsAgree, Joins
      <4> QED
        BY <2>2, <3>2, <4>1, <4>2 DEF RowsAgree, Doing
    <3>8. CASE f = "record" /\ job["repairer"].at = "toHot"
      <4>1. /\ rows["log"] # "archive" /\ plain'["record"] = {}
            /\ hot'["log"] = hot["log"]
        BY <1>1, <1>3, <2>1, <2>4, <3>3, <3>8 DEF RowsAgree, Joins, Relocated, ArchiveFiles,
               HotStays, PlainStays
      <4> QED
        BY <2>1, <2>2, <3>2, <3>5, <4>1 DEF RowsAgree, RowsTell, Doing
    <3>9. CASE f = "record" /\ job["repairer"].at = "toArchive"
      <4>1. /\ rows["record"] = "archive" /\ hot'["record"] = {}
            /\ hot'["log"] = hot["log"]
        BY <1>1, <2>4, <3>3, <3>9 DEF Relocated, ArchiveFiles, HotStays, PlainStays
      <4>2. "log" \notin job["repairer"].files \/ Found("log") = fold["log"]
        BY <3>4, <3>9 DEF Parts
      <4>3. rows["log"] = "archive" => hot["log"] = {}
        BY <2>1, <3>1, <3>2, <4>2 DEF RepairFolds, Folded, RowsTell, Found, InArchive, NoContent,
               ArchiveFiles
      <4> QED
        BY <2>2, <3>2, <4>1, <4>3 DEF RowsAgree, Doing
    <3> QED
      BY <1>1, <3>6, <3>7, <3>8, <3>9 DEF ArchiveFiles
  <2> QED
    BY <2>3, <2>4
<1> QED
  BY <1>2, <1>3, <1>4, <1>5, <1>6, <1>7, <1>8, <1>9, <1>10, <1>11, <1>12, <1>13,
         <1>14, <1>15 DEF ArchiveInv

(* A repair looks at a compressed form. *)
LEMMA RepairFromZstDoes ==
  ASSUME ArchiveTypeOK, RepairFromZst
  PROVE
    /\ job' \in Jobs
    /\ job["repairer"].at = "fromZst"
    /\ \/ (zst = {} \/ (hot["log"] # {} /\ hot["log"] # zst)) /\ Through("repairer", "log", "locate")
       \/ hot["log"] = zst /\ zst # {} /\ Becomes("repairer", "retire", job["repairer"].files, zst)
       \/ hot["log"] = {} /\ zst # {} /\ Becomes("repairer", "link", job["repairer"].files, zst)
    /\ AllStays
<1>1. job["repairer"].at = "fromZst" /\ AllStays
  BY DEF RepairFromZst, AtStep, AllStays, FilesStay, HotStays, PlainStays, RestStays, RowsStay,
         ClockStays, archiveFiles, archiveClock
<1>2. CASE zst = {} \/ (hot["log"] # {} /\ hot["log"] # zst)
  <2>1. job' \in Jobs /\ Through("repairer", "log", "locate")
    BY <1>2, JobThrough DEF RepairFromZst, NoContent, ArchiveWorkers, ArchiveFiles, ArchiveSteps
  <2> QED
    BY <1>1, <1>2, <2>1
<1>3. CASE ~(zst = {} \/ (hot["log"] # {} /\ hot["log"] # zst))
  <2> DEFINE next == IF hot["log"] = zst THEN "retire" ELSE "link"
  <2>1. job' \in Jobs /\ Becomes("repairer", next, job["repairer"].files, zst)
    BY <1>3, JobsTyped DEF RepairFromZst, NoContent, Jobs, JobRecords, Becomes, ArchiveWorkers,
           ArchiveSteps, ArchiveTypeOK
  <2> QED
    BY <1>1, <1>3, <2>1
<1> QED
  BY <1>2, <1>3

(* What it has folded stays folded. *)
LEMMA RepairFromZstFolds ==
  ASSUME ArchiveTypeOK, ArchiveInv, RepairFromZst, UNCHANGED <<fold, alone>>, LeftAlone, alone
  PROVE  \A g \in ArchiveFiles : g \notin job'["repairer"].files => Folded(g)'
<1>1. RepairFolds /\ RepairKeeps /\ Places /\ Repairing
  BY DEF ArchiveInv, LeftAlone, Uncrossed
<1>2. plain["log"] = {} /\ ~Doing("repairer", {"idle"})
  BY <1>1, RepairFromZstDoes DEF RepairKeeps, Doing, Located
<1>3. \A g \in ArchiveFiles : Folded(g)' = Folded(g)
  BY RepairFromZstDoes DEF AllStays, FilesStay, HotStays, PlainStays, Folded, InArchive
<1>4. fold["log"] = "restore"
  BY <1>1, RepairFromZstDoes DEF Repairing, Places, Doing, ArchiveFiles, Located
<1>5. CASE Through("repairer", "log", "locate") /\ (zst = {} \/ (hot["log"] # {} /\ hot["log"] # zst))
  <2>1. Folded("log")
    BY <1>2, <1>4, <1>5 DEF Folded, InArchive, NoContent
  <2> QED
    BY <1>1, <1>2, <1>3, <1>5, <2>1 DEF RepairFolds, Through, Becomes
<1>6. CASE job'["repairer"].files = job["repairer"].files
  BY <1>1, <1>2, <1>3, <1>6 DEF RepairFolds
<1> QED
  BY <1>5, <1>6, RepairFromZstDoes DEF Becomes

(* A repair looks at a compressed form. *)
LEMMA RepairFromZstKeeps ==
  ASSUME ArchiveTypeOK, ArchiveInv, RepairFromZst, UNCHANGED <<fold, alone>>
  PROVE  ArchiveTypeOK' /\ ArchiveInv'
<1>1. /\ job' \in Jobs
      /\ job["repairer"].at = "fromZst"
      /\ \/ (zst = {} \/ (hot["log"] # {} /\ hot["log"] # zst)) /\ Through("repairer", "log", "locate")
         \/ hot["log"] = zst /\ zst # {} /\ Becomes("repairer", "retire", job["repairer"].files, zst)
         \/ hot["log"] = {} /\ zst # {} /\ Becomes("repairer", "link", job["repairer"].files, zst)
      /\ AllStays
  BY RepairFromZstDoes
<1>2. ArchiveTypeOK'
  BY <1>1 DEF RepairFromZst, NoContent, archiveFiles, archiveClock, ArchiveWorkers, ArchiveTypeOK,
         Jobs, JobRecords
<1>3. /\ (Uncrossed' => Uncrossed) /\ (LeftAlone' => LeftAlone /\ Uncrossed)
      /\ (Straight' => Straight /\ LeftAlone /\ LeftAlone')
  BY <1>1 DEF Uncrossed, LeftAlone, Straight, AllStays
<1>4. Places' /\ JournalOpen' /\ OneRecord' /\ AloneMeans' /\ Repairing'
  BY <1>1 DEF ArchiveInv, Places, JournalOpen, OneRecord, AloneMeans, Repairing, Becomes, Through,
         AllStays, ArchiveFiles, ArchiveWorkers, Doing, Placing, Compressing, SweepSteps, Comparing,
         Whole, IsNext, FilesStay, RestStays, HotStays, PlainStays, RowsStay, ClockStays, Located,
         Leftover
<1>5. Uncrossed' => /\ ArchiverOwns' /\ Apart' /\ SweepKeeps' /\ RestoreKeeps'
                    /\ RepairKeeps' /\ Somewhere' /\ LinesKept'
  BY <1>1, <1>3 DEF ArchiveInv, ArchiverOwns, Apart, SweepKeeps, RestoreKeeps, RepairKeeps,
         Somewhere, LinesKept, Becomes, Through, AllStays, ArchiveFiles, ArchiveWorkers, Doing,
         SweepFacts, Selected, Compressing, IsNext, Whole, FilesStay, RestStays, Comparing,
         HotStays, PlainStays, RowsStay, ClockStays, Located, Leftover
<1>6. LeftAlone' => RestorerOwns' /\ ArchiverRows' /\ RowsTell'
  BY <1>1, <1>3 DEF ArchiveInv, RestorerOwns, ArchiverRows, RowsTell, Becomes, Through, AllStays,
         ArchiveFiles, ArchiveWorkers, Doing, Placing, FilesStay, RestStays, HotStays, PlainStays,
         RowsStay, ClockStays, Leftover
<1>7. LeftAlone' => RepairFolds'
  BY <1>3, RepairFromZstFolds DEF RepairFolds
<1>8. Straight' => RowsAgree'
  BY <1>1, <1>3 DEF ArchiveInv, RestorerOwns, ArchiverRows, RowsTell, Becomes, Through, AllStays,
         ArchiveFiles, ArchiveWorkers, Doing, Placing, FilesStay, RestStays, HotStays, PlainStays,
         RowsStay, ClockStays, Leftover, RowsAgree, OneRecord
<1> QED
  BY <1>2, <1>3, <1>4, <1>5, <1>6, <1>7, <1>8 DEF ArchiveInv

(* A repair that nobody disturbs links a compressed form into place. *)
LEMMA RepairLinkDoes ==
  ASSUME ArchiveTypeOK, RepairLink
  PROVE
    /\ job' \in Jobs
    /\ job["repairer"].at = "link"
    /\ \/ hot["log"] # {} /\ Through("repairer", "log", "locate") /\ HotStays /\ overtaken' = overtaken
       \/ /\ hot["log"] = {} /\ Goes("repairer", "retire")
          /\ hot'["log"] = job["repairer"].held /\ hot'["record"] = hot["record"]
          /\ overtaken' = Passes("log")
    /\ PlainStays /\ zst' = zst /\ aside' = aside /\ RestStays
  BY JobGoes, JobThrough DEF RepairLink, AtStep, NoContent, HotStays, PlainStays, RowsStay,
         ClockStays, RestStays, archiveClock, Goes, ArchiveWorkers, ArchiveFiles, ArchiveSteps,
         ArchiveTypeOK

(* What it has folded stays folded. *)
LEMMA RepairLinkFolds ==
  ASSUME ArchiveTypeOK, ArchiveInv, RepairLink, UNCHANGED <<fold, alone>>, LeftAlone, alone
  PROVE  \A g \in ArchiveFiles : g \notin job'["repairer"].files => Folded(g)'
  BY RepairLinkDoes DEF ArchiveInv, Uncrossed, LeftAlone, ArchiveTypeOK, Places, Repairing,
         RepairKeeps, RepairFolds, Goes, Through, HotStays, PlainStays, RestStays, Crossed, Passes,
         ArchiveFiles, ArchiveWorkers, Doing, Placing, Compressing, SweepSteps, IsNext, Folded,
         Becomes, RowsStay, ClockStays, Comparing, InArchive, NoContent, Located, Leftover

(* A repair that nobody disturbs links a compressed form into place. *)
LEMMA RepairLinkKeeps ==
  ASSUME ArchiveTypeOK, ArchiveInv, RepairLink, UNCHANGED <<fold, alone>>
  PROVE  ArchiveTypeOK' /\ ArchiveInv'
<1>1. /\ job' \in Jobs
      /\ job["repairer"].at = "link"
      /\ \/ hot["log"] # {} /\ Through("repairer", "log", "locate") /\ HotStays /\ overtaken' = overtaken
         \/ /\ hot["log"] = {} /\ Goes("repairer", "retire")
            /\ hot'["log"] = job["repairer"].held /\ hot'["record"] = hot["record"]
            /\ overtaken' = Passes("log")
      /\ PlainStays /\ zst' = zst /\ aside' = aside /\ RestStays
  BY RepairLinkDoes
<1>2. ArchiveTypeOK'
  <2>1. hot' \in [ArchiveFiles -> SUBSET (1..MaxLines)] /\ plain' \in [ArchiveFiles -> SUBSET (1..MaxLines)]
    BY DEF RepairLink, NoContent, ArchiveWorkers, ArchiveTypeOK
  <2> QED
    BY <1>1, <2>1 DEF RepairLink, NoContent, archiveClock, Crossed, Passes, ArchiveWorkers, ArchiveTypeOK,
           Jobs, JobRecords
<1>3. /\ (Uncrossed' => Uncrossed) /\ (LeftAlone' => LeftAlone /\ Uncrossed)
      /\ (Straight' => LeftAlone')
  BY <1>1 DEF Uncrossed, LeftAlone, Straight, Passes
<1>4. Places' /\ JournalOpen' /\ OneRecord' /\ AloneMeans' /\ Repairing'
  BY <1>1 DEF ArchiveInv, Places, JournalOpen, OneRecord, AloneMeans, Repairing, Goes, Through,
         HotStays, PlainStays, RestStays, Crossed, Passes, ArchiveFiles, ArchiveWorkers, Doing, Placing,
         Compressing, SweepSteps, Comparing, Whole, IsNext, Becomes, RowsStay, ClockStays, Located,
         Leftover
<1>5. Uncrossed' => ArchiverOwns' /\ SweepKeeps' /\ RestoreKeeps' /\ Somewhere' /\ LinesKept'
  BY <1>1, <1>3 DEF ArchiveInv, ArchiverOwns, SweepKeeps, RestoreKeeps, Somewhere, LinesKept, Goes,
         Through, HotStays, PlainStays, RestStays, Crossed, Passes, ArchiveFiles, ArchiveWorkers, Doing,
         Compressing, Whole, Becomes, RowsStay, ClockStays, Leftover
<1>6. Uncrossed' => Apart'
  BY <1>1, <1>3 DEF ArchiveInv, Apart, Places, AloneMeans, Goes, Through, HotStays, PlainStays,
         RestStays, Crossed, Passes, ArchiveFiles, ArchiveWorkers, SweepFacts, Selected, Doing, Placing,
         Compressing, SweepSteps, Becomes, RowsStay, ClockStays, Comparing, Uncrossed, Leftover
<1>7. Uncrossed' => RepairKeeps'
  BY <1>1, <1>3 DEF ArchiveInv, RepairKeeps, Places, Goes, Through, HotStays, PlainStays, RestStays,
         Crossed, Passes, ArchiveFiles, ArchiveWorkers, IsNext, Doing, Placing, Compressing, SweepSteps,
         Becomes, RowsStay, ClockStays, Comparing, Located, Leftover
<1>8. LeftAlone' => RestorerOwns'
  BY <1>1, <1>3 DEF ArchiveInv, RestorerOwns, Places, AloneMeans, Repairing, Goes, Through,
         HotStays, PlainStays, RestStays, Crossed, Passes, ArchiveFiles, ArchiveWorkers, Doing, Placing,
         Compressing, SweepSteps, IsNext, Becomes, RowsStay, ClockStays, Comparing, Uncrossed,
         LeftAlone, ArchiveTypeOK, Located, Leftover
<1>9. LeftAlone' => ArchiverRows'
  BY <1>1, <1>3 DEF ArchiveInv, ArchiverRows, Places, AloneMeans, Repairing, Goes, Through,
         HotStays, PlainStays, RestStays, Crossed, Passes, ArchiveFiles, ArchiveWorkers, Doing, Placing,
         Compressing, SweepSteps, IsNext, Becomes, RowsStay, ClockStays, Comparing, Uncrossed,
         LeftAlone, ArchiveTypeOK, Located, Leftover
<1>10. LeftAlone' => RowsTell'
  BY <1>1, <1>3 DEF ArchiveInv, RowsTell, Places, AloneMeans, Repairing, Goes, Through, HotStays,
         PlainStays, RestStays, Crossed, Passes, ArchiveFiles, ArchiveWorkers, Doing, Placing, Compressing,
         SweepSteps, IsNext, Becomes, RowsStay, ClockStays, Comparing, Uncrossed, LeftAlone,
         ArchiveTypeOK, Located, Leftover
<1>11. LeftAlone' => RepairFolds'
  BY <1>3, RepairLinkFolds DEF RepairFolds
<1>12. Straight' => RowsAgree'
  <2> SUFFICES ASSUME Straight' PROVE RowsAgree'
    OBVIOUS
  <2>1. rows' = rows /\ PlainStays /\ job'["restorer"] = job["restorer"]
    BY <1>1 DEF RestStays, RowsStay, Goes, Through, Becomes, ArchiveWorkers
  <2>2. CASE HotStays /\ overtaken' = overtaken
    <3>1. RowsAgree
      BY <2>2 DEF ArchiveInv, Straight
    <3> QED
      BY <2>1, <2>2, <3>1 DEF RowsAgree, Doing, HotStays, PlainStays
  <2>3. CASE ~(HotStays /\ overtaken' = overtaken)
    <3>1. alone
      BY <1>1, <1>3, <2>3 DEF LeftAlone, Passes, Crossed
    <3>2. rows["log"] = "restore"
      BY <1>1, <3>1 DEF ArchiveInv, AloneMeans, Repairing, Doing
    <3> QED
      BY <2>1, <3>2 DEF RowsAgree
  <2> QED
    BY <2>2, <2>3
<1> QED
  BY <1>2, <1>3, <1>4, <1>5, <1>6, <1>7, <1>8, <1>9, <1>10, <1>11, <1>12 DEF ArchiveInv

(* A repair that nobody disturbs removes the form that it has linked. *)
LEMMA RepairRetireDoes ==
  ASSUME ArchiveTypeOK, RepairRetire
  PROVE
    /\ job' \in Jobs
    /\ job["repairer"].at = "retire" /\ Through("repairer", "log", "locate") /\ zst' = {}
    /\ HotStays /\ PlainStays /\ aside' = aside /\ RestStays /\ overtaken' = overtaken \cup Crossed
  BY JobThrough DEF RepairRetire, AtStep, NoContent, HotStays, PlainStays, RowsStay, ClockStays,
         RestStays, archiveClock, ArchiveWorkers, ArchiveFiles, ArchiveSteps

(* What it has folded stays folded. *)
LEMMA RepairRetireFolds ==
  ASSUME ArchiveTypeOK, ArchiveInv, RepairRetire, UNCHANGED <<fold, alone>>, LeftAlone, alone
  PROVE  \A g \in ArchiveFiles : g \notin job'["repairer"].files => Folded(g)'
  BY RepairRetireDoes DEF ArchiveInv, Uncrossed, LeftAlone, ArchiveTypeOK, Places, Repairing,
         RepairKeeps, RepairFolds, Through, HotStays, PlainStays, RestStays, Crossed, ArchiveFiles,
         ArchiveWorkers, Doing, Placing, Compressing, SweepSteps, IsNext, Folded, Becomes, RowsStay,
         ClockStays, Comparing, InArchive, NoContent, Located, Leftover

(* A repair that nobody disturbs removes the form that it has linked. *)
LEMMA RepairRetireKeeps ==
  ASSUME ArchiveTypeOK, ArchiveInv, RepairRetire, UNCHANGED <<fold, alone>>
  PROVE  ArchiveTypeOK' /\ ArchiveInv'
<1>1. /\ job' \in Jobs
      /\ job["repairer"].at = "retire" /\ Through("repairer", "log", "locate") /\ zst' = {}
      /\ HotStays /\ PlainStays /\ aside' = aside /\ RestStays /\ overtaken' = overtaken \cup Crossed
  BY RepairRetireDoes
<1>2. ArchiveTypeOK'
  BY <1>1 DEF RepairRetire, NoContent, archiveClock, Crossed, ArchiveTypeOK, Jobs, JobRecords
<1>3. /\ (Uncrossed' => Uncrossed) /\ (LeftAlone' => LeftAlone /\ Uncrossed)
      /\ (Straight' => Straight /\ LeftAlone /\ LeftAlone')
  BY <1>1 DEF Uncrossed, LeftAlone, Straight
<1>4. Places' /\ JournalOpen' /\ OneRecord' /\ AloneMeans' /\ Repairing'
  BY <1>1 DEF ArchiveInv, Places, JournalOpen, OneRecord, AloneMeans, Repairing, Through, HotStays,
         PlainStays, RestStays, Crossed, ArchiveFiles, ArchiveWorkers, Doing, Placing, Compressing,
         SweepSteps, Comparing, Whole, IsNext, Becomes, RowsStay, ClockStays, Located, Leftover
<1>5. Uncrossed' => ArchiverOwns' /\ RestoreKeeps' /\ RepairKeeps'
  BY <1>1, <1>3 DEF ArchiveInv, ArchiverOwns, RestoreKeeps, RepairKeeps, Through, HotStays,
         PlainStays, RestStays, Crossed, ArchiveFiles, ArchiveWorkers, Doing, Compressing, IsNext,
         Becomes, RowsStay, ClockStays, Located, Leftover
<1>6. Uncrossed' => Apart'
  BY <1>1, <1>3 DEF ArchiveInv, Apart, Places, AloneMeans, Through, HotStays, PlainStays, RestStays,
         Crossed, ArchiveFiles, ArchiveWorkers, SweepFacts, Selected, Doing, Placing, Compressing,
         SweepSteps, Becomes, RowsStay, ClockStays, Comparing, Uncrossed, Leftover
<1>7. Uncrossed' => SweepKeeps'
  BY <1>1, <1>3 DEF ArchiveInv, SweepKeeps, Places, AloneMeans, Through, HotStays, PlainStays,
         RestStays, Crossed, ArchiveFiles, ArchiveWorkers, Doing, Compressing, Placing, SweepSteps,
         Becomes, RowsStay, ClockStays, Comparing, Uncrossed, Leftover
<1>8. Uncrossed' => Somewhere'
  BY <1>1, <1>3 DEF ArchiveInv, Somewhere, Places, AloneMeans, Repairing, RepairKeeps, Through,
         HotStays, PlainStays, RestStays, Crossed, ArchiveFiles, ArchiveWorkers, Whole, Doing,
         Placing, Compressing, SweepSteps, IsNext, Becomes, RowsStay, ClockStays, Comparing,
         Uncrossed, ArchiveTypeOK, Located, Leftover
<1>9. Uncrossed' => LinesKept'
  BY <1>1, <1>3 DEF ArchiveInv, LinesKept, Places, AloneMeans, Repairing, RepairKeeps, Through,
         HotStays, PlainStays, RestStays, Crossed, ArchiveFiles, ArchiveWorkers, Doing, Placing,
         Compressing, SweepSteps, IsNext, Becomes, RowsStay, ClockStays, Comparing, Uncrossed,
         ArchiveTypeOK, Located, Leftover
<1>10. LeftAlone' => RestorerOwns' /\ ArchiverRows' /\ RowsTell'
  BY <1>1, <1>3 DEF ArchiveInv, RestorerOwns, ArchiverRows, RowsTell, Through, HotStays, PlainStays,
         RestStays, Crossed, ArchiveFiles, ArchiveWorkers, Doing, Placing, Becomes, RowsStay,
         ClockStays, Leftover
<1>11. LeftAlone' => RepairFolds'
  BY <1>3, RepairRetireFolds DEF RepairFolds
<1>12. Straight' => RowsAgree'
  BY <1>1, <1>3 DEF ArchiveInv, RestorerOwns, ArchiverRows, RowsTell, Through, HotStays, PlainStays,
         RestStays, Crossed, ArchiveFiles, ArchiveWorkers, Doing, Placing, Becomes, RowsStay,
         ClockStays, Leftover, RowsAgree, OneRecord
<1> QED
  BY <1>2, <1>3, <1>4, <1>5, <1>6, <1>7, <1>8, <1>9, <1>10, <1>11, <1>12 DEF ArchiveInv

(* An owner opens the session. *)
LEMMA OwnerOpensKeeps ==
  ASSUME ArchiveTypeOK, ArchiveInv, OwnerOpens, alone' = FALSE, UNCHANGED fold
  PROVE  ArchiveTypeOK' /\ ArchiveInv'
<1>1. /\ job' \in Jobs
      /\ editor = "out" /\ hot["record"] # {} /\ editor' = "in" /\ job' = job
      /\ FilesStay /\ RowsStay /\ journal' = journal /\ overtaken' = overtaken
      /\ touched' = touched /\ graced' = graced /\ spoken' = spoken
  BY JobsTyped DEF OwnerOpens, NoContent, FilesStay, HotStays, PlainStays, RowsStay, archiveFiles,
         ArchiveWorkers, ArchiveFiles, ArchiveSteps
<1>2. ArchiveTypeOK'
  BY <1>1, ArchiveAssumption DEF OwnerOpens, NoContent, archiveFiles, ArchiveTypeOK, Jobs,
         JobRecords
<1>3. /\ (Uncrossed' => Uncrossed) /\ (LeftAlone' => LeftAlone /\ Uncrossed)
      /\ (Straight' => Straight /\ LeftAlone /\ LeftAlone')
  BY <1>1 DEF Uncrossed, LeftAlone, Straight
<1>4. Places' /\ JournalOpen' /\ OneRecord' /\ AloneMeans' /\ Repairing'
  BY <1>1 DEF ArchiveInv, Places, JournalOpen, OneRecord, AloneMeans, Repairing, FilesStay,
         RowsStay, ArchiveFiles, ArchiveWorkers, Doing, Placing, Compressing, SweepSteps, Comparing,
         Whole, IsNext, HotStays, PlainStays, Located, Leftover
<1>5. Uncrossed' => /\ ArchiverOwns' /\ Apart' /\ SweepKeeps' /\ RestoreKeeps'
                    /\ RepairKeeps' /\ Somewhere' /\ LinesKept'
  BY <1>1, <1>3 DEF ArchiveInv, ArchiverOwns, Apart, SweepKeeps, RestoreKeeps, RepairKeeps,
         Somewhere, LinesKept, FilesStay, RowsStay, ArchiveFiles, ArchiveWorkers, Doing, SweepFacts,
         Selected, Compressing, IsNext, Whole, HotStays, PlainStays, Comparing, Located, Leftover
<1>6. LeftAlone' => RestorerOwns' /\ ArchiverRows' /\ RowsTell' /\ RepairFolds'
  BY <1>1, <1>3 DEF ArchiveInv, RestorerOwns, ArchiverRows, RowsTell, RepairFolds, FilesStay,
         RowsStay, ArchiveFiles, ArchiveWorkers, Doing, Placing, Folded, HotStays, PlainStays,
         InArchive, NoContent, Leftover
<1>7. Straight' => RowsAgree'
  BY <1>1, <1>3 DEF ArchiveInv, RestorerOwns, ArchiverRows, RowsTell, RepairFolds, FilesStay,
         RowsStay, ArchiveFiles, ArchiveWorkers, Doing, Placing, Folded, HotStays, PlainStays,
         InArchive, NoContent, Leftover, RowsAgree, OneRecord
<1> QED
  BY <1>2, <1>3, <1>4, <1>5, <1>6, <1>7 DEF ArchiveInv

(* An owner appends a line to the transcript, or has overtaken a run. *)
LEMMA OwnerAppendsKeeps ==
  ASSUME ArchiveTypeOK, ArchiveInv, OwnerAppends, alone' = FALSE, UNCHANGED fold
  PROVE  ArchiveTypeOK' /\ ArchiveInv'
<1>1. /\ job' \in Jobs
      /\ editor = "in" /\ editor' = "wrote" /\ touched' /\ graced' = graced /\ spoken' = spoken + 1 /\ job' = job
      /\ hot'["log"] = hot["log"] \cup {spoken + 1} /\ hot'["record"] = hot["record"]
      /\ overtaken' = overtaken \cup (IF hot["log"] = {} THEN {"late"} ELSE {})
      /\ PlainStays /\ zst' = zst /\ aside' = aside /\ RowsStay /\ journal' = journal
  BY JobsTyped DEF OwnerAppends, NoContent, PlainStays, RowsStay, Creates, ArchiveWorkers,
         ArchiveFiles, ArchiveSteps, ArchiveTypeOK
<1>2. ArchiveTypeOK'
  <2>1. spoken' \in 1..MaxLines /\ {spoken + 1} \subseteq 1..MaxLines
    BY ArchiveAssumption DEF OwnerAppends, ArchiveTypeOK
  <2>2. hot' \in [ArchiveFiles -> SUBSET (1..MaxLines)]
    BY <2>1 DEF OwnerAppends, ArchiveTypeOK
  <2> QED
    BY <1>1, <2>1, <2>2 DEF OwnerAppends, NoContent, Creates, ArchiveTypeOK, Jobs, JobRecords
<1>3. /\ (Uncrossed' => Uncrossed) /\ (LeftAlone' => LeftAlone /\ Uncrossed)
      /\ (Straight' => Straight /\ LeftAlone /\ LeftAlone')
  BY <1>1 DEF Uncrossed, LeftAlone, Straight
<1>4. Places' /\ JournalOpen' /\ OneRecord' /\ AloneMeans' /\ Repairing'
  BY <1>1 DEF ArchiveInv, Places, JournalOpen, OneRecord, AloneMeans, Repairing, PlainStays,
         RowsStay, ArchiveFiles, ArchiveWorkers, Doing, Placing, Compressing, SweepSteps, Comparing,
         Whole, IsNext, Located, Leftover
<1>5. Uncrossed' => /\ ArchiverOwns' /\ Apart' /\ SweepKeeps'
                    /\ RestoreKeeps' /\ RepairKeeps' /\ Somewhere'
  BY <1>1, <1>3 DEF ArchiveInv, ArchiverOwns, Apart, SweepKeeps, RestoreKeeps, RepairKeeps,
         Somewhere, PlainStays, RowsStay, ArchiveFiles, ArchiveWorkers, Doing, SweepFacts, Selected,
         Compressing, IsNext, Whole, Comparing, Located, Leftover
<1>6. Uncrossed' => LinesKept'
  BY <1>1, <1>3 DEF ArchiveInv, LinesKept, Places, PlainStays, RowsStay, ArchiveFiles,
         ArchiveWorkers, Doing, Placing, Compressing, SweepSteps, Comparing, ArchiveTypeOK, Leftover
<1>7. LeftAlone' => RepairFolds'
  BY <1>1, <1>3 DEF ArchiveInv, RepairFolds, PlainStays, RowsStay, ArchiveFiles, ArchiveWorkers,
         Folded, Doing, InArchive, NoContent
<1>8. LeftAlone' => RestorerOwns'
  BY <1>1, <1>3 DEF ArchiveInv, RestorerOwns, PlainStays, RowsStay, ArchiveFiles, ArchiveWorkers,
         Doing, Placing, Uncrossed, LeftAlone, Leftover
<1>9. LeftAlone' => ArchiverRows'
  BY <1>1, <1>3 DEF ArchiveInv, ArchiverRows, PlainStays, RowsStay, ArchiveFiles, ArchiveWorkers,
         Doing, Uncrossed, LeftAlone
<1>10. LeftAlone' => RowsTell'
  BY <1>1, <1>3 DEF ArchiveInv, RowsTell, PlainStays, RowsStay, ArchiveFiles, ArchiveWorkers,
         Doing, Uncrossed, LeftAlone
<1>11. Straight' => RowsAgree'
  BY <1>1, <1>3 DEF ArchiveInv, RowsTell, PlainStays, RowsStay, ArchiveFiles, ArchiveWorkers, Doing,
         Uncrossed, LeftAlone, RowsAgree, OneRecord
<1> QED
  BY <1>2, <1>3, <1>4, <1>5, <1>6, <1>7, <1>8, <1>9, <1>10, <1>11 DEF ArchiveInv

(* An owner saves the record, or has overtaken a run. *)
LEMMA OwnerSavesKeeps ==
  ASSUME ArchiveTypeOK, ArchiveInv, OwnerSaves, alone' = FALSE, UNCHANGED fold
  PROVE  ArchiveTypeOK' /\ ArchiveInv'
<1>1. /\ job' \in Jobs
      /\ editor = "wrote" /\ editor' = "in" /\ job' = job
      /\ hot'["log"] = hot["log"] /\ hot'["record"] = 1..spoken
      /\ overtaken' = overtaken \cup (IF hot["record"] = {} THEN {"late"} ELSE {})
      /\ touched' = touched /\ graced' = graced /\ spoken' = spoken
      /\ PlainStays /\ zst' = zst /\ aside' = aside /\ RowsStay /\ journal' = journal
  BY JobsTyped DEF OwnerSaves, NoContent, PlainStays, RowsStay, Creates, ArchiveWorkers,
         ArchiveFiles, ArchiveSteps, ArchiveTypeOK
<1>2. ArchiveTypeOK'
  <2>1. spoken' \in 1..MaxLines /\ 1..spoken \subseteq 1..MaxLines
    BY ArchiveAssumption DEF OwnerSaves, ArchiveTypeOK
  <2>2. hot' \in [ArchiveFiles -> SUBSET (1..MaxLines)]
    BY <2>1 DEF OwnerSaves, ArchiveTypeOK
  <2> QED
    BY <1>1, <2>1, <2>2 DEF OwnerSaves, NoContent, Creates, ArchiveTypeOK, Jobs, JobRecords
<1>3. /\ (Uncrossed' => Uncrossed) /\ (LeftAlone' => LeftAlone /\ Uncrossed)
      /\ (Straight' => Straight /\ LeftAlone /\ LeftAlone')
  BY <1>1 DEF Uncrossed, LeftAlone, Straight
<1>4. Places' /\ JournalOpen' /\ OneRecord' /\ AloneMeans' /\ Repairing'
  BY <1>1 DEF ArchiveInv, Places, JournalOpen, OneRecord, AloneMeans, Repairing, PlainStays,
         RowsStay, ArchiveFiles, ArchiveWorkers, Doing, Placing, Compressing, SweepSteps, Comparing,
         Whole, IsNext, Located, Leftover
<1>5. Uncrossed' => SweepKeeps' /\ RestoreKeeps' /\ RepairKeeps' /\ Somewhere' /\ LinesKept'
  BY <1>1, <1>3 DEF ArchiveInv, SweepKeeps, RestoreKeeps, RepairKeeps, Somewhere, LinesKept,
         PlainStays, RowsStay, ArchiveFiles, ArchiveWorkers, Doing, Compressing, IsNext, Whole,
         Located, Leftover
<1>6. Uncrossed' => ArchiverOwns'
  BY <1>1, <1>3 DEF ArchiveInv, ArchiverOwns, Places, PlainStays, RowsStay, ArchiveFiles,
         ArchiveWorkers, Doing, Placing, Compressing, SweepSteps, Comparing, ArchiveTypeOK, Leftover
<1>7. Uncrossed' => Apart'
  BY <1>1, <1>3 DEF ArchiveInv, Apart, Places, PlainStays, RowsStay, ArchiveFiles, ArchiveWorkers,
         SweepFacts, Selected, Doing, Placing, Compressing, SweepSteps, Comparing, Leftover
<1>8. LeftAlone' => ArchiverRows' /\ RepairFolds'
  BY <1>1, <1>3 DEF ArchiveInv, ArchiverRows, RepairFolds, PlainStays, RowsStay, ArchiveFiles,
         ArchiveWorkers, Doing, Folded, InArchive, NoContent
<1>9. LeftAlone' => RestorerOwns'
  BY <1>1, <1>3 DEF ArchiveInv, RestorerOwns, PlainStays, RowsStay, ArchiveFiles, ArchiveWorkers,
         Doing, Placing, Uncrossed, LeftAlone, Leftover
<1>10. LeftAlone' => RowsTell'
  BY <1>1, <1>3 DEF ArchiveInv, RowsTell, Places, PlainStays, RowsStay, ArchiveFiles,
         ArchiveWorkers, Doing, Placing, Compressing, SweepSteps, Comparing, ArchiveTypeOK, Leftover
<1>11. Straight' => RowsAgree'
  BY <1>1, <1>3 DEF ArchiveInv, RowsTell, Places, PlainStays, RowsStay, ArchiveFiles,
         ArchiveWorkers, Doing, Placing, Compressing, SweepSteps, Comparing, ArchiveTypeOK,
         Leftover, RowsAgree, OneRecord
<1> QED
  BY <1>2, <1>3, <1>4, <1>5, <1>6, <1>7, <1>8, <1>9, <1>10, <1>11 DEF ArchiveInv

(* An owner leaves the session. *)
LEMMA EditorEndsKeeps ==
  ASSUME ArchiveTypeOK, ArchiveInv, EditorEnds, alone' = FALSE, UNCHANGED fold
  PROVE  ArchiveTypeOK' /\ ArchiveInv'
<1>1. /\ job' \in Jobs
      /\ editor = "in" /\ editor' = "out" /\ job' = job
      /\ FilesStay /\ RowsStay /\ journal' = journal /\ overtaken' = overtaken
      /\ touched' = touched /\ graced' = graced /\ spoken' = spoken
  BY JobsTyped DEF EditorEnds, FilesStay, HotStays, PlainStays, RowsStay, archiveFiles,
         ArchiveWorkers, ArchiveFiles, ArchiveSteps
<1>2. ArchiveTypeOK'
  BY <1>1 DEF EditorEnds, archiveFiles, ArchiveTypeOK, Jobs, JobRecords
<1>3. /\ (Uncrossed' => Uncrossed) /\ (LeftAlone' => LeftAlone /\ Uncrossed)
      /\ (Straight' => Straight /\ LeftAlone /\ LeftAlone')
  BY <1>1 DEF Uncrossed, LeftAlone, Straight
<1>4. Places' /\ JournalOpen' /\ OneRecord' /\ AloneMeans' /\ Repairing'
  BY <1>1 DEF ArchiveInv, Places, JournalOpen, OneRecord, AloneMeans, Repairing, FilesStay,
         RowsStay, ArchiveFiles, ArchiveWorkers, Doing, Placing, Compressing, SweepSteps, Comparing,
         Whole, IsNext, HotStays, PlainStays, Located, Leftover
<1>5. Uncrossed' => /\ ArchiverOwns' /\ Apart' /\ SweepKeeps' /\ RestoreKeeps'
                    /\ RepairKeeps' /\ Somewhere' /\ LinesKept'
  BY <1>1, <1>3 DEF ArchiveInv, ArchiverOwns, Apart, SweepKeeps, RestoreKeeps, RepairKeeps,
         Somewhere, LinesKept, FilesStay, RowsStay, ArchiveFiles, ArchiveWorkers, Doing, SweepFacts,
         Selected, Compressing, IsNext, Whole, HotStays, PlainStays, Comparing, Located, Leftover
<1>6. LeftAlone' => RestorerOwns' /\ ArchiverRows' /\ RowsTell' /\ RepairFolds'
  BY <1>1, <1>3 DEF ArchiveInv, RestorerOwns, ArchiverRows, RowsTell, RepairFolds, FilesStay,
         RowsStay, ArchiveFiles, ArchiveWorkers, Doing, Placing, Folded, HotStays, PlainStays,
         InArchive, NoContent, Leftover
<1>7. Straight' => RowsAgree'
  BY <1>1, <1>3 DEF ArchiveInv, RestorerOwns, ArchiverRows, RowsTell, RepairFolds, FilesStay,
         RowsStay, ArchiveFiles, ArchiveWorkers, Doing, Placing, Folded, HotStays, PlainStays,
         InArchive, NoContent, Leftover, RowsAgree, OneRecord
<1> QED
  BY <1>2, <1>3, <1>4, <1>5, <1>6, <1>7 DEF ArchiveInv

(* Time passes when nobody is at work. *)
LEMMA ArchiveTimePassesKeeps ==
  ASSUME ArchiveTypeOK, ArchiveInv, ArchiveTimePasses, alone' = FALSE, UNCHANGED fold
  PROVE  ArchiveTypeOK' /\ ArchiveInv'
<1>1. /\ job' \in Jobs
      /\ editor = "out" /\ \A w \in ArchiveWorkers : job[w].at = "idle"
      /\ ~touched' /\ graced' \in {graced, FALSE} /\ editor' = editor /\ spoken' = spoken /\ job' = job
      /\ FilesStay /\ RowsStay /\ journal' = journal /\ overtaken' = overtaken
  BY JobsTyped DEF ArchiveTimePasses, AtStep, ArchiveWorkers, FilesStay, HotStays, PlainStays,
         RowsStay, archiveFiles, ArchiveFiles, ArchiveSteps
<1>2. ArchiveTypeOK'
  BY <1>1 DEF ArchiveTimePasses, archiveFiles, ArchiveTypeOK, Jobs, JobRecords
<1>3. /\ (Uncrossed' => Uncrossed) /\ (LeftAlone' => LeftAlone /\ Uncrossed)
      /\ (Straight' => Straight /\ LeftAlone /\ LeftAlone')
  BY <1>1 DEF Uncrossed, LeftAlone, Straight
<1>4. Places' /\ JournalOpen' /\ OneRecord' /\ AloneMeans' /\ Repairing'
  BY <1>1 DEF ArchiveInv, Places, JournalOpen, OneRecord, AloneMeans, Repairing, FilesStay,
         RowsStay, ArchiveFiles, ArchiveWorkers, Doing, Placing, Compressing, SweepSteps, Comparing,
         Whole, IsNext, HotStays, PlainStays, Located, Leftover
<1>5. Uncrossed' => /\ ArchiverOwns' /\ Apart' /\ SweepKeeps' /\ RestoreKeeps'
                    /\ RepairKeeps' /\ Somewhere' /\ LinesKept'
  BY <1>1, <1>3 DEF ArchiveInv, ArchiverOwns, Apart, SweepKeeps, RestoreKeeps, RepairKeeps,
         Somewhere, LinesKept, FilesStay, RowsStay, ArchiveFiles, ArchiveWorkers, Doing, SweepFacts,
         Selected, Compressing, IsNext, Whole, HotStays, PlainStays, Comparing, Located, Leftover
<1>6. LeftAlone' => RestorerOwns' /\ ArchiverRows' /\ RowsTell' /\ RepairFolds'
  BY <1>1, <1>3 DEF ArchiveInv, RestorerOwns, ArchiverRows, RowsTell, RepairFolds, FilesStay,
         RowsStay, ArchiveFiles, ArchiveWorkers, Doing, Placing, Folded, HotStays, PlainStays,
         InArchive, NoContent, Leftover
<1>7. Straight' => RowsAgree'
  BY <1>1, <1>3 DEF ArchiveInv, RestorerOwns, ArchiverRows, RowsTell, RepairFolds, FilesStay,
         RowsStay, ArchiveFiles, ArchiveWorkers, Doing, Placing, Folded, HotStays, PlainStays,
         InArchive, NoContent, Leftover, RowsAgree, OneRecord
<1> QED
  BY <1>2, <1>3, <1>4, <1>5, <1>6, <1>7 DEF ArchiveInv

(* What a worker remembers is gone with it. *)
LEMMA KilledKeeps ==
  ASSUME ArchiveTypeOK, ArchiveInv, NEW w \in ArchiveWorkers, Killed(w),
         alone' = FALSE, UNCHANGED fold
  PROVE  ArchiveTypeOK' /\ ArchiveInv'
<1>1. /\ job' \in Jobs
      /\ Rests(w) /\ AllStays
  BY JobRests DEF Killed, AtStep, FilesStay, HotStays, PlainStays, RowsStay, ClockStays, RestStays,
         AllStays, archiveFiles, archiveClock, Rests, ArchiveWorkers, ArchiveFiles, ArchiveSteps,
         ArchiveTypeOK
<1>2. ArchiveTypeOK'
  BY <1>1, SpendTyped DEF Killed, archiveFiles, archiveClock, ArchiveTypeOK, Jobs, JobRecords,
         Budget
<1>3. /\ (Uncrossed' => Uncrossed) /\ (LeftAlone' => LeftAlone /\ Uncrossed)
      /\ (Straight' => Straight /\ LeftAlone /\ LeftAlone')
  BY <1>1 DEF Uncrossed, LeftAlone, Straight, AllStays
<1>4. Places' /\ JournalOpen' /\ OneRecord' /\ AloneMeans' /\ Repairing'
  BY <1>1 DEF ArchiveInv, Places, JournalOpen, OneRecord, AloneMeans, Repairing, Rests, AllStays,
         ArchiveFiles, ArchiveWorkers, Doing, Placing, Compressing, SweepSteps, Comparing, Whole,
         IsNext, Becomes, FilesStay, RestStays, HotStays, PlainStays, RowsStay, ClockStays, Located,
         Leftover
<1>5. Uncrossed' => /\ ArchiverOwns' /\ Apart' /\ SweepKeeps' /\ RestoreKeeps'
                    /\ RepairKeeps' /\ Somewhere' /\ LinesKept'
  BY <1>1, <1>3 DEF ArchiveInv, ArchiverOwns, Apart, SweepKeeps, RestoreKeeps, RepairKeeps,
         Somewhere, LinesKept, Rests, AllStays, ArchiveFiles, ArchiveWorkers, Doing, SweepFacts,
         Selected, Compressing, IsNext, Whole, Becomes, FilesStay, RestStays, Comparing, HotStays,
         PlainStays, RowsStay, ClockStays, Located, Leftover
<1>6. LeftAlone' => RestorerOwns' /\ ArchiverRows' /\ RowsTell' /\ RepairFolds'
  BY <1>1, <1>3 DEF ArchiveInv, RestorerOwns, ArchiverRows, RowsTell, RepairFolds, Rests, AllStays,
         ArchiveFiles, ArchiveWorkers, Doing, Placing, Folded, Becomes, FilesStay, RestStays,
         InArchive, HotStays, PlainStays, RowsStay, ClockStays, NoContent, Leftover
<1>7. Straight' => RowsAgree'
  BY <1>1, <1>3 DEF ArchiveInv, RestorerOwns, ArchiverRows, RowsTell, RepairFolds, Rests, AllStays,
         ArchiveFiles, ArchiveWorkers, Doing, Placing, Folded, Becomes, FilesStay, RestStays,
         InArchive, HotStays, PlainStays, RowsStay, ClockStays, NoContent, Leftover, RowsAgree,
         OneRecord
<1> QED
  BY <1>2, <1>3, <1>4, <1>5, <1>6, <1>7 DEF ArchiveInv

(* At the start nobody is at work, and the rows say where the files are. *)
LEMMA ArchiveBegins ==
  ASSUME ArchiveInit
  PROVE  ArchiveTypeOK /\ ArchiveInv
<1>1. /\ \A w \in ArchiveWorkers : job[w] = Rest
      /\ aside = {} /\ editor = "out" /\ spoken = 1 /\ touched = FALSE /\ graced = FALSE
      /\ alone = FALSE /\ overtaken = {} /\ fold = rows
  BY DEF ArchiveInit
<1>2. \A w \in ArchiveWorkers : job[w].at = "idle" /\ job[w].files = {} /\ job[w].held = {}
  BY <1>1 DEF Rest, NoContent
<1>3. \/ /\ hot["log"] = {1} /\ hot["record"] = {1} /\ plain["log"] = {} /\ plain["record"] = {}
         /\ zst = {} /\ rows["log"] = "none" /\ rows["record"] = "none" /\ journal = "none"
      \/ /\ hot["log"] = {} /\ hot["record"] = {} /\ plain["log"] = {} /\ plain["record"] = {1}
         /\ zst = {1} /\ rows["log"] = "archive" /\ rows["record"] = "archive" /\ journal = "compressed"
  BY DEF ArchiveInit, ArchiveFiles, NoContent
<1>4. ArchiveTypeOK
  <2>1. 1 \in 1..MaxLines
    BY ArchiveAssumption
  <2>2. Rest \in JobRecords
    BY DEF Rest, JobRecords, ArchiveSteps, NoContent
  <2>3. job \in [ArchiveWorkers -> JobRecords]
    BY <2>2 DEF ArchiveInit
  <2>4. spent \in [{"jobs", "crashes", "errors"} -> Nat]
    BY DEF ArchiveInit
  <2>5. /\ hot \in [ArchiveFiles -> SUBSET (1..MaxLines)]
        /\ plain \in [ArchiveFiles -> SUBSET (1..MaxLines)]
        /\ rows \in [ArchiveFiles -> {"none", "archive", "restore"}]
    BY <2>1 DEF ArchiveInit, NoContent
  <2> QED
    BY <1>1, <1>3, <2>1, <2>3, <2>4, <2>5 DEF ArchiveTypeOK, JobRecords
<1>5. Places /\ JournalOpen /\ OneRecord /\ AloneMeans /\ Repairing
  BY <1>1, <1>2, <1>3 DEF Places, JournalOpen, Whole, OneRecord, AloneMeans, Repairing, Doing,
         Placing, Compressing, Comparing, SweepSteps, ArchiveWorkers, Located, Leftover
<1>6. ArchiverOwns /\ Apart /\ SweepKeeps /\ RestoreKeeps /\ RepairKeeps /\ Somewhere /\ LinesKept
  <2>1. 1..spoken = {1}
    BY <1>1
  <2> QED
    BY <1>1, <1>2, <1>3, <2>1 DEF ArchiverOwns, Apart, SweepFacts, Selected, SweepKeeps,
           RestoreKeeps, RepairKeeps, Somewhere, Whole, LinesKept, Doing, Compressing, Comparing,
           ArchiveWorkers, Located, Leftover
<1>7. RestorerOwns /\ ArchiverRows /\ RowsTell /\ RepairFolds /\ RowsAgree
  BY <1>1, <1>2, <1>3 DEF RestorerOwns, ArchiverRows, RowsTell, RowsAgree, RepairFolds, Doing, Placing,
         Compressing, ArchiveWorkers, Leftover
<1> QED
  BY <1>4, <1>5, <1>6, <1>7 DEF ArchiveInv

(* A step of a repair. *)
LEMMA RepairStepKeeps ==
  ASSUME ArchiveTypeOK, ArchiveInv, RepairStep, UNCHANGED <<fold, alone>>
  PROVE  ArchiveTypeOK' /\ ArchiveInv'
<1>1. CASE \E f \in ArchiveFiles : Locate(f)
  BY <1>1, LocateKeeps
<1>2. CASE \E f \in ArchiveFiles : RepairRename(f)
  BY <1>2, RepairRenameKeeps
<1>3. CASE RepairFromZst
  BY <1>3, RepairFromZstKeeps
<1>4. CASE RepairLink
  BY <1>4, RepairLinkKeeps
<1>5. CASE RepairRetire
  BY <1>5, RepairRetireKeeps
<1> QED
  BY <1>1, <1>2, <1>3, <1>4, <1>5 DEF RepairStep

(* A step of the owner. *)
LEMMA EditorStepKeeps ==
  ASSUME ArchiveTypeOK, ArchiveInv, EditorStep, alone' = FALSE, UNCHANGED fold
  PROVE  ArchiveTypeOK' /\ ArchiveInv'
<1>1. CASE OwnerOpens
  BY <1>1, OwnerOpensKeeps
<1>2. CASE OwnerAppends
  BY <1>2, OwnerAppendsKeeps
<1>3. CASE OwnerSaves
  BY <1>3, OwnerSavesKeeps
<1>4. CASE EditorEnds
  BY <1>4, EditorEndsKeeps
<1> QED
  BY <1>1, <1>2, <1>3, <1>4 DEF EditorStep

(* A step of an archive run. *)
LEMMA RunStepKeeps ==
  ASSUME ArchiveTypeOK, ArchiveInv, RunStep, alone' = FALSE, UNCHANGED fold
  PROVE  ArchiveTypeOK' /\ ArchiveInv'
<1>1. CASE PlanRun
  BY <1>1, PlanRunKeeps
<1>2. CASE Revalidate
  BY <1>2, RevalidateKeeps
<1>3. CASE NoClobber
  BY <1>3, NoClobberKeeps
<1>4. CASE JournalRun
  BY <1>4, JournalRunKeeps
<1>5. CASE \E f \in ArchiveFiles : MoveOut(f)
  BY <1>5, MoveOutKeeps
<1>6. CASE \E f \in ArchiveFiles : MoveOutFails(f)
  BY <1>6, MoveOutFailsKeeps
<1> QED
  BY <1>1, <1>2, <1>3, <1>4, <1>5, <1>6 DEF RunStep

(* A step of a restore. *)
LEMMA RestoreStepKeeps ==
  ASSUME ArchiveTypeOK, ArchiveInv, RestoreStep, alone' = FALSE, UNCHANGED fold
  PROVE  ArchiveTypeOK' /\ ArchiveInv'
<1>1. CASE PlanRestore
  BY <1>1, PlanRestoreKeeps
<1>2. CASE JournalRestore
  BY <1>2, JournalRestoreKeeps
<1>3. CASE \E f \in ArchiveFiles : FindCopy(f)
  BY <1>3, FindCopyKeeps
<1>4. CASE \E f \in ArchiveFiles : PlaceByRename(f)
  BY <1>4, PlaceByRenameKeeps
<1>5. CASE ReadLeftover \/ LeftoverVerdict \/ DropLeftover \/ PutLeftoverAside
  BY <1>5, ReadLeftoverKeeps, LeftoverVerdictKeeps, TakeLeftoverKeeps
<1>6. CASE \E f \in ArchiveFiles : PlaceByLink(f)
  BY <1>6, PlaceByLinkKeeps
<1>7. CASE RetireAfterLink
  BY <1>7, RetireAfterLinkKeeps
<1>8. CASE \E f \in ArchiveFiles : PlaceFails(f)
  BY <1>8, PlaceFailsKeeps
<1> QED
  BY <1>1, <1>2, <1>3, <1>4, <1>5, <1>6, <1>7, <1>8 DEF RestoreStep

(* A step of a sweep. *)
LEMMA SweepStepKeeps ==
  ASSUME ArchiveTypeOK, ArchiveInv, SweepStep, alone' = FALSE, UNCHANGED fold
  PROVE  ArchiveTypeOK' /\ ArchiveInv'
<1>1. CASE StartSweep
  BY <1>1, StartSweepKeeps
<1>2. CASE Reconcile
  BY <1>2, ReconcileKeeps
<1>3. CASE CompareForms
  BY <1>3, CompareFormsKeeps
<1>4. CASE FormVanished
  BY <1>4, FormVanishedKeeps
<1>5. CASE DropPlain
  BY <1>5, DropPlainKeeps
<1>6. CASE Quarantine
  BY <1>6, QuarantineKeeps
<1>7. CASE ReadPlain
  BY <1>7, ReadPlainKeeps
<1>8. CASE JournalBegin
  BY <1>8, JournalBeginKeeps
<1>9. CASE CommitZst
  BY <1>9, CommitZstKeeps
<1>10. CASE RecheckPlain
  BY <1>10, RecheckPlainKeeps
<1>11. CASE UnlinkPlain
  BY <1>11, UnlinkPlainKeeps
<1>12. CASE DropOurs
  BY <1>12, DropOursKeeps
<1>13. CASE CreditCompressed
  BY <1>13, CreditCompressedKeeps
<1>14. CASE StartDecompress
  BY <1>14, StartDecompressKeeps
<1>15. CASE StageZst
  BY <1>15, StageZstKeeps
<1>16. CASE CommitPlain
  BY <1>16, CommitPlainKeeps
<1>17. CASE RetireZst
  BY <1>17, RetireZstKeeps
<1> QED
  BY <1>1, <1>2, <1>3, <1>4, <1>5, <1>6, <1>7, <1>8, <1>9, <1>10, <1>11, <1>12, <1>13, <1>14,
         <1>15, <1>16, <1>17 DEF SweepStep

(* A step of anybody, or none. *)
LEMMA ArchiveNextKeeps ==
  ASSUME ArchiveTypeOK, ArchiveInv, [ArchiveNext]_archiveVars
  PROVE  ArchiveTypeOK' /\ ArchiveInv'
<1>1. CASE FoldManifest
  BY <1>1, FoldManifestKeeps
<1>2. CASE RepairStep /\ UNCHANGED <<fold, alone>>
  BY <1>2, RepairStepKeeps
<1>3. CASE EditorStep /\ alone' = FALSE /\ UNCHANGED fold
  BY <1>3, EditorStepKeeps
<1>4. CASE RunStep /\ alone' = FALSE /\ UNCHANGED fold
  BY <1>4, RunStepKeeps
<1>5. CASE RestoreStep /\ alone' = FALSE /\ UNCHANGED fold
  BY <1>5, RestoreStepKeeps
<1>6. CASE SweepStep /\ alone' = FALSE /\ UNCHANGED fold
  BY <1>6, SweepStepKeeps
<1>7. CASE ArchiveTimePasses /\ alone' = FALSE /\ UNCHANGED fold
  BY <1>7, ArchiveTimePassesKeeps
<1>8. CASE (\E w \in ArchiveWorkers : Killed(w)) /\ alone' = FALSE /\ UNCHANGED fold
  BY <1>8, KilledKeeps
<1>9. CASE UNCHANGED archiveVars
  <2>1. /\ hot' = hot /\ plain' = plain /\ zst' = zst /\ aside' = aside /\ rows' = rows
        /\ journal' = journal /\ editor' = editor /\ touched' = touched /\ graced' = graced
        /\ spoken' = spoken /\ job' = job /\ spent' = spent /\ fold' = fold /\ alone' = alone
        /\ overtaken' = overtaken
    BY <1>9 DEF archiveVars
  <2>2. ArchiveTypeOK'
    BY <2>1 DEF ArchiveTypeOK
  <2>3. (Uncrossed' = Uncrossed) /\ (LeftAlone' = LeftAlone) /\ (Straight' = Straight)
    BY <2>1 DEF Uncrossed, LeftAlone, Straight
  <2>4. Places' /\ JournalOpen' /\ OneRecord' /\ AloneMeans' /\ Repairing'
    BY <2>1 DEF ArchiveInv, Places, JournalOpen, Whole, OneRecord, AloneMeans, Repairing, Doing,
           IsNext, Located
  <2>5. Uncrossed => ArchiverOwns' /\ Apart' /\ SweepKeeps' /\ RestoreKeeps' /\ RepairKeeps' /\ Somewhere' /\ LinesKept'
    BY <2>1 DEF ArchiveInv, ArchiverOwns, Apart, SweepFacts, Selected, SweepKeeps, RestoreKeeps,
           RepairKeeps, Somewhere, Whole, LinesKept, Doing, IsNext, Located, Leftover
  <2>6. LeftAlone => RestorerOwns' /\ ArchiverRows' /\ RowsTell' /\ RepairFolds'
    BY <2>1 DEF ArchiveInv, RestorerOwns, ArchiverRows, RowsTell, RepairFolds, Folded, InArchive,
           Doing
  <2>7. Straight => RowsAgree'
    BY <2>1 DEF ArchiveInv, RowsAgree, Doing
  <2> QED
    BY <2>2, <2>3, <2>4, <2>5, <2>6, <2>7 DEF ArchiveInv
<1> QED
  BY <1>1, <1>2, <1>3, <1>4, <1>5, <1>6, <1>7, <1>8, <1>9 DEF ArchiveNext

(* The invariant says that there is one whole copy. *)
LEMMA InvMeansWholeCopy ==
  ASSUME ArchiveTypeOK, ArchiveInv
  PROVE  OneWholeCopy
<1>1. \/ {"clobbered", "crossed"} \cap overtaken # {}
      \/ 1..spoken \subseteq hot["log"] \cup plain["log"] \cup zst \cup aside
  BY DEF ArchiveInv, Uncrossed, LinesKept
<1>2. "late" \in overtaken \/ hot["record"] = {} \/ plain["record"] = {}
  BY DEF ArchiveInv, OneRecord
<1>3. ( /\ hot["record"] # {} /\ hot["log"] = {}
        /\ \A w \in ArchiveWorkers : AtStep(w, "idle") )
      => overtaken \ {"beside"} # {} \/ \E f \in ArchiveFiles : rows[f] # "none" /\ Found(f) # rows[f]
  <2> SUFFICES ASSUME hot["record"] # {}, hot["log"] = {}, overtaken \ {"beside"} = {}
               PROVE  \E f \in ArchiveFiles : rows[f] # "none" /\ Found(f) # rows[f]
    OBVIOUS
  <2>1. RowsAgree /\ OneRecord /\ Somewhere /\ "late" \notin overtaken
    BY DEF ArchiveInv, Straight, Uncrossed
  <2>2. Found("record") = "restore"
    BY <2>1 DEF OneRecord, Found, InArchive, NoContent
  <2>3. Found("log") = "archive"
    BY <2>1 DEF Somewhere, Whole, Found, InArchive, NoContent
  <2>4. rows["record"] = "archive" \/ rows["log"] = "restore"
    BY <2>1 DEF RowsAgree
  <2> QED
    BY <2>2, <2>3, <2>4 DEF ArchiveFiles
<1>4. zst # {} /\ plain["log"] = {} /\ hot["log"] = {} => journal \in {"begin", "compressed"}
  BY DEF ArchiveInv, JournalOpen, Whole
<1> QED
  BY <1>1, <1>2, <1>3, <1>4 DEF OneWholeCopy, NoContent

(* The last step of a repair that was alone. *)
LEMMA RepairStepFolds ==
  ASSUME ArchiveTypeOK, ArchiveInv, RepairStep, UNCHANGED <<fold, alone>>, LeftAlone, alone
  PROVE  \A g \in ArchiveFiles : g \notin job'["repairer"].files => Folded(g)'
<1>1. CASE \E f \in ArchiveFiles : Locate(f)
  BY <1>1, LocateFolds
<1>2. CASE \E f \in ArchiveFiles : RepairRename(f)
  BY <1>2, RepairRenameFolds
<1>3. CASE RepairFromZst
  BY <1>3, RepairFromZstFolds
<1>4. CASE RepairLink
  BY <1>4, RepairLinkFolds
<1>5. CASE RepairRetire
  BY <1>5, RepairRetireFolds
<1> QED
  BY <1>1, <1>2, <1>3, <1>4, <1>5 DEF RepairStep

(* A repair that is left alone puts every file where its last row says. *)
LEMMA RepairEnds ==
  ASSUME ArchiveTypeOK, ArchiveInv, [ArchiveNext]_archiveVars, alone, alone', LeftAlone,
         ~AtStep("repairer", "idle"), job'["repairer"] = Rest
  PROVE  \A f \in ArchiveFiles : Folded(f)' /\ fold' = fold
<1>1. job'["repairer"].at = "idle" /\ job'["repairer"].files = {}
  BY DEF Rest
<1>2. ~UNCHANGED archiveVars
  BY <1>1 DEF archiveVars, AtStep
<1>3. ~FoldManifest
  BY DEF FoldManifest, Begins
<1>4. RepairStep /\ UNCHANGED <<fold, alone>>
  BY <1>2, <1>3 DEF ArchiveNext
<1>5. \A g \in ArchiveFiles : g \notin job'["repairer"].files => Folded(g)'
  BY <1>4, RepairStepFolds
<1> QED
  BY <1>1, <1>4, <1>5

(* The type of every variable of the archive, of its workers and its owner. *)
THEOREM ArchiveTypeCorrect == ArchiveSpec => []ArchiveTypeOK
<1>1. ArchiveInit => ArchiveTypeOK /\ ArchiveInv
  BY ArchiveBegins
<1>2. ArchiveTypeOK /\ ArchiveInv /\ [ArchiveNext]_archiveVars => ArchiveTypeOK' /\ ArchiveInv'
  BY ArchiveNextKeeps
<1> QED
  BY <1>1, <1>2, PTL DEF ArchiveSpec

(* Archive runs, restores, sweeps, repairs and owners, each killed where it     *)
(* may be, keep a whole copy of every transcript and the record in one place;   *)
(* and a repair that is left alone puts every file where its last row says.     *)
THEOREM ArchiveAlwaysKeepsFiles == ArchiveSpec => ArchiveKeepsFiles
<1>1. ArchiveInit => ArchiveTypeOK /\ ArchiveInv
  BY ArchiveBegins
<1>2. ArchiveTypeOK /\ ArchiveInv /\ [ArchiveNext]_archiveVars => ArchiveTypeOK' /\ ArchiveInv'
  BY ArchiveNextKeeps
<1>3. ArchiveTypeOK /\ ArchiveInv => OneWholeCopy
  BY InvMeansWholeCopy
<1>4. ArchiveTypeOK /\ ArchiveInv /\ [ArchiveNext]_archiveVars =>
        [( /\ alone /\ alone' /\ overtaken \subseteq {"beside", "parted"}
           /\ ~AtStep("repairer", "idle") /\ job'["repairer"] = Rest ) =>
         \A f \in ArchiveFiles :
           /\ fold[f] = "archive" => hot'[f] = NoContent
           /\ fold[f] = "restore" =>
                \/ ~InArchive(f)'
                \/ /\ f = "log" /\ plain'[f] = NoContent /\ hot'[f] # NoContent
                   /\ hot'[f] # zst' \/ "beside" \in overtaken']_archiveVars
  <2> SUFFICES ASSUME ArchiveTypeOK, ArchiveInv, [ArchiveNext]_archiveVars, alone, alone', LeftAlone,
                      ~AtStep("repairer", "idle"), job'["repairer"] = Rest
               PROVE  \A f \in ArchiveFiles :
                        /\ fold[f] = "archive" => hot'[f] = {}
                        /\ fold[f] = "restore" =>
                             \/ ~InArchive(f)'
                             \/ /\ f = "log" /\ plain'[f] = {} /\ hot'[f] # {}
                                /\ hot'[f] # zst' \/ "beside" \in overtaken'
    BY DEF LeftAlone, NoContent
  <2>1. \A f \in ArchiveFiles : Folded(f)' /\ fold' = fold
    BY RepairEnds
  <2> QED
    BY <2>1 DEF Folded
<1> QED
  BY <1>1, <1>2, <1>3, <1>4, PTL DEF ArchiveSpec, ArchiveKeepsFiles, RepairFoldsBack
==============================================================================
