---------------------------- MODULE MessagesLog ----------------------------
(* The history of one session on disk: the record file, which holds a       *)
(* pointer into the messages log and the entries not logged yet, and the     *)
(* log itself.  A boundary write appends the entries a holder has not        *)
(* logged, then writes the record; a checkpoint writes the record only; a    *)
(* reader repairs whatever a crash left between the two.                     *)
(*                                                                           *)
(* A holder is a process with a copy of the record in memory: the owner      *)
(* that runs the turns, or a process that closes the session.  An await is   *)
(* a step boundary, so other writes of the same process, other processes     *)
(* and crashes come in between.  The unit of the pointer is a line: lines    *)
(* have one length, and the pointer's count and base_index, which only       *)
(* displays use, are left out.                                               *)
EXTENDS Naturals, Sequences, FiniteSets, SequencesExt

CONSTANTS
  Holders,       \* processes that hold a copy of the record
  LogOwner,      \* the one whose turns the conversation comes from
  LogWrites,     \* names for the record writes one process has under way
  MaxMessages,   \* bound: entries ever said
  Window,        \* MAX_RUNTIME_MESSAGES: entries kept in memory
  CompactAt,     \* MESSAGES_LOG_COMPACT_BYTES, in lines
  MaxEnds,    \* bound: ends of a process, killed or told to stop
  CloseOverlaps  \* whether a session is closed while it has an owner

ASSUME OwnerAssumption == LogOwner \in Holders
ASSUME BoundsAssumption ==
  MaxMessages \in Nat /\ Window \in Nat \ {0} /\ CompactAt \in Nat /\ MaxEnds \in Nat
  /\ CloseOverlaps \in BOOLEAN

VARIABLES
  log,      \* the lines of <id>.messages.ndjson
  record,   \* <id>.json
  lock,     \* the record lock: the process and write that hold it
  copyOf,   \* per holder, the record in memory
  write,    \* per holder, its record writes
  chain,    \* per holder, its boundary writes in turn
  said,     \* entries the conversation has so far
  talk,     \* the owner's turn: none, prompted, or streaming into its last entry
  written,  \* history variable: entries some record write has put on disk
  excused,  \* history variable: a compaction was cut short by an end or a push
  crashes

logVars == <<log, record, lock, copyOf, write, chain, said, talk, written, excused, crashes>>

NoPointer == 0
Whole(n) == [id |-> n, whole |-> TRUE]
Partial(n) == [id |-> n, whole |-> FALSE]
Nul == Partial(0)      \* padding of a truncate past the end, no line end
Garbled == Whole(0)    \* a line no reader can parse
Line == [id : 0..MaxMessages, whole : BOOLEAN]
Entry == [id : 1..MaxMessages, whole : BOOLEAN]

\* The pointer of a record: none, or the log up to a line.
PointerAt(lines) == lines + 1
Upto(pointer) == IF pointer = NoPointer THEN 0 ELSE pointer - 1

LastOf(entries, n) == IF Len(entries) > n THEN SubSeq(entries, Len(entries) - n + 1, Len(entries)) ELSE entries
After(entries, n) == SubSeq(entries, n + 1, Len(entries))
Ids(entries) == {entries[i].id : i \in DOMAIN entries}

\* Slip: padding and broken lines are taken for entries.
ReadableUnchecked(lines) == lines

\* Lines that parse as an entry; what a crash or a truncate left is skipped.
Readable(lines) ==
  IF \A i \in DOMAIN lines : lines[i].id # 0 THEN lines
  ELSE SelectSeq(lines, LAMBDA line : line.id # 0)

-----------------------------------------------------------------------------
(* Reading.                                                                  *)

NoRecord == [pointer |-> NoPointer, tail |-> <<>>]

\* Lines a crash left past the record's pointer.
Unrecorded(rec, lines) == Readable(After(lines, Upto(rec.pointer)))

\* The entries of the record that the log does not have, by their number.
Inline(rec, lines) ==
  IF rec.pointer = NoPointer THEN rec.tail
  ELSE After(rec.tail, Min({Len(Unrecorded(rec, lines)), Len(rec.tail)}))

Logged(rec, lines) == IF rec.pointer = NoPointer THEN <<>> ELSE Readable(lines)

\* What a reader without a window is told the conversation was.
History(rec, lines) == Logged(rec, lines) \o Inline(rec, lines)

\* The pointer is moved only past lines that could be read: one beyond the
\* end of the log stays there.
HydratedPointer(rec, lines) ==
  IF rec.pointer # NoPointer /\ Unrecorded(rec, lines) # <<>> THEN PointerAt(Len(lines)) ELSE rec.pointer

Hydrated(rec, lines) ==
  LET inline == Inline(rec, lines)
      logTail == LastOf(Logged(rec, lines), IF Len(inline) > Window THEN 0 ELSE Window - Len(inline))
  IN  [stage |-> "open", messages |-> logTail \o inline, logged |-> Len(logTail),
       pointer |-> HydratedPointer(rec, lines), image |-> NoRecord]

NoCopy == [stage |-> "none", messages |-> <<>>, logged |-> 0, pointer |-> NoPointer, image |-> NoRecord]
Over == [NoCopy EXCEPT !.stage = "over"]
NoWrite == [stage |-> "idle", through |-> 0, slice |-> <<>>, image |-> NoRecord, replaced |-> FALSE]
NoHolder == <<>>

LogInit ==
  /\ log = <<>> /\ record = NoRecord /\ lock = NoHolder
  /\ copyOf = [h \in Holders |-> NoCopy]
  /\ write = [h \in Holders |-> [w \in LogWrites |-> NoWrite]]
  /\ chain = [h \in Holders |-> <<>>]
  /\ said = 0 /\ talk = "none" /\ crashes = 0
  /\ written = {} /\ excused = FALSE

HoldsCopy(h) == copyOf[h].stage = "open"
Quiet(h) == \A w \in LogWrites : write[h][w].stage = "idle"
Busy(h) == copyOf[h].stage \in {"reading", "open"}

\* resolveSessionRecord: the record is read, then the log.
ReadRecord(h) ==
  /\ Quiet(h)
  /\ IF h = LogOwner THEN talk = "none" ELSE copyOf[h].stage = "none"
  /\ CloseOverlaps \/ \A other \in Holders \ {h} : ~Busy(other)
  /\ copyOf' = [copyOf EXCEPT ![h] = [NoCopy EXCEPT !.stage = "reading", !.image = record]]
  /\ UNCHANGED <<log, record, lock, write, chain, said, talk, written, excused, crashes>>

ReadLog(h) ==
  /\ copyOf[h].stage = "reading"
  /\ copyOf' = [copyOf EXCEPT ![h] = Hydrated(@.image, log)]
  /\ UNCHANGED <<log, record, lock, write, chain, said, talk, written, excused, crashes>>

-----------------------------------------------------------------------------
(* The conversation.                                                         *)

\* trimConversationForRuntime: the count of logged entries goes down with the
\* entries dropped, before the splice.
Trimmed(c) ==
  LET dropped == IF Len(c.messages) > Window THEN Len(c.messages) - Window ELSE 0
  IN  [c EXCEPT !.messages = After(@, dropped), !.logged = IF @ > dropped THEN @ - dropped ELSE 0]

Pushed(c, entry) == Trimmed([c EXCEPT !.messages = Append(@, entry)])

\* Bound: no turn holds as many unlogged entries as the window (200).
RoomToSay == said < MaxMessages /\ Len(copyOf[LogOwner].messages) - copyOf[LogOwner].logged < Window

\* What was streaming is whole once another entry follows or the turn ends.
Streaming == IF talk = "streaming" THEN {Last(copyOf[LogOwner].messages).id} ELSE {}
Settled == IF talk = "streaming"
           THEN [copyOf[LogOwner] EXCEPT !.messages[Len(copyOf[LogOwner].messages)].whole = TRUE] ELSE copyOf[LogOwner]

Begin(h, w, through) ==
  /\ write[h][w].stage = "idle"
  /\ write' = [write EXCEPT ![h][w] = [NoWrite EXCEPT !.stage = "waiting", !.through = through]]
  /\ chain' = [chain EXCEPT ![h] = Append(@, w)]

\* recordPromptStart: a turn starts, or a prompt is injected into it.  The
\* write goes no further than the prompt's own entry.
PromptStarts(w) ==
  /\ HoldsCopy(LogOwner) /\ RoomToSay /\ (talk = "none" => Quiet(LogOwner))
  /\ said' = said + 1 /\ talk' = "prompted"
  /\ copyOf' = [copyOf EXCEPT ![LogOwner] = Pushed(Settled, Whole(said + 1))]
  /\ Begin(LogOwner, w, said + 1)
  /\ UNCHANGED <<log, record, lock, written, excused, crashes>>

\* Output after a prompt opens an agent entry; more output goes into it.
Stream ==
  /\ RoomToSay /\ talk = "prompted"
  /\ said' = said + 1 /\ talk' = "streaming"
  /\ copyOf' = [copyOf EXCEPT ![LogOwner] = Pushed(@, Partial(said + 1))]
  /\ UNCHANGED <<log, record, lock, write, chain, written, excused, crashes>>

\* SessionEventWriter.close: the turn's last write, of everything.
EndTurn(w) ==
  /\ talk # "none" /\ talk' = "none"
  /\ copyOf' = [copyOf EXCEPT ![LogOwner] = Settled]
  /\ Begin(LogOwner, w, 0)
  /\ UNCHANGED <<log, record, lock, said, written, excused, crashes>>

\* Whole entries that arrive outside a turn: a batch of a sub-agent's
\* transcript on its shadow record, a diagnostic, a turn's error.
Push ==
  /\ HoldsCopy(LogOwner) /\ RoomToSay /\ talk = "none"
  /\ said' = said + 1
  /\ copyOf' = [copyOf EXCEPT ![LogOwner] = Pushed(@, Whole(said + 1))]
  /\ UNCHANGED <<log, record, lock, write, chain, talk, written, excused, crashes>>

SaveOutsideTurn(w) ==
  /\ HoldsCopy(LogOwner) /\ talk = "none"
  /\ Begin(LogOwner, w, 0)
  /\ UNCHANGED <<log, record, lock, copyOf, said, talk, written, excused, crashes>>

\* The live checkpoint and every scalar edit.
Checkpoint(w) ==
  /\ HoldsCopy(LogOwner) /\ write[LogOwner][w].stage = "idle"
  /\ write' = [write EXCEPT ![LogOwner][w] = [NoWrite EXCEPT !.stage = "unrecorded"]]
  /\ UNCHANGED <<log, record, lock, copyOf, chain, said, talk, written, excused, crashes>>

\* closeSession writes the copy it read before it stopped the owner.
Close(h, w) ==
  /\ h # LogOwner /\ HoldsCopy(h) /\ Quiet(h)
  /\ copyOf[LogOwner].stage = "none"
  /\ Begin(h, w, 0)
  /\ UNCHANGED <<log, record, lock, copyOf, said, talk, written, excused, crashes>>

-----------------------------------------------------------------------------
(* A boundary write: one at a time in a process appends to the log.          *)

Sets(h, w, stage) == write' = [write EXCEPT ![h][w].stage = stage]
FirstInChain(h, w) == chain[h] # <<>> /\ Head(chain[h]) = w

\* prepareMessagesLogForBoundary: a log no pointer speaks of is set aside.
Prepare(h, w) ==
  /\ FirstInChain(h, w) /\ write[h][w].stage = "waiting"
  /\ log' = IF copyOf[h].pointer = NoPointer THEN <<>> ELSE log
  /\ Sets(h, w, "prepared")
  /\ UNCHANGED <<record, lock, copyOf, chain, said, talk, written, excused, crashes>>

\* boundaryLogEnd: the entry is found in the copy as it is now.
BoundaryEnd(c, through) ==
  IF through = 0 THEN Len(c.messages)
  ELSE Max({c.logged, Cardinality({i \in DOMAIN c.messages : c.messages[i].id <= through})})

ToLog(c, through) == SubSeq(c.messages, c.logged + 1, BoundaryEnd(c, through))

Resized(lines, n) ==
  IF Len(lines) >= n THEN SubSeq(lines, 1, n) ELSE lines \o [i \in 1..(n - Len(lines)) |-> Nul]

\* appendFinalizedMessagesToLog, up to its truncate at the pointer.
Truncate(h, w) ==
  /\ write[h][w].stage = "prepared"
  /\ LET slice == ToLog(copyOf[h], write[h][w].through)
     IN  /\ write' = [write EXCEPT ![h][w].stage = "truncated", ![h][w].slice = slice]
         /\ log' = IF slice = <<>> THEN log ELSE Resized(log, Upto(copyOf[h].pointer))
  /\ UNCHANGED <<record, lock, copyOf, chain, said, talk, written, excused, crashes>>

\* The first line after padding is one with it.
Appended(lines, slice) ==
  IF lines # <<>> /\ Last(lines) = Nul /\ slice # <<>> THEN lines \o <<Garbled>> \o Tail(slice)
  ELSE lines \o slice

\* Slip: what was pushed during the append counts as appended.
AppendLinesMarkingAll(h, w) ==
  LET slice == write[h][w].slice
  IN  /\ write[h][w].stage = "truncated"
      /\ log' = Appended(log, slice)
      /\ copyOf' = [copyOf EXCEPT ![h].pointer = IF slice = <<>> THEN @ ELSE PointerAt(Upto(@) + Len(slice)),
                             ![h].logged = Len(copyOf[h].messages)]
      /\ Sets(h, w, "appended")
      /\ UNCHANGED <<record, lock, chain, said, talk, written, excused, crashes>>

\* The rest of the append, and the count of what was appended.  A record
\* with no entries gets a pointer to an empty log.
AppendLines(h, w) ==
  LET slice == write[h][w].slice
      empty == copyOf[h].pointer = NoPointer /\ copyOf[h].messages = <<>>
  IN  /\ write[h][w].stage = "truncated"
      /\ log' = IF empty THEN <<>> ELSE Appended(log, slice)
      /\ copyOf' = [copyOf EXCEPT
            ![h].pointer = IF slice = <<>> /\ ~empty THEN @ ELSE PointerAt(Upto(@) + Len(slice)),
            ![h].logged = Min({@ + Len(slice), Len(copyOf[h].messages)})]
      /\ Sets(h, w, "appended")
      /\ UNCHANGED <<record, lock, chain, said, talk, written, excused, crashes>>

CompactNow(h, w) == write[h][w].through = 0 /\ copyOf[h].pointer # NoPointer /\ Len(log) > CompactAt

Released(h, w) == chain' = [chain EXCEPT ![h] = Tail(@)]

NoCompaction(h, w) ==
  /\ write[h][w].stage = "appended" /\ ~CompactNow(h, w)
  /\ Sets(h, w, "unrecorded") /\ Released(h, w)
  /\ UNCHANGED <<log, record, lock, copyOf, said, talk, written, excused, crashes>>

\* compactMessagesLog: the window is copied, then written in the log's place.
Copied(c) == LastOf(c.messages, Window)

CompactCopy(h, w) ==
  /\ write[h][w].stage = "appended" /\ CompactNow(h, w)
  /\ write' = [write EXCEPT ![h][w].stage = "compacting", ![h][w].slice = Copied(copyOf[h])]
  /\ UNCHANGED <<log, record, lock, copyOf, chain, said, talk, written, excused, crashes>>

CompactReplace(h, w) ==
  LET kept == write[h][w].slice
  IN  /\ write[h][w].stage = "compacting"
      /\ log' = kept
      /\ copyOf' = [copyOf EXCEPT ![h].messages = kept, ![h].logged = Len(kept), ![h].pointer = PointerAt(Len(kept))]
      /\ excused' = (excused \/ Copied(copyOf[h]) # kept)
      /\ write' = [write EXCEPT ![h][w].stage = "unrecorded", ![h][w].replaced = TRUE]
      /\ Released(h, w)
      /\ UNCHANGED <<record, lock, said, talk, written, crashes>>

\* The record write, under the record lock: the record is serialized...
OnDisk(c) == [pointer |-> c.pointer,
              tail |-> IF c.pointer = NoPointer THEN c.messages ELSE After(c.messages, c.logged)]

Serialize(h, w) ==
  /\ write[h][w].stage = "unrecorded" /\ lock = NoHolder
  /\ lock' = <<h, w>>
  /\ write' = [write EXCEPT ![h][w].stage = "serialized", ![h][w].image = OnDisk(copyOf[h])]
  /\ UNCHANGED <<log, record, copyOf, chain, said, talk, written, excused, crashes>>

\* ...written to a temporary file, and renamed.  A close ends there.
Rename(h, w) ==
  /\ write[h][w].stage = "serialized"
  /\ record' = write[h][w].image /\ lock' = NoHolder
  /\ written' = written \cup ToSet(History(record', log))
  /\ write' = [write EXCEPT ![h][w] = NoWrite]
  /\ copyOf' = IF h = LogOwner THEN copyOf ELSE [copyOf EXCEPT ![h] = Over]
  /\ UNCHANGED <<log, chain, said, talk, excused, crashes>>

\* No log was put in place of another that the record does not speak of yet.
Steady == \A h \in Holders, w \in LogWrites : ~write[h][w].replaced

\* A process ends.  An append may be cut after any line; a part of a line is
\* a line no reader counts, and the next append truncates it.
Gone(h) ==
  /\ copyOf' = [copyOf EXCEPT ![h] = IF h = LogOwner THEN NoCopy ELSE Over]
  /\ write' = [write EXCEPT ![h] = [w \in LogWrites |-> NoWrite]]
  /\ chain' = [chain EXCEPT ![h] = <<>>]
  /\ lock' = IF lock # NoHolder /\ lock[1] = h THEN NoHolder ELSE lock
  /\ talk' = IF h = LogOwner THEN "none" ELSE talk

LogCrash(h) ==
  /\ Busy(h) /\ crashes < MaxEnds /\ crashes' = crashes + 1
  /\ Gone(h)
  /\ \/ UNCHANGED log
     \/ \E w \in LogWrites : \E n \in 1..Len(write[h][w].slice) :
          /\ write[h][w].stage = "truncated"
          /\ log' = Appended(log, SubSeq(write[h][w].slice, 1, n))
  /\ excused' = (excused \/ ~Steady)
  /\ UNCHANGED <<record, said, written>>

BoundaryStep(h, w) ==
  \/ Prepare(h, w) \/ Truncate(h, w) \/ AppendLines(h, w)
  \/ NoCompaction(h, w) \/ CompactCopy(h, w) \/ CompactReplace(h, w)
RecordStep(h, w) == Serialize(h, w) \/ Rename(h, w)

LogNext ==
  \/ Stream \/ Push
  \/ \E h \in Holders : ReadRecord(h) \/ ReadLog(h) \/ LogCrash(h)
  \/ \E w \in LogWrites : PromptStarts(w) \/ EndTurn(w) \/ SaveOutsideTurn(w) \/ Checkpoint(w)
  \/ \E h \in Holders, w \in LogWrites : Close(h, w) \/ BoundaryStep(h, w) \/ RecordStep(h, w)

LogSpec == LogInit /\ [][LogNext]_logVars

-----------------------------------------------------------------------------
(* Properties.                                                               *)

CopyOK(c) ==
  /\ c.stage \in {"none", "reading", "open", "over"}
  /\ c.messages \in Seq(Entry) /\ c.logged \in 0..Len(c.messages)
  /\ c.pointer \in Nat

\* Every variable has its type, and no count of logged entries passes the
\* entries there are (messages-log-bookkeeping.ts clamps it).
LogTypeOK ==
  /\ log \in Seq(Line) /\ record.pointer \in Nat /\ record.tail \in Seq(Entry)
  /\ lock \in {NoHolder} \cup (Holders \X LogWrites)
  /\ \A h \in Holders : CopyOK(copyOf[h]) /\ chain[h] \in Seq(LogWrites)
  /\ \A h \in Holders, w \in LogWrites :
       write[h][w].stage \in {"idle", "waiting", "prepared", "truncated", "appended", "compacting",
                              "unrecorded", "serialized"}
  /\ said \in 0..MaxMessages /\ talk \in {"none", "prompted", "streaming"}
  /\ written \subseteq Entry /\ excused \in BOOLEAN /\ crashes \in 0..MaxEnds

\* Whenever the session is read, between any two calls of a write or after
\* any crash, no entry of its history is there twice or out of order: the
\* repair of an append without its record write, in hydrateFromLogReader.  A
\* log just compacted is only right once its record is written.
EachOnce ==
  Steady /\ ~excused =>
    LET told == History(record, log)
    IN  \A i, j \in DOMAIN told : i < j => told[i].id < told[j].id

\* What a record write has put on disk, in the log or in the record, stays
\* there: of the entries written, the last ones, as many as a window holds,
\* are in the history, and none goes back to the part of it that had been
\* streamed.
StillTold ==
  \A entry \in written :
    \/ Cardinality({later \in {e.id : e \in written} : later > entry.id}) >= Window
    \/ \E told \in ToSet(History(record, log)) :
         told.id = entry.id /\ (entry.whole => told.whole)

\* The same outside a compaction that is not recorded yet, and as long as no
\* compaction was cut short: through any other interleaving of the writes of
\* writeSessionRecordInternal, and any crash, recovery loses nothing.
Kept == Steady /\ ~excused => StillTold

\* The log never has a part of an entry more is streamed into, or of one that
\* was finished since: what is in the log counts as logged, and is not written
\* again.
LoggedWhole ==
  ~excused =>
    \A i \in DOMAIN log :
    log[i].id # 0 /\ ~log[i].whole =>
      /\ log[i].id \notin Streaming
      /\ Whole(log[i].id) \notin written \cup ToSet(copyOf[LogOwner].messages)

\* The history a reader gets: nothing twice or out of order, nothing lost that a
\* record write had put on disk, and nothing final before it is whole.
HistoryStands == EachOnce /\ Kept /\ LoggedWhole

=============================================================================
