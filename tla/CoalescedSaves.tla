---- MODULE CoalescedSaves ----
(***************************************************************************)
(* How a turn's record and its sub-agents' shadow records reach the disk:   *)
(* LiveSessionCheckpoint (src/src/session/live-checkpoint.ts), the writer   *)
(* of sub-agent boundaries (src/src/cli/session/subagent-boundary-write.ts) *)
(* and the places of runSessionPrompt that call them.  Changes of the       *)
(* conversation ask for a save within an interval, the turn itself makes a  *)
(* checkpoint when it opens and a flush when it ends, and any save may      *)
(* fail.  One sub-agent stands for all: their saves are independent.        *)
(*                                                                         *)
(* Continuations of a settled promise run in the step that settles it: the  *)
(* flushes of one turn are never so many that another call comes between.   *)
(***************************************************************************)
EXTENDS Naturals

CONSTANTS
    MaxChanges,  \* changes of the turn's record
    MaxBatches   \* batches of the sub-agent's transcript

\* The turn's first change is its prompt, in the record when it opens.
ASSUME SavesAssumption == MaxChanges \in Nat \ {0} /\ MaxBatches \in Nat

VARIABLES
    stage,           \* where runSessionPrompt is
    memory,          \* version of the record in memory
    disk,            \* version of the record on disk
    dirty,           \* LiveSessionCheckpoint.dirty
    timer,           \* LiveSessionCheckpoint.timer is armed
    joined,          \* who awaits the flush under way: its timer, the turn
    carried,         \* version the save in flight carries (0: it has not read it yet)
    turnFlush,       \* version in memory when the turn called its flush or checkpoint
    told,            \* a failure was printed, or thrown at a caller that fails with it
    child,           \* version of the sub-agent's record in memory
    childDisk,       \* ... on disk
    childPending,    \* ... waiting for a save (0: none)
    inFlight,        \* ... in the save under way (0: none)
    childTimer,      \* the child's timer is armed
    flushRequested,  \* its pending state is to be saved as soon as the save under way ends
    childFlush,      \* version of the child when its flush was called (0: none awaited)
    childTold        \* onWriteError printed a failure

mainVars == <<memory, disk, dirty, timer, joined, carried, turnFlush, told>>
childVars == <<child, childDisk, childPending, inFlight, childTimer, flushRequested, childFlush,
               childTold>>
savesVars == <<stage, mainVars, childVars>>

Stages == {"opening", "prompting", "ending", "children", "flushing", "writing", "over"}

SavesTypeOK ==
    /\ stage \in Stages
    /\ {memory, disk, carried, turnFlush} \subseteq 0..MaxChanges
    /\ joined \subseteq {"timer", "turn"}
    /\ {dirty, timer, told, childTimer, flushRequested, childTold} \subseteq BOOLEAN
    /\ {child, childDisk, childPending, inFlight, childFlush} \subseteq 0..MaxBatches

SavesInit ==
    /\ stage = "opening"
    /\ memory = 1 /\ disk = 0 /\ dirty = FALSE /\ timer = FALSE
    /\ joined = {} /\ carried = 0 /\ turnFlush = 0 /\ told = FALSE
    /\ child = 0 /\ childDisk = 0 /\ childPending = 0 /\ inFlight = 0
    /\ childTimer = FALSE /\ flushRequested = FALSE /\ childFlush = 0 /\ childTold = FALSE

(* ---- The record of the turn ---------------------------------------------*)

\* A session update or a client operation changes the record and calls request().
Request ==
    /\ stage = "prompting" /\ memory < MaxChanges
    /\ memory' = memory + 1 /\ dirty' = TRUE /\ timer' = TRUE
    /\ UNCHANGED <<stage, disk, joined, carried, turnFlush, told, childVars>>

\* The timer's flush joins a flush under way, or starts one.
TimerFires ==
    /\ timer
    /\ timer' = FALSE
    /\ joined' = joined \cup {"timer"}
    /\ dirty' = (dirty /\ joined # {})
    /\ UNCHANGED <<stage, memory, disk, carried, turnFlush, told, childVars>>

\* The turn's own checkpoint, when it opens.
Checkpoint ==
    /\ stage = "opening" /\ turnFlush = 0
    /\ joined' = {"turn"} /\ dirty' = FALSE /\ timer' = FALSE
    /\ turnFlush' = memory
    /\ UNCHANGED <<stage, memory, disk, carried, told, childVars>>

\* save() reads the record when it writes, after its own reads of the disk.
SaveReads ==
    /\ joined # {} /\ carried = 0
    /\ carried' = memory
    /\ UNCHANGED <<stage, memory, disk, dirty, timer, joined, turnFlush, told, childVars>>

\* The turn goes on when its flush settles: a checkpoint that failed fails the turn.
TurnGoesOn(failed) ==
    stage' = IF "turn" \notin joined THEN stage
             ELSE IF stage = "ending" THEN "children"
             ELSE IF failed THEN "ending" ELSE "prompting"

\* flushDirty saves again while the record was dirtied meanwhile; then every flush resolves.
SaveEnds ==
    /\ carried # 0
    /\ disk' = carried /\ carried' = 0
    /\ IF dirty
       THEN dirty' = FALSE /\ UNCHANGED <<stage, joined>>
       ELSE joined' = {} /\ TurnGoesOn(FALSE) /\ UNCHANGED dirty
    /\ UNCHANGED <<memory, timer, turnFlush, told, childVars>>

\* A save fails: every flush that awaits it is rejected, and nothing is scheduled for what was
\* dirtied meanwhile.  The timer's flush prints it; the last flush of a turn is caught unread.
SaveFails ==
    /\ joined # {}
    /\ joined' = {} /\ carried' = 0
    /\ TurnGoesOn(TRUE)
    /\ told' = (told \/ "timer" \in joined \/ ("turn" \in joined /\ stage = "opening"))
    /\ UNCHANGED <<memory, disk, dirty, timer, turnFlush, childVars>>

(* ---- The sub-agent's record ---------------------------------------------*)

\* startSave: the pending state goes into the one save of the child.
StartSave(p) ==
    /\ inFlight' = p /\ childPending' = 0
    /\ childTimer' = FALSE /\ flushRequested' = FALSE

\* The tailer delivers a batch: enqueue replaces the pending state, and a save is scheduled.
Enqueue ==
    /\ stage \in {"prompting", "ending", "children"} /\ child < MaxBatches
    /\ child' = child + 1 /\ childPending' = child + 1
    /\ childTimer' = (childTimer \/ inFlight = 0)
    /\ UNCHANGED <<stage, mainVars, childDisk, inFlight, flushRequested, childFlush, childTold>>

ChildTimerFires ==
    /\ childTimer
    /\ IF inFlight = 0 /\ childPending # 0 THEN StartSave(childPending)
       ELSE childTimer' = FALSE /\ UNCHANGED <<inFlight, childPending, flushRequested>>
    /\ UNCHANGED <<stage, mainVars, child, childDisk, childFlush, childTold>>

(* Mutated form: a state that came during a save waits for the next batch. *)
AfterSaveForgets ==
    IF childPending # 0 /\ flushRequested THEN StartSave(childPending)
    ELSE inFlight' = 0 /\ UNCHANGED <<childTimer, childPending, flushRequested>>

\* afterSave: a pending state is saved at once when a flush asked for it, else after an interval.
AfterSave ==
    IF childPending # 0 /\ flushRequested THEN StartSave(childPending)
    ELSE /\ inFlight' = 0 /\ childTimer' = (childPending # 0)
         /\ UNCHANGED <<childPending, flushRequested>>

\* A save of the child ends, and with it the flush that awaited this state.
ChildSaveEnds(ok) ==
    /\ inFlight # 0
    /\ childDisk' = IF ok THEN inFlight ELSE childDisk
    /\ childTold' = (childTold \/ ~ok)
    /\ AfterSave
    /\ IF childFlush # 0 /\ childFlush <= inFlight
       THEN childFlush' = 0 /\ stage' = "writing"
       ELSE UNCHANGED <<childFlush, stage>>
    /\ UNCHANGED <<mainVars, child>>

\* flushOne awaits the pending state's own save, started now if none is under way.
FlushChild ==
    IF childPending = 0 THEN UNCHANGED <<inFlight, childPending, childTimer, flushRequested>>
    ELSE IF inFlight = 0 THEN StartSave(childPending)
    ELSE flushRequested' = TRUE /\ UNCHANGED <<inFlight, childPending, childTimer>>

\* Without one it awaits the save under way, if any.
Awaited == IF childPending # 0 THEN childPending ELSE inFlight

\* task_completed: the child's last state is flushed while the turn goes on.
ChildEnds ==
    /\ stage = "prompting" /\ FlushChild
    /\ UNCHANGED <<stage, mainVars, child, childDisk, childFlush, childTold>>

(* ---- The end of the turn ------------------------------------------------*)

PromptEnds ==
    /\ stage = "prompting" /\ stage' = "ending"
    /\ UNCHANGED <<mainVars, childVars>>

\* The last flush of the turn, best effort: it joins one under way, and saves what is dirty.
LastFlush ==
    /\ stage = "ending" /\ "turn" \notin joined
    /\ timer' = FALSE /\ turnFlush' = memory
    /\ IF joined # {} \/ dirty
       THEN joined' = joined \cup {"turn"} /\ dirty' = (dirty /\ joined # {}) /\ UNCHANGED stage
       ELSE stage' = "children" /\ UNCHANGED <<joined, dirty>>
    /\ UNCHANGED <<memory, disk, carried, told, childVars>>

\* stopAllSubagentTailers: no batch comes any more, and the children are flushed.
FlushChildren ==
    /\ stage = "children"
    /\ FlushChild /\ childFlush' = Awaited
    /\ stage' = IF Awaited = 0 THEN "writing" ELSE "flushing"
    /\ UNCHANGED <<mainVars, child, childDisk, childTold>>

\* closeEventWriter(true): a last checkpoint of the record, best effort too.
CloseWriter(ok) ==
    /\ stage = "writing" /\ stage' = "over"
    /\ disk' = IF ok THEN memory ELSE disk
    /\ UNCHANGED <<memory, dirty, timer, joined, carried, turnFlush, told, childVars>>

SavesNext ==
    \/ Request \/ TimerFires \/ Checkpoint \/ SaveReads \/ SaveEnds \/ SaveFails
    \/ Enqueue \/ ChildTimerFires \/ ChildEnds \/ PromptEnds \/ FlushChildren \/ LastFlush
    \/ \E ok \in BOOLEAN : ChildSaveEnds(ok) \/ CloseWriter(ok)

\* Timers fire, writes settle and the turn goes on; changes and batches may stop at any time.
SavesFairness ==
    /\ WF_savesVars(TimerFires) /\ WF_savesVars(SaveReads)
    /\ WF_savesVars(SaveEnds \/ SaveFails) /\ WF_savesVars(ChildTimerFires)
    /\ WF_savesVars(\E ok \in BOOLEAN : ChildSaveEnds(ok))

SavesSpec == SavesInit /\ [][SavesNext]_savesVars /\ SavesFairness

(* ---- Properties ---------------------------------------------------------*)

\* A flush that resolves has written what was in memory when it was called, although it may
\* have joined a save that had read the record before.
FlushWritesItsState ==
    [][(SaveEnds /\ "turn" \in joined /\ joined' = {}) => disk' >= turnFlush]_savesVars

\* While the turn runs, a record that changed is on disk, being saved or due to be, or the
\* failure to save it was told; once its flush is over, so is the sub-agent's last state.  A
\* flush that cancels the timer, joins a save that then fails, or comes while a save is under
\* way could drop a state and look done.  And a change is taken up by a save, and a batch too,
\* whatever save is under way when it comes; after a failure it may wait for the next one: a
\* timer that fired during the save that failed was rejected with it, and nothing is armed for
\* what it was to save.  And a flush that resolves did what it was called for.
NothingForgotten ==
    /\ []((stage = "prompting" /\ disk < memory) => (timer \/ joined # {} \/ told))
    /\ []((stage \in {"writing", "over"} /\ childDisk < child) => childTold)
    /\ []<>(~dirty \/ stage # "prompting" \/ told)
    /\ []<>(childPending = 0)
    /\ FlushWritesItsState
====
