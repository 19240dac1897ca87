---------------------------- MODULE MCSessionOwner ----------------------------
(* The owner of a session on small instances: its queue, its turns and its    *)
(* end (QueueOwner), the saves that carry a turn's changes to the record      *)
(* (CoalescedSaves), the row of the index that follows the record             *)
(* (SessionIndex), and the output style that the owner takes up from it       *)
(* (OutputStyle).  The models share no state: a behaviour is one of the part  *)
(* it begins with.                                                            *)
EXTENDS QueueOwner, SessionIndex, CoalescedSaves, OutputStyle

\* The second prompt is sent without waiting for it.
FirstAndLast == {1, 3}

\* The owner, a re-parent, and a close and template mark.
Three == {"owner", "mover", "marker"}
Programs == [owner |-> {"write"}, mover |-> {"move"}, marker |-> {"write", "mark"}]

Groups == {"lifecycle", "parent"}
Parent == {"parent"}

VARIABLE part   \* whose behaviour it is

SessionOwnerInit ==
  /\ part \in {"queue", "index", "saves", "style"}
  /\ Init /\ (part = "queue" \/ backend = "answering")
  /\ IndexInit /\ SavesInit /\ StyleInit

SessionOwnerNext ==
  \/ part = "queue" /\ Next /\ UNCHANGED <<part, indexVars, savesVars, styleVars>>
  \/ part = "index" /\ IndexNext /\ UNCHANGED <<part, savesVars, styleVars, vars>>
  \/ part = "saves" /\ SavesNext /\ UNCHANGED <<part, indexVars, styleVars, vars>>
  \/ part = "style" /\ StyleNext /\ UNCHANGED <<part, indexVars, savesVars, vars>>

\* The fairness of each component, in its own behaviours.
SessionOwnerFairness ==
  /\ WF_vars(part = "queue" /\ TurnStep) /\ WF_vars(part = "queue" /\ LoopStep)
  /\ \A t \in Tasks : WF_vars(part = "queue" /\ (SteerOpens(t) \/ SteerWritten(t)))
  /\ \A r \in Requests : WF_vars(part = "queue" /\ DrainStep(r))
  /\ \A p \in Processes :
       /\ WF_indexVars(part = "index" /\ JobStep(p))
       /\ SF_indexVars(part = "index" /\ \E k \in Kinds : TakeLock(p, k))
  /\ WF_indexVars(part = "index" /\ OthersRelease)
  /\ WF_savesVars(part = "saves" /\ TimerFires)
  /\ WF_savesVars(part = "saves" /\ SaveReads)
  /\ WF_savesVars(part = "saves" /\ (SaveEnds \/ SaveFails))
  /\ WF_savesVars(part = "saves" /\ ChildTimerFires)
  /\ WF_savesVars(part = "saves" /\ \E ok \in BOOLEAN : ChildSaveEnds(ok))
  /\ WF_styleVars(part = "style" /\ (TakePrompt \/ ReadForTurn \/ ConnectWarm \/ ConnectCold))
  /\ WF_styleVars(part = "style" /\ styleTurn.at = "live" /\ SaveTurn)
  /\ WF_styleVars(part = "style" /\ TurnOver)
  /\ WF_styleVars(part = "style" /\ AtBoundary)
  /\ WF_styleVars(part = "style" /\ IdleRelease)
  /\ \A c \in Setters :
       WF_styleVars(part = "style" /\ (ReadForSet(c) \/ WriteStyle(c) \/ RecycleOwner(c)))

SessionOwnerSpec ==
  /\ SessionOwnerInit /\ [][SessionOwnerNext]_<<part, vars, indexVars, savesVars, styleVars>>
  /\ SessionOwnerFairness

\* The state of every component is well formed.
SessionOwnerTypeOK == TypeOK /\ IndexTypeOK /\ SavesTypeOK /\ StyleTypeOK
===============================================================================
