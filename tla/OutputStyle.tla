------------------------------- MODULE OutputStyle -------------------------------
(***************************************************************************)
(* The output style of a session, changed from outside while its queue     *)
(* owner may be running a turn (cli/session/session-control.ts             *)
(* setSessionOutputStyle, session/output-style.ts).                        *)
(*                                                                         *)
(* A style reaches the agent only when a query is BUILT, from the options  *)
(* the owner's shared client got when the owner started.  The setter only  *)
(* writes the record.  That a change is still to be taken up is never      *)
(* remembered: it is read off the record, whose applied_output_style says  *)
(* what the live query was built with.  Three paths recycle the owner: the *)
(* setter itself when no turn runs, the turn boundary, the idle check.     *)
(***************************************************************************)
EXTENDS Naturals, FiniteSets

CONSTANTS
  Setters,      \* calls of `acpx set outputStyle`, each made once
  Styles,       \* the styles a setter may ask for
  DefaultStyle, \* OUTPUT_STYLE_DEFAULT_ID: the harness's own "no style"
  NoStyle,      \* an absent field
  MayDecline,   \* TRUE if an agent may decline the replayed style
  MaxPrompts    \* bound: prompts sent to the session

ASSUME StyleAssumption ==
  /\ DefaultStyle \in Styles
  /\ NoStyle \notin Styles
  /\ MayDecline \in BOOLEAN
  /\ MaxPrompts \in Nat

VARIABLES
  styleRec,    \* the record on disk: output_style, applied_output_style, refused_output_style
  styleOwner,  \* the owner: none, idle, in a turn, or between the turn and its boundary checks
  made,        \* sessionOptions.outputStyle of its shared client, read at its start
  query,       \* the style the live query was built with; NoStyle while there is none
  styleTurn,   \* the turn's own copy of the record, and how far it is
  styleQueue,  \* prompts in the owner's memory
  prompts,     \* prompts sent so far
  setter,      \* the setters
  given        \* history: the style of the last setter that wrote

styleVars == <<styleRec, styleOwner, made, query, styleTurn, styleQueue, prompts, setter, given>>

StyleRecord == [desired : Styles, applied : Styles, refused : Styles \cup {NoStyle}]
NoTurn == [at |-> "none", want |-> DefaultStyle, applied |-> DefaultStyle, refused |-> NoStyle]

StyleInit ==
  /\ styleRec = [desired |-> DefaultStyle, applied |-> DefaultStyle, refused |-> NoStyle]
  /\ styleOwner = "none" /\ made = DefaultStyle /\ query = NoStyle /\ styleTurn = NoTurn
  /\ styleQueue = 0 /\ prompts = 0
  /\ setter = [c \in Setters |-> [at |-> "start", style |-> DefaultStyle, alive |-> FALSE,
                                  active |-> FALSE, copy |-> styleRec]]
  /\ given = DefaultStyle

----------------------------------------------------------------------------
(* The predicate, and the one place that writes `applied`.                 *)

\* A change is pending iff the two values of the record differ and the agent
\* has not already refused the desired one.
ChangePending(r) == r.desired # r.applied /\ r.refused # r.desired

(* Mutated form: a style that was declined leaves no applied style at all. *)
OutcomeWithoutStyle(t, declined) ==
  IF declined
    THEN [t EXCEPT !.applied = NoStyle, !.refused = t.want]
    ELSE [t EXCEPT !.applied = t.want, !.refused = NoStyle]

\* recordAppliedOutputStyleOutcome: what the turn asked for, unless the replay
\* reported that the agent declined it.
Outcome(t, declined) ==
  IF declined
    THEN [t EXCEPT !.applied = DefaultStyle, !.refused = t.want]
    ELSE [t EXCEPT !.applied = t.want, !.refused = NoStyle]

(* Mutated form: output_style is missing from the list of overlaid fields. *)
MergedFromTurn(t, disk) == [desired |-> t.want, applied |-> t.applied, refused |-> t.refused]

\* A save of the turn's copy: the durable fields, the desired style among them,
\* are overlaid from the record on disk; the outcome is the turn's.
Merged(t, disk) == [desired |-> disk.desired, applied |-> t.applied, refused |-> t.refused]

----------------------------------------------------------------------------
(* The owner.                                                              *)

\* An owner ends: its adapter and query die with it, its queue is lost.
OwnerEnds == 
  /\ styleOwner' = "none" /\ query' = NoStyle /\ styleTurn' = NoTurn /\ styleQueue' = 0
  /\ UNCHANGED made

\* A sender finds an owner, or spawns one: its shared client takes its options
\* from the record as it is now.
SendPrompt ==
  /\ prompts < MaxPrompts /\ prompts' = prompts + 1
  /\ styleQueue' = styleQueue + 1
  /\ IF styleOwner = "none"
       THEN styleOwner' = "idle" /\ made' = styleRec.desired
       ELSE UNCHANGED <<styleOwner, made>>
  /\ UNCHANGED <<styleRec, query, styleTurn, setter, given>>

\* The owner takes the next prompt: from here a turn is active.
TakePrompt ==
  /\ styleOwner = "idle" /\ styleQueue > 0
  /\ styleQueue' = styleQueue - 1 /\ styleOwner' = "turn"
  /\ styleTurn' = [NoTurn EXCEPT !.at = "taken"]
  /\ UNCHANGED <<styleRec, made, query, prompts, setter, given>>

\* The turn reads the record and resolves its session options from it.
ReadForTurn ==
  /\ styleTurn.at = "taken"
  /\ styleTurn' = [at |-> "read", want |-> styleRec.desired,
                   applied |-> styleRec.applied, refused |-> styleRec.refused]
  /\ UNCHANGED <<styleRec, styleOwner, made, query, styleQueue, prompts, setter, given>>

\* connectAndLoadSession on a client that still holds the session: no query is
\* built and nothing is replayed, and the outcome is stamped all the same.
ConnectWarm ==
  /\ styleTurn.at = "read" /\ query # NoStyle
  /\ styleTurn' = [Outcome(styleTurn, FALSE) EXCEPT !.at = "live"]
  /\ UNCHANGED <<styleRec, styleOwner, made, query, styleQueue, prompts, setter, given>>

\* connectAndLoadSession on a client without the session: the query is built
\* from the client's own options, then the turn's preferences are replayed, and
\* the agent may decline the style.
ConnectCold ==
  /\ styleTurn.at = "read" /\ query = NoStyle
  /\ \E declined \in {d \in BOOLEAN : d => MayDecline /\ styleTurn.want # DefaultStyle} :
       /\ query' = IF declined THEN DefaultStyle ELSE made
       /\ styleTurn' = [Outcome(styleTurn, declined) EXCEPT !.at = "live"]
  /\ UNCHANGED <<styleRec, styleOwner, made, styleQueue, prompts, setter, given>>

\* A checkpoint or the last write of the turn.
SaveTurn ==
  /\ styleTurn.at \in {"live", "saved"}
  /\ styleRec' = Merged(styleTurn, styleRec)
  /\ styleTurn' = [styleTurn EXCEPT !.at = "saved"]
  /\ UNCHANGED <<styleOwner, made, query, styleQueue, prompts, setter, given>>

\* The turn is over; a turn that could not connect ends without a stamp.
TurnOver ==
  /\ styleTurn.at \in {"read", "saved"}
  /\ styleOwner' = "boundary" /\ styleTurn' = NoTurn
  /\ UNCHANGED <<styleRec, made, query, styleQueue, prompts, setter, given>>

(* Mutated form: the owner asks the snapshot its client was made from. *)
OwnerSeesPendingOfSnapshot == ChangePending([styleRec EXCEPT !.desired = made])

\* What the owner asks at the boundary and when idle: the record on disk, read
\* again, and never its own copy.
OwnerSeesPending == ChangePending(styleRec)

\* The turn boundary: the owner recycles itself, or goes back to its queue.
AtBoundary ==
  /\ styleOwner = "boundary"
  /\ IF OwnerSeesPending
       THEN OwnerEnds
       ELSE styleOwner' = "idle" /\ UNCHANGED <<made, query, styleTurn, styleQueue>>
  /\ UNCHANGED <<styleRec, prompts, setter, given>>

\* The idle check, and the last look at the queue before the release.
IdleRelease ==
  /\ styleOwner = "idle" /\ styleQueue = 0 /\ OwnerSeesPending
  /\ OwnerEnds
  /\ UNCHANGED <<styleRec, prompts, setter, given>>

\* Any other end of the owner: the idle timeout, a new deployment, a crash.
OwnerGone ==
  /\ styleOwner # "none"
  /\ OwnerEnds
  /\ UNCHANGED <<styleRec, prompts, setter, given>>

----------------------------------------------------------------------------
(* The setter.                                                             *)

\* It refuses work queued behind a turn, and asks the owner whether a turn is
\* active.  No answer counts as no.
AskOwner(c, s) ==
  /\ setter[c].at = "start"
  /\ styleOwner = "none" \/ styleQueue = 0
  /\ \E answered \in BOOLEAN :
       setter' = [setter EXCEPT ![c].at = "asked", ![c].style = s,
                    ![c].alive = styleOwner # "none",
                    ![c].active = answered /\ styleOwner = "turn"]
  /\ UNCHANGED <<styleRec, styleOwner, made, query, styleTurn, styleQueue, prompts, given>>

ReadForSet(c) ==
  /\ setter[c].at = "asked"
  /\ setter' = [setter EXCEPT ![c].at = "read", ![c].copy = styleRec]
  /\ UNCHANGED <<styleRec, styleOwner, made, query, styleTurn, styleQueue, prompts, given>>

\* It writes its copy, and judges that copy: nothing to bind, pending for the
\* owner to find, or an idle owner to recycle.
WriteStyle(c) ==
  LET r == [setter[c].copy EXCEPT !.desired = setter[c].style]
  IN  /\ setter[c].at = "read"
      /\ styleRec' = r /\ given' = setter[c].style
      /\ setter' = [setter EXCEPT ![c].at = IF ChangePending(r) /\ ~setter[c].active /\ setter[c].alive
                                              THEN "recycle" ELSE "done"]
      /\ UNCHANGED <<styleOwner, made, query, styleTurn, styleQueue, prompts>>

\* It stops whatever owner there is; one on another pod is not signalled.
RecycleOwner(c) ==
  /\ setter[c].at = "recycle"
  /\ setter' = [setter EXCEPT ![c].at = "done"]
  /\ \/ OwnerEnds
     \/ UNCHANGED <<styleOwner, made, query, styleTurn, styleQueue>>
  /\ UNCHANGED <<styleRec, prompts, given>>

----------------------------------------------------------------------------
StyleOwnerSteps ==
  TakePrompt \/ ReadForTurn \/ ConnectWarm \/ ConnectCold \/ SaveTurn \/ TurnOver \/ AtBoundary \/ IdleRelease
SetterSteps(c) == (\E s \in Styles : AskOwner(c, s)) \/ ReadForSet(c) \/ WriteStyle(c) \/ RecycleOwner(c)

StyleNext ==
  SendPrompt \/ OwnerGone \/ StyleOwnerSteps \/ \E c \in Setters : SetterSteps(c)

\* The owner's loop goes on, a turn ends, and a setter that has begun comes to
\* its end.  No prompt has to be sent and no owner has to die.
StyleFairness ==
  /\ WF_styleVars(TakePrompt \/ ReadForTurn \/ ConnectWarm \/ ConnectCold)
  /\ WF_styleVars(styleTurn.at = "live" /\ SaveTurn) /\ WF_styleVars(TurnOver)
  /\ WF_styleVars(AtBoundary) /\ WF_styleVars(IdleRelease)
  /\ \A c \in Setters : WF_styleVars(ReadForSet(c) \/ WriteStyle(c) \/ RecycleOwner(c))

StyleSpec == StyleInit /\ [][StyleNext]_styleVars /\ StyleFairness

----------------------------------------------------------------------------
(* The values of the variables. *)
StyleTypeOK ==
  /\ styleRec \in StyleRecord
  /\ styleOwner \in {"none", "idle", "turn", "boundary"}
  /\ made \in Styles /\ query \in Styles \cup {NoStyle}
  /\ styleTurn \in [at : {"none", "taken", "read", "live", "saved"}, want : Styles,
                    applied : Styles, refused : Styles \cup {NoStyle}]
  /\ styleQueue \in 0 .. MaxPrompts /\ prompts \in 0 .. MaxPrompts
  /\ setter \in [Setters -> [at : {"start", "asked", "read", "recycle", "done"}, style : Styles,
                             alive : BOOLEAN, active : BOOLEAN, copy : StyleRecord]]
  /\ given \in Styles

(* After every step the style on the record is the one the last setter     *)
(* wrote, whatever copy a turn that began before it writes afterwards      *)
(* (mode-preference.ts mergeLatestDurableAcpxPreferences).                 *)
LastStyleStands == [][styleRec'.desired = given']_styleVars

(* A change that is pending is taken up: the owner ends, so that the next    *)
(* query is built from the new style, or the change is withdrawn.  No        *)
(* message to the owner is needed for it.                                    *)
PendingIsTakenUp == []<>(styleOwner = "none" \/ ~ChangePending(styleRec))

(* What commands ask for is neither lost to an older copy nor left waiting.  *)
StyleTakenUp == LastStyleStands /\ PendingIsTakenUp

(* The promise of output-style.ts: a change cannot be forgotten, because     *)
(* that would need a record on which desired and applied agree while the     *)
(* live query was built with something else.                                 *)
AppliedIsServed ==
  (query # NoStyle /\ styleOwner = "idle" /\ ~ChangePending(styleRec))
    => query = styleRec.desired \/ styleRec.refused = styleRec.desired
==================================================================================
