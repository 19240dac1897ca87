--------------------------- MODULE MCOwnerProcess ---------------------------
(* An owner process on small instances: its lease, which an owner and a        *)
(* command of another pod judge, and the start and the end of its turns.  The  *)
(* two models share no state: a behaviour is one of the lease (QueueLease), or *)
(* one of the turns (TurnControl).                                             *)
EXTENDS MCQueueLease, TurnControl

VARIABLE part   \* whose behaviour it is

OwnerProcessInit ==
  /\ part \in {"lease", "turns"}
  /\ Init /\ (part = "lease" \/ lease = NoLease)
  /\ TurnInit /\ (part = "turns" \/ harness = "claude")

OwnerProcessNext ==
  \/ part = "lease" /\ Next /\ UNCHANGED <<part, turnVars>>
  \/ part = "turns" /\ TurnNext /\ UNCHANGED <<part, vars>>

\* The fairness of QueueLease, in its own behaviours.
OwnerProcessFairness ==
  /\ \A o \in Owners :
       /\ SF_vars(part = "lease" /\ Acquire(o))
       /\ WF_vars(part = "lease" /\ Exit(o))
       /\ WF_vars(part = "lease" /\ BackgroundEnds(o))
       /\ SF_vars(part = "lease" /\ BeatSuperseded(o))
       /\ SF_vars(part = "lease" /\ RepairProbe(o))
  /\ \A c \in Commands : WF_vars(part = "lease" /\ CommandReapsSocket(c))

OwnerProcessSpec ==
  /\ OwnerProcessInit /\ [][OwnerProcessNext]_<<part, vars, turnVars>>
  /\ OwnerProcessFairness

\* The state of both components is well formed.
OwnerProcessTypeOK == TypeOK /\ TurnTypeOK
=============================================================================
