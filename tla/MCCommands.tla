------------------------------ MODULE MCCommands ------------------------------
(* The commands of a session, on small instances: a sender and a closer and   *)
(* the owners they meet (OwnerClient), the create commands that share the     *)
(* memory of a box (Admission), and processes of two pods that take the lock  *)
(* of a file they share (IdentityFileLock).  The models share no state: a     *)
(* behaviour is one of the part it begins with.                               *)
EXTENDS MCIdentityFileLock, OwnerClient, Admission

VARIABLE part   \* whose behaviour it is

CommandsInit ==
  /\ part \in {"client", "capacity", "lock"}
  /\ ClientInit /\ AdmissionInit
  /\ Init /\ (part = "lock" \/ file = NoFile)

CommandsNext ==
  \/ part = "client" /\ ClientNext /\ UNCHANGED <<part, admissionVars, vars>>
  \/ part = "capacity" /\ AdmissionNext /\ UNCHANGED <<part, clientVars, vars>>
  \/ part = "lock" /\ Next /\ UNCHANGED <<part, clientVars, admissionVars>>

\* The fairness of each component, in its own behaviours.
CommandsFairness ==
  /\ WF_clientVars(part = "client" /\ SenderNext)
  /\ WF_clientVars(part = "client" /\ CloserNext /\ ~CloseStarts)
  /\ WF_clientVars(part = "client" /\ OthersTurnEnds)
  /\ \A g \in Generations : WF_clientVars(part = "client" /\ OwnerNext(g))
  /\ \A c \in Creates :
       /\ WF_admissionVars(part = "capacity" /\ c \in Automation /\ Decide(c))
       /\ WF_admissionVars(part = "capacity" /\ (CreateSession(c) \/ CreateFails(c)))
       /\ WF_admissionVars(part = "capacity" /\ (Bind(c) \/ UpdateLost(c)))
       /\ WF_admissionVars(part = "capacity" /\ (ReleaseEntry(c) \/ UpdateLost(c)))
       /\ WF_admissionVars(part = "capacity" /\ SessionEnds(c))
  /\ WF_vars(part = "lock" /\ Tick)
  /\ \A p \in Procs : WF_vars(part = "lock" /\ Proceed(p))

CommandsSpec ==
  /\ CommandsInit /\ [][CommandsNext]_<<part, clientVars, admissionVars, vars>>
  /\ CommandsFairness

\* The state of every component is well formed.
CommandsTypeOK == ClientTypeOK /\ AdmissionTypeOK /\ TypeOK
===============================================================================
