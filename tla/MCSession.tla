------------------------------ MODULE MCSession ------------------------------
(* One session on small instances: the merge of its record's writers, its     *)
(* files between the hot directory and the archive, a task that hits account  *)
(* limits, and a flow that prompts it without an owner.  The models share no  *)
(* state: a behaviour is one of the part it begins with.                      *)
EXTENDS SessionRecord, Archive, Failover, FlowRun, TLC

CONSTANTS w1, w2, c1, c2

TwoWrites == {w1, w2}
TwoCommands == {c1, c2}

\* The names of writes and of commands are alike.
AnyName == Permutations(TwoWrites) \cup Permutations(TwoCommands)

\* q and q2 are profiles of one account.
FourProfiles == {"p", "q", "r", "q2"}
Shared == [x \in FourProfiles |-> IF x = "q2" THEN "q" ELSE x]

VARIABLE part   \* whose behaviour it is

SessionInit ==
  /\ part \in {"record", "archive", "failover", "flow"}
  /\ FailoverInit /\ FlowRunInit
  /\ RecordInit /\ (part = "record" \/ disk.closed = Open)
  /\ ArchiveInit /\ (part = "archive" \/ zst = NoContent)

SessionNext ==
  /\ UNCHANGED part
  /\ IF part = "record" THEN RecordNext ELSE UNCHANGED recordVars
  /\ IF part = "archive" THEN ArchiveNext ELSE UNCHANGED archiveVars
  /\ IF part = "failover" THEN FailoverNext ELSE UNCHANGED failoverVars
  /\ IF part = "flow" THEN FlowRunNext ELSE UNCHANGED runVars

SessionSpec ==
  SessionInit /\ [][SessionNext]_<<part, recordVars, archiveVars, failoverVars, runVars>>

\* The state of every component is well formed.
SessionTypeOK == RecordTypeOK /\ ArchiveTypeOK /\ FailoverTypeOK
==============================================================================
