------------------------------ MODULE MCHolders ------------------------------
(* Who holds a session, and who a seat, on small instances: the owner's lease *)
(* where all processes share a pid namespace (QueueLease), and the sessions   *)
(* that follow each other in one seat (SeatHolders).  The models share no     *)
(* state: a behaviour is one of the part it begins with.                      *)
EXTENDS MCQueueLease, SeatHolders

VARIABLE part   \* whose behaviour it is

HoldersInit ==
  /\ part \in {"lease", "seat"}
  /\ Init /\ (part = "lease" \/ lease = NoLease)
  /\ SeatHoldersInit
  /\ part = "seat" \/ (seat.holder = FirstHolder /\ ~holding[FirstHolder].closed)

HoldersNext ==
  \/ part = "lease" /\ Next /\ UNCHANGED <<part, seatHolderVars>>
  \/ part = "seat" /\ SeatHoldersNext /\ UNCHANGED <<part, vars>>

HoldersSpec == HoldersInit /\ [][HoldersNext]_<<part, vars, seatHolderVars>>
==============================================================================
