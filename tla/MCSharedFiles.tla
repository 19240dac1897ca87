---------------------------- MODULE MCSharedFiles ----------------------------
(* Files that several processes write, on small instances: the lock file of   *)
(* three processes (IdentityFileLock), the history of a session               *)
(* (MessagesLog), the row of a seat between the store and the ledger of the   *)
(* archive (SeatArchive), and the records of spawn attempts under the ledger  *)
(* of spawns (SpawnLedger).  The models share no state: a behaviour is one of *)
(* the part it begins with.                                                   *)
EXTENDS MCIdentityFileLock, MessagesLog, SeatArchive, SpawnLedger

CONSTANTS owner, closer, w1, w2, r1, r2

TwoHolders == {owner, closer}
TwoWrites == {w1, w2}
TwoReconciles == {r1, r2}

\* The children of two attempts, and another program.
ThreePrograms == {"child1", "child2", "ui"}
Children == <<"child1", "child2">>

AnyName == Permutations(TwoWrites) \cup Permutations(TwoReconciles)

VARIABLE part   \* whose behaviour it is

SharedFilesInit ==
  part \in {"lock", "log", "row", "spawn"} /\ Init /\ LogInit /\ SeatArchiveInit /\ SpawnInit

SharedFilesNext ==
  /\ UNCHANGED part
  /\ IF part = "lock" THEN Next ELSE UNCHANGED vars
  /\ IF part = "log" THEN LogNext ELSE UNCHANGED logVars
  /\ IF part = "row" THEN SeatArchiveNext ELSE UNCHANGED seatArchiveVars
  /\ IF part = "spawn" THEN SpawnNext ELSE UNCHANGED spawnVars

SharedFilesSpec ==
  SharedFilesInit /\ [][SharedFilesNext]_<<part, vars, logVars, seatArchiveVars, spawnVars>>

\* The state of every component is well formed.
SharedFilesTypeOK == TypeOK /\ LogTypeOK /\ SeatArchiveTypeOK /\ SpawnTypeOK
===============================================================================
