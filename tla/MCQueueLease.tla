---------------------------- MODULE MCQueueLease ----------------------------
(* Instances of QueueLease for TLC: one scope, or two pods. *)
EXTENDS QueueLease, TLC

CONSTANTS o1, o2, o3, c1, hostScope, podScope

TwoOwners == {o1, o2}
ThreeOwners == {o1, o2, o3}
OneCommand == {c1}
TwoScopes == {hostScope, podScope}

LocalScope == [p \in Procs |-> hostScope]

(* o2 and the command run in another pod than o1 and o3. *)
PodScope == [p \in Procs |-> IF p \in {o2, c1} THEN podScope ELSE hostScope]
=============================================================================
