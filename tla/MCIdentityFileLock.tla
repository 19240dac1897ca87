------------------------- MODULE MCIdentityFileLock -------------------------
(* Instances of IdentityFileLock for TLC: processes of one scope, and of two. *)
EXTENDS IdentityFileLock, TLC

CONSTANTS p1, p2, p3, hostScope, podScope

ThreeProcs == {p1, p2, p3}

OneScope == {hostScope}
LocalScope == [p \in ThreeProcs |-> hostScope]

TwoScopes == {hostScope, podScope}
PodScope == [p \in ThreeProcs |-> IF p = p3 THEN podScope ELSE hostScope]
=============================================================================
