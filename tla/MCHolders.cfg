\* One scope: three owners, a command, and a socket path that vanishes once.  Two
\* activations in a seat of three sessions, with a backfill, a close
\* or reopen of a session and a cut-off.
CONSTANTS
  o1 = o1
  o2 = o2
  o3 = o3
  c1 = c1
  hostScope = hostScope
  podScope = podScope
  Owners <- ThreeOwners
  Commands <- OneCommand
  Scopes <- TwoScopes
  Scope <- LocalScope
  NoLease = NoLease
  Garbage = Garbage
  NoSocket = NoSocket
  Free = Free
  MaxLosses = 1
  LongPauses = TRUE
  Sessions = {p, n, m}
  FirstHolder = p
  Activations = {a1, a2}
  Nobody = Nobody
  MaxRuns = 2
  MaxFills = 1
  MaxLifecycle = 1
  MaxCutOffs = 1
SPECIFICATION HoldersSpec
INVARIANTS OneOwner
PROPERTIES LiveOwnerKeepsLease ServingSocketKept SeatHeld
CHECK_DEADLOCK FALSE
