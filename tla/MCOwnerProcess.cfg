\* Two pods: an owner on each side that judges the other by its heartbeat, and a
\* command that does the same.  Two turns with two injected messages, a retry and
\* a cancel.
CONSTANTS
  o1 = o1
  o2 = o2
  o3 = o3
  c1 = c1
  hostScope = hostScope
  podScope = podScope
  Owners <- TwoOwners
  Commands <- OneCommand
  Scopes <- TwoScopes
  Scope <- PodScope
  NoLease = NoLease
  Garbage = Garbage
  NoSocket = NoSocket
  Free = Free
  MaxLosses = 0
  LongPauses = FALSE
  Harnesses = {"claude", "pi", "codex"}
  MaxTurns = 2
  MaxInjected = 2
  MaxRetries = 1
  MaxCancels = 1
SPECIFICATION OwnerProcessSpec
INVARIANTS OwnerProcessTypeOK StartingCancelReachesAgent OneLiveAdapter
PROPERTIES TakenOnlyFromTheSilent OwnersSettle
CHECK_DEADLOCK FALSE
