\* A sender and a closer who meet up to three owners; two agents and one automation
\* that create sessions in a box with room for two.  A lock with a budget above
\* staleMs: two scopes, a file left behind and a death.
CONSTANTS
  MaxOwners = 3
  MaxSpawns = 2
  MaxSubmits = 3
  MaxOwnerDeaths = 1
  Creates = {"c1", "c2", "a1"}
  Automation = {"a1"}
  Named = {"c2"}
  Room = 5
  LimitRoom = 6
  ReserveNew = 2
  LiveFloor = 1
  MaxLost = 1
  MaxKilled = 1
  MaxExpired = 1
  p1 = p1
  p2 = p2
  p3 = p3
  hostScope = hostScope
  podScope = podScope
  Procs <- ThreeProcs
  Scopes <- TwoScopes
  Scope <- PodScope
  Unidentified = Unidentified
  NoFile = NoFile
  StaleAge = 0
  Budget = 1
  MaxAcquire = 1
  MaxCrashes = 1
  Stamped = TRUE
  LeftOver = TRUE
  Prompt = TRUE
SPECIFICATION CommandsSpec
INVARIANTS CommandsTypeOK TakenAsTold NothingPromisedTwice
PROPERTIES SenderAnswered AutomationStarts StaleFilesBroken
CHECK_DEADLOCK FALSE
