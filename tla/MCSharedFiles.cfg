\* Three processes of one scope, two of which may die; one owner with two writes
\* at a time, five entries, compaction, a close and an end of a process; two
\* reconciles that run three times over two holders which move twice, an edit of
\* the row, a cut-off and a backfill; two attempts of a spawn, three processes and
\* a crash.
CONSTANTS
  p1 = p1
  p2 = p2
  p3 = p3
  hostScope = hostScope
  podScope = podScope
  owner = owner
  closer = closer
  w1 = w1
  w2 = w2
  r1 = r1
  r2 = r2
  Procs <- ThreeProcs
  Scopes <- OneScope
  Scope <- LocalScope
  Unidentified = Unidentified
  NoFile = NoFile
  StaleAge = 1
  Budget = 2
  MaxAcquire = 2
  MaxCrashes = 2
  Stamped = TRUE
  LeftOver = FALSE
  Prompt = FALSE
  Holders <- TwoHolders
  LogOwner = owner
  LogWrites <- TwoWrites
  MaxMessages = 5
  Window = 3
  CompactAt = 3
  MaxEnds = 1
  CloseOverlaps = FALSE
  SeatSessions = {"a", "b"}
  Founder = "a"
  Reconciles <- TwoReconciles
  NoRow = NoRow
  MaxMoves = 2
  MaxStarts = 3
  MaxEdits = 1
  MaxFailures = 1
  MaxBackfills = 1
  MaxFence = 2
  Programs <- ThreePrograms
  ChildOf <- Children
  AcpIds = {"a", "b"}
  FirstAcp = "a"
  NoOne = NoOne
  MaxTorn = 1
SPECIFICATION SharedFilesSpec
SYMMETRY AnyName
INVARIANTS SharedFilesTypeOK MutualExclusion HistoryStands SeatRowKept
PROPERTIES LiveLockLostOnlyToLateUnlink SpawnsFenced
CHECK_DEADLOCK FALSE
