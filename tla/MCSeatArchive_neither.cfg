\* Two holders that move twice and two reconciles that run three times; nothing is
\* edited, killed, refused or backfilled.
CONSTANTS
  SeatSessions = {"a", "b"}
  Founder = "a"
  Reconciles = {r1, r2}
  NoRow = NoRow
  MaxMoves = 2
  MaxStarts = 3
  MaxEdits = 0
  MaxFailures = 0
  MaxBackfills = 0
SPECIFICATION SeatArchiveSpec
INVARIANTS NeverInNeither
CHECK_DEADLOCK FALSE
