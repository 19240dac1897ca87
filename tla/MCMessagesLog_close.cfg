SPECIFICATION ResumedSpec
CONSTANTS
  owner = owner
  closer = closer
  w1 = w1
  Holders <- TwoHolders
  LogOwner = owner
  LogWrites <- OneWrite
  MaxMessages = 3
  Window = 3
  CompactAt = 9
  MaxEnds = 1
  CloseOverlaps = TRUE
INVARIANTS
  StillTold
CHECK_DEADLOCK FALSE
