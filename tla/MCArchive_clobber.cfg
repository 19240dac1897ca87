\* Three jobs, one killed, and no rename that fails.
CONSTANTS
  MaxLines = 3
  MaxJobs = 3
  MaxKills = 1
  MaxErrors = 0
SPECIFICATION ArchiveSpec
INVARIANTS NothingClobbered
CHECK_DEADLOCK FALSE
