\* A task of one message on four profiles of three accounts.
CONSTANTS
  Profiles <- FourProfiles
  AccountOf <- Shared
  FirstProfile = "p"
  Steered = {}
  TaskMessage = "main"
  MaxExpired = 0
  MaxLockFlips = 0
SPECIFICATION FailoverSpec
INVARIANTS MainToldOnce
CHECK_DEADLOCK FALSE
