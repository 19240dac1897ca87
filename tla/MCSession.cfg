\* Two commands of any kind beside an owner with two saves under way; an archive
\* with four jobs, two killed ones and a failed rename; four profiles of three
\* accounts and a message that is injected; a flow that starts two nodes, with a
\* heartbeat, and a failed write or a signal.
CONSTANTS
  w1 = w1
  w2 = w2
  c1 = c1
  c2 = c2
  RecordCommands <- TwoCommands
  Owner = owner
  OwnerWrites <- TwoWrites
  MaxTime = 2
  None = None
  MaxLines = 2
  MaxJobs = 4
  MaxKills = 2
  MaxErrors = 1
  Profiles <- FourProfiles
  AccountOf <- Shared
  FirstProfile = "p"
  Steered = {"i"}
  TaskMessage = "main"
  MaxExpired = 1
  MaxLockFlips = 1
  MaxAttempts = 2
  MaxBeats = 1
  MaxMishaps = 1
SPECIFICATION SessionSpec
SYMMETRY AnyName
INVARIANTS SessionTypeOK SelectionComesHome DeferredToldOnce FlowRunAccounted
PROPERTIES OwnedGroupsKept ClosedUntilReopened PinRegressedOnlyByOverlap ArchiveKeepsFiles
CHECK_DEADLOCK FALSE
