\* An owner of any kind of agent, a queue of one, closes of every kind; an owner,
\* a re-parent and a close with its mark at one row, with the writers of other
\* sessions; a turn of four changes with three batches of a sub-agent; two commands
\* that set the style of a session which gets two prompts.
CONSTANTS
  MaxTasks = 3
  Waiting <- FirstAndLast
  MaxRequests = 2
  Backends = {"answering", "absorbing", "sequential"}
  MaxDepth = 1
  Processes <- Three
  Owner = "owner"
  Verbs <- Programs
  Fields <- Groups
  Linkage <- Parent
  MaxWrites = 2
  MaxHolds = 1
  None = None
  MaxChanges = 4
  MaxBatches = 3
  Setters = {s1, s2}
  Styles = {"default", "terse"}
  DefaultStyle = "default"
  NoStyle = NoStyle
  MayDecline = TRUE
  MaxPrompts = 2
SPECIFICATION SessionOwnerSpec
INVARIANTS SessionOwnerTypeOK OneCustody
PROPERTIES HandedOutOldest NothingStartsWhileClosing UnforcedCloseSparesTasks Deliveries QueuedServed RowFollows NothingForgotten StyleTakenUp
CHECK_DEADLOCK FALSE
