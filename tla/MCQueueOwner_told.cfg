\* An absorbing agent, one turn and one prompt that joins it and is answered.
CONSTANTS
  MaxTasks = 2
  Waiting = {1}
  MaxRequests = 0
  Backends = {"absorbing"}
  MaxDepth = 1
SPECIFICATION Spec
INVARIANT ToldOnce
CHECK_DEADLOCK FALSE
