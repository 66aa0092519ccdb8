SPECIFICATION Spec
CONSTANTS
  CommitWindow = 2
  MaxEvents = 3
INVARIANT UnprovableIsHeld
CHECK_DEADLOCK FALSE
