SPECIFICATION Spec
CONSTANTS
  p1 = p1
  p2 = p2
  Queue <- MCQueue
  Meets <- MCNone
  After = 1
  RepeatLimit = 2
  ProgressLimit = 2
  RetryLimit = 1
  MaxSessions = 3
  Budget = 4
  Timeout = 2
  Workers = 1
  Ceiling = 8
  Reservation = 2
  PassCeiling = 3
  Costs <- MCCosts
  Parallel = {TRUE, FALSE}
  MaxLoops = 2
  MaxStream = 4
  MaxSlice = 0
CHECK_DEADLOCK FALSE
INVARIANTS CeilingHolds EmbargoHolds StallStops
