SPECIFICATION CycleSpec
CONSTANTS
  Findings = {f1}
  Classes = {c1}
  Sessions = {s1, s2, s3}
  ReopenLimit = 2
  Norms = {"token"}
  Overlapping = FALSE
  None = None
  Passes = {p1}
  Critical = {f1}
  TriageCap = 2
  CanCrash = TRUE
  Meddling = TRUE
SYMMETRY CycleSymmetry
CHECK_DEADLOCK FALSE
INVARIANTS DoneIsDone DispatchHasWork HasWayOut
