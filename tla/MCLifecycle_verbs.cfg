SPECIFICATION Spec
CONSTANTS
  Findings = {f1}
  Classes = {c1, c2}
  Sessions = {s1, s2, s3}
  ReopenLimit = 2
  Norms = {"token", "other"}
  Overlapping = TRUE
  None = None
SYMMETRY LifecycleSymmetry
CHECK_DEADLOCK FALSE
INVARIANTS ClassLinks NormGateHolds
PROPERTIES IndependentVerdict TriageDecidesDue
