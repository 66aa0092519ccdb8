SPECIFICATION Spec
CONSTANTS
  None = None
  Texts <- MCTexts
  Confs <- MCConfs
  Setups <- MCSetups
  m1 = m1
  m2 = m2
  k1 = k1
  k2 = k2
  Materials = {m1, m2}
  Checkers = {k1, k2}
  Says <- MCSays
  MaxRuns = 3
  l1 = l1
  l2 = l2
  Logs = {l1, l2}
  Legacy = {l1}
  RootPaths <- MCRoots
  MaxRows = 5
  x1 = x1
  x2 = x2
  Files = {x1, x2}
  Core = x1
  Versions = {1, 2, 3}
  Ships <- MCShips
  Schema <- MCSchema
  Edit = Edit
  Torn = Torn
  Filings = 2
  Key <- MCKey
  Adapters = {"none", "codex", "codex-stream"}
  Reservation = 3
  Totals = {0, 1, 2, 4}
CHECK_DEADLOCK FALSE
INVARIANTS SubjectSetsNoPolicy ClosureEarned LogsAccounted AdviceHolds DiscountIsVouched
PROPERTIES EditsSurvive
