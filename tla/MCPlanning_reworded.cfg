SPECIFICATION Spec
CONSTANTS
  p1 = p1
  p2 = p2
  c1 = c1
  c2 = c2
  d1 = d1
  d2 = d2
  u1 = u1
  n1 = n1
  f1 = f1
  None = None
  Human = Human
  PassOrder <- MCOrder
  Charters = {c1, c2}
  Dims = {d1, d2}
  Units = {u1}
  Norms = {n1}
  Findings = {f1}
  Trees <- MCTrees
  Drafts <- MCDrafts
  MaxSessions = 2
  MaxVerbs = 4
CHECK_DEADLOCK FALSE

PROPERTIES ReadingMatchesCharter
