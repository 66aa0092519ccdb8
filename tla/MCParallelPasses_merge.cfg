SPECIFICATION FairSpec
CONSTANTS
  p1 = p1
  p2 = p2
  p3 = p3
  r1 = r1
  f1 = f1
  Group <- MCGroup3
  Others = {r1}
  Files = {f1}
  Block = 1
  Workers = 2
  MaxSessions = 3
  MERGE_ATTEMPTS = 3
  Used = 1
  Menu <- MCMenu
  CanFail = TRUE
  Nobody = Nobody
CHECK_DEADLOCK FALSE
INVARIANTS IdsNeverMeet ArtifactsExplained
PROPERTIES NothingOverwritten ImplementsSerial FanOutEnds
