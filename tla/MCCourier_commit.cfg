SPECIFICATION CourierSpec
CONSTANTS
  a = a
  f = f
  b = b
  h = h
  AuditDir = AuditDir
  Dir = Dir
  Files <- MCFiles
  Dirs <- MCDirs
  Under <- MCUnder
  Audit <- MCAudit
  Contents = {x, y}
  None = none
  MaxDirt = 1
SYMMETRY CourierSymmetry
PROPERTIES  MoveKeptClean
