SPECIFICATION FairSpec
CONSTANTS
  Procs = {p1, p2, p3}
  Unlockers = {u1, u2}
  Cancellers = {c1}
  MaxLocks = 3
  Parents = {p1}
INVARIANTS
  LiveHolderOwns
  NoOrphan
PROPERTIES
  MutualExclusion
  LeaseReclaimed
CHECK_DEADLOCK FALSE
