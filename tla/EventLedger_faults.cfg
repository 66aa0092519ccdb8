SPECIFICATION FairSpec
CONSTANTS
  CommitWindow = 2
  MaxEvents = 3
INVARIANTS
  NoPhantom
  NoDuplicate
  DiscardsOnlyUncommitted
PROPERTIES
  ImplementsJournal
  EventuallyRecorded
  CheckpointGrows
CHECK_DEADLOCK FALSE
