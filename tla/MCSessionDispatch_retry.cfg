SPECIFICATION Spec
CONSTANTS
  StartupDeadline = 2
  OutputDeadline = 3
  ActivityDeadline = 4
  IdleDeadline = 2
  SessionTimeout = 5
  RetryLimit = 1
  Profiles <- MCProfiles
INVARIANTS EveryDeadlineBites WorkPreserved RecordIsTrue
PROPERTIES RetryRepeatsNothing DispatchEnds
