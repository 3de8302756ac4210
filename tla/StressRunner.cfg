\* Three runs of four chapters, three faults.
CONSTANTS
  NumChapters = 4
  Attempts = 2
  Suites = 2
  NoCheckpoint = NoCheckpoint
  MaxRuns = 3
  MaxFaults = 3
SPECIFICATION FairSpec
INVARIANTS
  PassedIsEarned
  CrashLosesNothing
PROPERTIES
  RunsEnd
CHECK_DEADLOCK FALSE
