CONSTANTS
  Capacity = 2
  MaxJobs = 3
  MaxSpurious = 2
SPECIFICATION FairSpec
INVARIANTS TypeOK ExitOnlyDrained
PROPERTIES WaitMeansDone WaitReturns JobsRun ShutdownCompletes
CHECK_DEADLOCK FALSE
