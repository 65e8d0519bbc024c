SPECIFICATION FairBackgroundSpec
CONSTANTS
  Job = {j1, j2}
  MaxJobs = 1
  MaxFailures = 1
  MaxCrashes = 1
INVARIANTS
  DeliveredOnce
PROPERTIES
  YieldedIsReported
  WaitsEnd
\* A deleted session stays deleted.
CHECK_DEADLOCK FALSE
