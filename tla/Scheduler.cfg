SPECIFICATION FairSchedulerSpec
CONSTANTS
  Task = {t1, t2}
  NoTask = NoTask
  Interrupter = {i1, i2}
  MaxInputs = 1
  MaxFailures = 1
CHECK_DEADLOCK FALSE
INVARIANTS
  ShutdownCancelsAll

  
  
