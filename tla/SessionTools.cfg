CONSTANTS
  Task = {t1}
  Question = {q1, q2}
  MaxRunning = 1
  MaxFaults = 1
  MaxForms = 1
  MaxLost = 1
  MaxCrashes = 1
SPECIFICATION FairToolsSpec
INVARIANT
  NoStrayProcess
  AnswersArrive
PROPERTY
  EndedForGood
  
CHECK_DEADLOCK FALSE
