CONSTANTS
  MaxOrphans = 0
  MaxPieces = 3
  SignedPieces = {2}
  MaxRecords = 2
  MaxHops = 2
  MaxAttempts = 2
  MaxSegments = 2
  OutputBudget = 3
SPECIFICATION CallSpec
CHECK_DEADLOCK FALSE
PROPERTIES AnswerPromise CallEnds
