CONSTANTS
  Task = {t1}
  Question = {q1, q2}
  MaxRunning = 1
  MaxFaults = 0
  MaxForms = 2
  MaxLost = 0
  MaxCrashes = 0
SPECIFICATION ToolsSpec
PROPERTY TimedOutStaysOpen
CHECK_DEADLOCK FALSE
