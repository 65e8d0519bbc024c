CONSTANTS
  c1 = c1
  c2 = c2
  c3 = c3
  ToolCallId = {c1,c2,c3}
  MaxBatch = 3
  MaxInputs = 0
  MaxModelCalls = 1
  MaxGenerations = 0
  ToolModes = {"Parallel", "Serial"}
  MaxParallel = 2
  Compactions = {"None"}
  ToolReturns = {"Reported", "SuccessWithInput", "Yielded", "Unknown"}
  MaxFaults = 1
SYMMETRY ToolCallSymmetry
SPECIFICATION ExecutorSpec
CHECK_DEADLOCK FALSE
PROPERTIES EffectsReported
