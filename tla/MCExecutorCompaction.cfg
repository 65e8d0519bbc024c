CONSTANTS
  c1 = c1
  ToolCallId = {c1}
  MaxBatch = 1
  MaxInputs = 1
  MaxModelCalls = 2
  MaxGenerations = 2
  ToolModes = {"Parallel"}
  MaxParallel = 1
  Compactions = {"Local", "Upstream"}
  ToolReturns = {"Reported"}
  MaxFaults = 0
SPECIFICATION FairExecutorSpec
CHECK_DEADLOCK FALSE
INVARIANTS SummaryFresh OperationClosesCalls
PROPERTIES CancelledRunEnds
