CONSTANTS
  c1 = c1
  c2 = c2
  ToolCallId = {c1, c2}
  MaxBatch = 1
  MaxInputs = 2
  MaxModelCalls = 2
  MaxGenerations = 1
SYMMETRY ToolCallSymmetry
SPECIFICATION SessionSpec
CHECK_DEADLOCK FALSE
INVARIANTS InputsConserved 
