CONSTANTS
  MaxParts = 2
  MaxPieces = 4
  MaxOrphans = 1
  RepeatsSteps = FALSE
  Protocols <- AllWires
SPECIFICATION StreamSpec
CHECK_DEADLOCK FALSE
INVARIANTS
  StreamContract
  
  CutKeepsWhole
  
  
