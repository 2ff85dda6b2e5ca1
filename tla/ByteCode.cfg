SPECIFICATION Spec
CONSTANTS
  Ops <- AllOps
  Iterates <- AllIterates
  Shapes <- AllShapes
  Repeats = 2
  Pushed = 8
  MaxTuples = 2
  NumRegs = 2
  MaxCalls = 4
CHECK_DEADLOCK FALSE
INVARIANTS FetchesInstructions PrinterReadsOperands ReturnsToCaller EndsClean
