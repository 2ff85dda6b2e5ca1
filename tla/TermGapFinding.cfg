CONSTANTS
  NUM_THREADS = 2
  WorkStealing = FALSE
  HasThreadPredicates = FALSE
  CanStop = FALSE
  InitialNodes = 1
  Fuel = 3
SPECIFICATION Spec
INVARIANTS EndsInactive
