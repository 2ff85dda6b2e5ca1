SPECIFICATION Spec
CONSTANTS
  NUM_THREADS = 3
  WorkStealing = FALSE
  HasThreadPredicates = TRUE
  CanStop = FALSE
  InitialNodes = 1
  Fuel = 2
INVARIANTS ThreadFactAnnounced
PROPERTIES ZeroMeansNoWork
