CONSTANTS
  NUM_THREADS = 2
  WorkStealing = TRUE
  HasThreadPredicates = TRUE
  CanStop = FALSE
  InitialNodes = 1
  Fuel = 3
SPECIFICATION FairSpec
PROPERTIES ZeroMeansNoWork
