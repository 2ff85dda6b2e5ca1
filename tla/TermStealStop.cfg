SPECIFICATION FairSpec
CONSTANTS
  NUM_THREADS = 2
  WorkStealing = TRUE
  HasThreadPredicates = TRUE
  CanStop = TRUE
  InitialNodes = 2
  Fuel = 2
INVARIANTS CounterKept WorkersActive
PROPERTIES EveryThreadEnds
