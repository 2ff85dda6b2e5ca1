SPECIFICATION Spec
CONSTANTS
  NUM_THREADS = 2
  MaxCreated = 2
  Fuel = 4
  Rules <- MCRules
  ALLOCATED_IDS = 1
  FREED_MAX = 1
  None = None
INVARIANTS RefsExact IdsKept GarbageFound OwnDeletesSafe
CHECK_DEADLOCK FALSE
