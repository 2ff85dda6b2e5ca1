SPECIFICATION DatabasesSpec
CONSTANTS
  Value <- MCValues
  digit <- MCDigit
  HASH_TABLE_PRIME = 2
  HASH_TABLE_MAX_LEVELS = 3
  CREATE_HASHTABLE_THREADSHOLD = 2
  SparseLists = 3
  MaxFacts = 4
  FreshBitmaps <- Zeroed
  Scribbled = {0}
  UpdateHashed = FALSE
  Null = Null
  Garbage = Garbage
  RefLimit = 16
  Senders = {1, 2}
  Keys = {1}
  Vals = {0, 1, 2}
  Preds <- MCPreds
  Depths = {0}
  MaxList = 4
  MaxLinear = 1
INVARIANTS StoreExact SeenOnce SettledRight RulesFollowFacts
CHECK_DEADLOCK FALSE
