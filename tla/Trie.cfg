CONSTANTS RefLimit = 16
Preds <- MCPreds
Threshold = 2
BaseBuckets = 2
Depths = {0, 1}
MaxLeaves = 4
SPECIFICATION Spec
INVARIANTS TrieKept SearchExact
PROPERTY ImplementsCounts
CHECK_DEADLOCK FALSE
