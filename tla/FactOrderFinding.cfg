SPECIFICATION Spec
CONSTANTS
  Pred = {"a"}
  ThreadPred = {}
  NumRules = 1
  Body <- PlainBody
  Thread <- Threads
  Node <- Nodes
  thread_node <- MCThreadNode
  owner0 <- MCOwner
  LinearPred = {"a"}
  ReusedPred = {}
  InitPred = "a"
  InitNode = {"n1"}
  SelfDest = {}
  MaxFacts = 3
  MaxMoves = 0
INVARIANTS FactOrder
CHECK_DEADLOCK FALSE
