SPECIFICATION Spec
CONSTANTS
  Pred = {"a", "p"}
  ThreadPred = {}
  NumRules = 1
  Body <- PlainBody
  Thread <- Threads
  Node <- Nodes
  thread_node <- MCThreadNode
  owner0 <- MCOwner
  LinearPred = {"a"}
  ReusedPred = {}
  InitPred = "a"
  InitNode = {"n1"}
  SelfDest = {"p"}
  MaxFacts = 2
  MaxMoves = 0
INVARIANTS NotLockedOut
CHECK_DEADLOCK FALSE
