SPECIFICATION Spec
CONSTANTS
  Pred = {"a", "t"}
  ThreadPred = {"t"}
  NumRules = 2
  Body <- ThreadBody
  Thread <- Threads
  Node <- Nodes
  thread_node <- MCThreadNode
  owner0 <- MCOwner
  LinearPred = {"a", "t"}
  ReusedPred = {}
  InitPred = "a"
  InitNode = {"n1", "n2"}
  SelfDest = {}
  MaxFacts = 4
  MaxMoves = 0
INVARIANTS ThreadNothingForgotten
CHECK_DEADLOCK FALSE
