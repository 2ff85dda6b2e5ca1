SPECIFICATION Spec
CONSTANTS
  Pred = {"a", "t", "p", "u"}
  ThreadPred = {"t"}
  NumRules = 4
  Body <- MixedBody
  Thread <- Threads
  Node <- Nodes
  thread_node <- MCThreadNode
  owner0 <- MCOwner
  LinearPred = {"a", "t", "u"}
  ReusedPred = {"u"}
  InitPred = "a"
  InitNode = {"n1"}
  SelfDest = {"a"}
  MaxFacts = 3
  MaxMoves = 1
INVARIANTS MatcherExact NothingForgotten FactInOnePlace
CHECK_DEADLOCK FALSE
