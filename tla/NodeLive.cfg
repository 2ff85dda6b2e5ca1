SPECIFICATION FairSpec
CONSTANTS
  t1 = t1
  t2 = t2
  t3 = t3
  n1 = n1
  n2 = n2
  n3 = n3
  Nobody = Nobody
  Threads = {t1, t2}
  Nodes = {n1, n2, n3}
  Home <- Crowd
  WorkStealing = TRUE
  Ops <- OwnerOp
  Foreign <- NoOps
  JustMoved = TRUE
  SelfSends = FALSE
  StealMax = 16
  Facts = 1
  Instructions = 1
CHECK_DEADLOCK FALSE
PROPERTIES FactsProcessed MovesHappen
