SPECIFICATION Spec
CONSTANTS
  t1 = t1
  t2 = t2
  t3 = t3
  n1 = n1
  n2 = n2
  n3 = n3
  Nobody = Nobody
  Threads = {t1, t2}
  Nodes = {n1, n2, n3}
  Home <- Crowd
  WorkStealing = TRUE
  Ops <- PlaceOps
  Foreign <- ForeignPriority
  JustMoved = FALSE
  SelfSends = FALSE
  StealMax = 16
  Facts = 2
  Instructions = 2
CHECK_DEADLOCK FALSE
INVARIANTS InOnePlace NoFactStranded DatabaseWaitsEnd StaticNotStealable
