SPECIFICATION AnySpec
CONSTANTS
  NullPtr = NullPtr
  Threads = {0, 1, 2}
  Callers = {0, 1, 2}
  Width = 2
  NUM_THREADS = 5
  Tid <- ThreadIds
  Parent <- Built
  NoParent = NoParent
  Rounds = 3
  q1 = q1
  q2 = q2
  n1 = n1
  n2 = n2
  n3 = n3
  n4 = n4
  NullNode = NullNode
  Queues = {q1, q2}
  Nodes = {n1, n2, n3, n4}
  Junk = Junk
  StealMax = 2
  SizeMod = 256
INVARIANTS LockInv BarrierHolds WellLinked
PROPERTIES FifoOrder EveryWaiterEnters TicketOrder TicketCalled BarrierOpens ImplementsSequences
