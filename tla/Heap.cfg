SPECIFICATION Spec
CONSTANTS
  n1 = n1
  n2 = n2
  n3 = n3
  n4 = n4
  n5 = n5
  n6 = n6
  Nodes = {n1, n2, n3, n4, n5, n6}
  Priorities = {1, 2, 3}
  StealMax = 2
  Desc = TRUE
  StaticMax = 2
SYMMETRY NodeSymmetry
INVARIANTS HeapInv
PROPERTIES ImplementsBags
