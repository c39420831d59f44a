CONSTANTS
  n1 = n1
  n2 = n2
  n3 = n3
  t1 = t1
  t2 = t2
  NoItem = NoItem
  Nodes <- MCNodes
  Edges <- MCEdges
  Threads <- MCThreads
  MaxNodes = 1
  MaxEdges = 1
  PruneInterval = 2
  MaxPending = 1
  MaxForgotten = 2
SPECIFICATION Spec
SYMMETRY MCSymmetry
INVARIANTS
  TypeOK
  StaleHasCause
  DanglingHasCause
  NodesBounded
