CONSTANTS
  a = a
  b = b
  c = c
  d = d
  e = e
  Root = root
  Node <- MCNode
  Graph <- NamesGraph
  PartOf <- NamesPartOf
SPECIFICATION Spec
INVARIANT ListComplete
CHECK_DEADLOCK FALSE
