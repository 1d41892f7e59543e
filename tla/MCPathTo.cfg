CONSTANTS
  a = a
  b = b
  c = c
  Node <- MCNode
  Graph <- MCGraph
SPECIFICATION Spec
INVARIANTS
  NoneIsRight
  FoundIsRight
  AgreesWithHasPath
CHECK_DEADLOCK FALSE
