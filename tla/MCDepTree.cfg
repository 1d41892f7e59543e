CONSTANTS
  a = a
  b = b
  c = c
  d = d
  e = e
  Root = root
  Node <- MCNode
  Graph <- MCGraph
  PartOf = {}
SPECIFICATION FairSpec
INVARIANTS
  CompleteUnlessAmbiguous
  SortedUnlessRelisted
  StrongestUnlessMoved
  CircularIsOpen
  BuiltOnce
PROPERTY Terminates
CHECK_DEADLOCK FALSE
