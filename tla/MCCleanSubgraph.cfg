CONSTANTS
  a = a
  b = b
  c = c
  Root = root
  Package <- MCPackage
  Graph <- MCGraph
  SuffixOf = {}
  PartOf = {}
SPECIFICATION Spec
INVARIANTS
  CleanOutput
  AfterServesParents
  NothingLost
  NoNewCycle
  FirstBreaksCycle
CHECK_DEADLOCK FALSE
