CONSTANTS
  a = a
  b = b
  c = c
  s = s
  Root = root
  Package <- MCPackage
  Graph <- MCGraph
  SuffixOf <- AtEnd
  PartOf <- AtEnd
SPECIFICATION Spec
INVARIANT NothingLost
CHECK_DEADLOCK FALSE
