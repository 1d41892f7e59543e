CONSTANTS
  a = a
  b = b
  c = c
  Root = root
  Package <- MCPackage
  Book <- MCBook
  Request <- MCRequest
  Level = {1, 3}
  SuffixOf = {}
  PartOf = {}
SPECIFICATION FairSpec
INVARIANTS
  RequestsBuilt
  DependenciesFirst
  RuntimeFirst
PROPERTY Terminates
CHECK_DEADLOCK FALSE
