CONSTANTS
  a = a
  b = b
  c = c
  Root = root
  Package <- MCPackage
  Book <- MCBook
  Request <- MCRequest
  Level = {1, 2, 3, 4}
SPECIFICATION Spec
INVARIANTS
  NothingExtra
  NothingMissing
  OpenOnce
CHECK_DEADLOCK FALSE
