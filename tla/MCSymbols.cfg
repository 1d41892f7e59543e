CONSTANTS
  None = None
  Absent = Absent
  Menus <- MCMenuSet
  Item <- MCNames
  Modules = "MODULES"
  Numbers <- MCNumbers
  Asked <- MCAsked
SPECIFICATION Spec
INVARIANTS Fresh Calculable LoopsFound EntersOnce NoOrphans
PROPERTIES Invalidates
CHECK_DEADLOCK FALSE
