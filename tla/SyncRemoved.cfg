CONSTANTS
  None = None
  Absent = Absent
  Menus <- MCMenuList
  Names <- MCNames
  Upgrades <- MCUpgrades
  Numbers <- MCNumbers
  Given <- MCGiven
  Tools <- MCTools
SPECIFICATION Spec
INVARIANTS RemovedFlagged
CHECK_DEADLOCK FALSE
