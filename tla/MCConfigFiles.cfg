CONSTANTS
  None = None
  Absent = Absent
  Menus <- MCMenuList
  Names <- MCNames
  Upgrades <- MCUpgrades
  Numbers <- MCNumbers
  Given <- MCGiven
  Tools <- MCTools
SPECIFICATION Spec
INVARIANTS RoundTrip MinRoundTrip LoadReplaces NothingLost Rebuilt
PROPERTIES DiskSpec
CHECK_DEADLOCK FALSE
