CONSTANTS
  None = None
  Absent = Absent
  Menus <- MCMenuList
  Numbers = {3, 9}
  Given <- MCGiven
  Keys <- MCKeys
  Searches <- MCSearches
  Terminals = {5, 6, 8}
  MainHelp = 1
  ShowHelp = 2
  JumpHelp = 1
  Offset = 1
  Sizes = {1, 2, 3, 4, 5, 6, 7}
  Width = 3
  MaxText = 3
  MaxBlind = 2
SPECIFICATION Spec
INVARIANT LeaveWorks
CHECK_DEADLOCK FALSE
