CONSTANTS
  None = None
  Sources = {"prod", "backup"}
  MaxMoves = 0
  MaxSwitches = 1
  MaxFaults = 0
  MaxStream = 1
SPECIFICATION FairSpec
PROPERTIES
  SwitchBackRefills
