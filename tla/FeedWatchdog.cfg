CONSTANTS
  None = None
  Sources = {"prod"}
  MaxMoves = 0
  MaxSwitches = 0
  MaxFaults = 1
  MaxStream = 1
SPECIFICATION FairSpec
PROPERTIES
  WatchdogIsUndone
