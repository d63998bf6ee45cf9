CONSTANTS
  None = None
  Sources = {"auto", "backup"}
  MaxMoves = 1
  MaxSwitches = 2
  MaxFaults = 1
  MaxStream = 1
SPECIFICATION Spec
INVARIANTS
  FlushedOnConnect
