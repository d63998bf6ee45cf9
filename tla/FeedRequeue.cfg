CONSTANTS
  None = None
  Sources = {"auto"}
  MaxMoves = 2
  MaxSwitches = 0
  MaxFaults = 1
  MaxStream = 1
SPECIFICATION Spec
INVARIANTS
  RequeuedIsNewest
