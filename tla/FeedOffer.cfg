CONSTANTS
  None = None
  Sources = {"auto", "backup"}
  MaxMoves = 0
  MaxSwitches = 1
  MaxFaults = 1
  MaxStream = 1
SPECIFICATION FairSpec
PROPERTIES
  OfferComesBack
