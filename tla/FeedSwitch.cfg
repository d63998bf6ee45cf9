CONSTANTS
  None = None
  Sources = {"auto", "backup"}
  MaxMoves = 1
  MaxSwitches = 1
  MaxFaults = 1
  MaxStream = 1
SPECIFICATION Spec
INVARIANTS
  TypeOK
  NoStalePrice
  BackupFillsOffer
  AmqpFillsOffer
