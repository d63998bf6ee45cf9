CONSTANTS
  x1 = x1
  alice = alice
  u1 = u1
  None = None
  Txs = {x1}
  Effects <- Erratic
  Addresses = {alice}
  Users = {u1}
  Bases = {0}
  Positions = {0, 1}
  ManualAmounts = {7}
  Confirmations = 2
  StartBlock = 0
  StartLookback = 1
  MaxBlockRange = 2
  MaxReorg = 2
  MaxMined = 4
  MaxErrors = 1
SPECIFICATION FairSpec
INVARIANTS
  TypeOK
  MoneyFollowsLedger
  ScanIsComplete
PROPERTIES
  CreditIsConfirmed
  ConfirmedIntentsEnd
