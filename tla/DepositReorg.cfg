CONSTANTS
  x1 = x1
  alice = alice
  u1 = u1
  None = None
  Txs = {x1}
  Effects <- Plain
  Addresses = {alice}
  Users = {u1}
  Bases = {0, 1}
  Positions = {0, 1}
  ManualAmounts = {7}
  Confirmations = 2
  StartBlock = 1
  StartLookback = 0
  MaxBlockRange = 2
  MaxReorg = 1
  MaxMined = 4
  MaxErrors = 0
SPECIFICATION Spec
INVARIANT
  CreditedAtMostSent
