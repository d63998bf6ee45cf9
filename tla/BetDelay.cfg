CONSTANTS
  t1 = t1
  t2 = t2
  t3 = t3
  m1 = m1
  m2 = m2
  w1 = w1
  ma1 = ma1
  ma2 = ma2
  amqp = amqp
  sweeper = sweeper
  backup = backup
  None = None
  Wallets = {w1}
  Markets = {m1, m2}
  Matches = {ma1, ma2}
  Outcomes <- MCOutcomes
  Tickets = {t1, t2}
  Consumers = {amqp}
  Sweepers = {}
  WalletOf <- MCWalletOf
  Stake <- MCStake
  Picks <- ComboPicks
  UsdcTickets = {t2}
  RepriceTickets = {t2}
  DriftExempt <- MCExempt
  MatchOf <- TwoMatchOf
  Prices = {20, 21, 33}
  OpeningPrice = 20
  DriftTolerance = 5
  Opening = 30
  SettlePayloads <- HomeOnly
  CancelWindows <- PartWindows
  ChunkSize = 1
  MaxClock = 1
  MaxApplied = 1
  MaxFaults = 0
  MaxMoves = 2
  Potential <- MCPotential
  Reprice <- MCReprice
  ComputePayout <- MCComputePayout
CHECK_DEADLOCK FALSE
SPECIFICATION Spec
INVARIANTS
  PotentialMatchesLegs
  OpenLiabilityExact
