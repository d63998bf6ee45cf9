CONSTANTS
  t1 = t1
  t2 = t2
  t3 = t3
  m1 = m1
  m2 = m2
  w1 = w1
  ma1 = ma1
  ma2 = ma2
  amqp = amqp
  sweeper = sweeper
  backup = backup
  None = None
  Wallets = {w1}
  Markets = {m1}
  Matches = {ma1}
  Outcomes <- MCOutcomes
  Tickets = {t1, t2}
  Consumers = {amqp}
  Sweepers = {sweeper}
  WalletOf <- MCWalletOf
  Stake <- MCStake
  Picks <- OneMarketPicks
  UsdcTickets = {t1, t2}
  RepriceTickets = {t1}
  DriftExempt = {}
  MatchOf <- OneMatchOf
  Prices = {20}
  OpeningPrice = 20
  DriftTolerance = 5
  Opening = 20
  SettlePayloads <- HomeOnly
  CancelWindows <- OneWindows
  ChunkSize = 1
  MaxClock = 0
  MaxApplied = 2
  MaxFaults = 0
  MaxMoves = 0
  Potential <- MCPotential
  Reprice <- MCReprice
  ComputePayout <- MCComputePayout
SPECIFICATION FairSpec
PROPERTIES
  CancelIsPickedUp
