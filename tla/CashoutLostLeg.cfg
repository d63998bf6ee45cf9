CONSTANTS
  t1 = t1
  t2 = t2
  m1 = m1
  m2 = m2
  w1 = w1
  ma1 = ma1
  amqp = amqp
  q1 = q1
  q2 = q2
  left = left
  right = right
  None = None
  Wallets = {w1}
  Markets = {m1}
  Matches = {ma1}
  Outcomes <- MCOutcomes
  Tickets = {t1}
  Consumers = {amqp}
  Sweepers = {}
  WalletOf <- MCWalletOf
  Stake <- MCStake
  Picks <- MCPicks
  UsdcTickets = {t1}
  RepriceTickets = {}
  DriftExempt = {}
  MatchOf <- MCMatchOf
  Prices = {15, 20}
  OpeningPrice = 20
  DriftTolerance = 5
  Opening = 20
  SettlePayloads <- BothPayloads
  CancelWindows <- FullCancel
  ChunkSize = 1
  MaxClock = 1
  MaxApplied = 1
  MaxFaults = 0
  MaxMoves = 0
  Potential <- MCPotential
  Reprice <- MCReprice
  ComputePayout <- MCComputePayout
  Quotes = {q1, q2}
  Tabs = {left, right}
  Q = 10
  CashoutTickets = {t1}
  Kickoff <- MCKickoff
  FullPayback = 1
  MinOffer = 1
  MinChangeBp = 0
  DriftBp = 500
SPECIFICATION CashoutSpec
PROPERTIES
  LostLegIsRefused
CHECK_DEADLOCK FALSE
