CONSTANTS
  Q = 10
  BoostUnit = 2
  Bets <- MCBets
SPECIFICATION Spec
INVARIANTS
  TypeOK
  RefundIsStake
  WinPaysPotential
PROPERTY
  BetterLegNeverPaysLess
