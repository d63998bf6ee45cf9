CONSTANTS
  s1 = s1
  s2 = s2
  u1 = u1
  u2 = u2
  e1 = e1
  Spins = {s1}
  Users = {u1}
  UserOf <- MCUserOf
  Stake <- MCStake
  Currency <- MCCurrency
  Opening = 30
  Events = {e1}
  Reports <- MCReports
  NoReport = NoReport
  Paytable <- MCPaytable
  MaxPayout = 100
  MatchCap = 100
  WindowSeconds = 1
  LeadSeconds = 1
  ClockPastSeconds = 1
  GraceSeconds = 1
  FeedDarkVoidSeconds = 2
  NeverStartedAfter = 1
  MatchSeconds = 4
  MaxFaults = 1
CHECK_DEADLOCK FALSE
SPECIFICATION Spec
INVARIANT
  FeedBackLiftsPause
