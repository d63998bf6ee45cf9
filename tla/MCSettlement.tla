---------------------------- MODULE MCSettlement ----------------------------
EXTENDS Settlement, TLC

CONSTANTS t1, t2, t3, m1, m2, w1, ma1, ma2, amqp, sweeper, backup

\* The payout functions of the code over one decimal of precision.
P == INSTANCE Payout WITH Q <- 10

MCBet(t, o) ==
  [type |-> IF Cardinality(LegsOf(t)) = 1 THEN "single" ELSE "combo",
   stake |-> Stake[t], odds |-> o, boost |-> 10, session |-> 10, tiers |-> <<>>]

MCPotential(t, o) == P!PlacementPotential(MCBet(t, o))
MCReprice(t, o) == P!RepricePotential(MCBet(t, o))
MCComputePayout(t, pot, o, r) ==
  P!ComputePayoutOf(MCBet(t, o), pot,
    [m \in LegsOf(t) |-> [result |-> r[m], vf |-> IF r[m] = "void" THEN 4 ELSE 0]])

Win(o) == [x \in Outcomes |-> IF x = o THEN "won" ELSE "lost"]
HomeWins == Win("home")

MCOutcomes == {"home", "away"}
MCWalletOf == [t \in Tickets |-> w1]

FullCancel == [start |-> None, end |-> None]
AfterStart == [start |-> 1, end |-> None]
BeforeEnd == [start |-> None, end |-> 0]
OneWindows == {FullCancel}
PartWindows == {AfterStart, BeforeEnd}
HomeOnly == {HomeWins}

\* One market, two singles on it.
OneMarketPicks == [t \in Tickets |-> [m \in {m1} |-> IF t = t1 THEN "home" ELSE "away"]]
OneMatchOf == [m \in Markets |-> ma1]

\* Two markets of two matches: a single on the first and a combo over both.
ComboPicks == [t \in Tickets |-> IF t = t1 THEN [m \in {m1} |-> "home"]
                                 ELSE [m \in {m1, m2} |-> "home"]]
TwoMatchOf == [m \in Markets |-> IF m = m1 THEN ma1 ELSE ma2]

\* The leg of the combo on the second market is at a boosted price.
MCExempt == {<<t2, m2>>}

MCStake == [t \in Tickets |-> IF t = t1 THEN 10 ELSE 20]
=============================================================================
