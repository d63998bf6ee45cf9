----------------------------- MODULE MCCashout ------------------------------
(* A single on one market, or a single and a combo over two, with the       *)
(* payout functions of the code over one decimal of precision.              *)
EXTENDS Cashout, TLC

CONSTANTS t1, t2, m1, m2, w1, ma1, amqp, q1, q2, left, right

MCBet(t, o) ==
  [type |-> IF Cardinality(LegsOf(t)) = 1 THEN "single" ELSE "combo",
   stake |-> Stake[t], odds |-> o, boost |-> Q, session |-> Q, tiers |-> <<>>]

MCPotential(t, o) == PO!PlacementPotential(MCBet(t, o))
MCReprice(t, o) == PO!RepricePotential(MCBet(t, o))
MCComputePayout(t, pot, o, r) ==
  PO!ComputePayoutOf(MCBet(t, o), pot,
    [m \in LegsOf(t) |-> [result |-> r[m], vf |-> IF r[m] = "void" THEN 4 ELSE 0]])

MCOutcomes == {"home", "away"}
MCWalletOf == [t \in Tickets |-> w1]
MCStake == [t \in Tickets |-> 10]
MCPicks == [t \in Tickets |-> IF t = t1 THEN [m \in {m1} |-> "home"]
                              ELSE [m \in {m1, m2} |-> "home"]]
MCMatchOf == [m \in Markets |-> ma1]
MCKickoff == [ma \in Matches |-> 1]

AwayWins == [x \in Outcomes |-> IF x = "away" THEN "won" ELSE "lost"]
HomeWins == [x \in Outcomes |-> IF x = "home" THEN "won" ELSE "lost"]
HomeOnly == {HomeWins}
BothPayloads == {HomeWins, AwayWins}
FullCancel == {[start |-> None, end |-> None]}
Symmetric == Permutations({left, right}) \cup Permutations({q1, q2})
=============================================================================
