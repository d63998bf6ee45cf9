------------------------------- MODULE Payout -------------------------------
(***************************************************************************)
(* What a ticket is worth: the price frozen at placement, the re-price of  *)
(* the bet-delay worker and the payout of the settlement service for the   *)
(* five bet types. Exact rational arithmetic stands for float64; odds,     *)
(* boosts, tier multipliers and session odds are integers in units of 1/Q, *)
(* Q being the published precision (10000 in the code).                    *)
(***************************************************************************)
EXTENDS Integers, Sequences, FiniteSets, Functions

CONSTANT Q \* ODDS_FIXED_SCALE

ASSUME QuantumAssumption == Q \in Nat \ {0}

\* void_factor is counted in quarters: 0 none, 2 a half, 4 a full void.
VoidFactors == 0 .. 4

Product(f) == FoldFunction(LAMBDA x, y : x * y, 1, f)

Legs(b) == DOMAIN b.odds

\* The unit a product over the legs of b is counted in, each factor in units
\* of 1/u.
ProductUnit(b, u) == Product([l \in Legs(b) |-> u])

-----------------------------------------------------------------------------
(* Feed result -> outcome_result *)

\* An outcome whose result attribute is neither 0 nor 1 is a void.
MapOutcomeResult(result, vf) ==
  CASE vf = 4                -> "void"
    [] vf # 4 /\ result = "1" -> IF vf = 2 THEN "half_won" ELSE "won"
    [] vf # 4 /\ result = "0" -> IF vf = 2 THEN "half_lost" ELSE "lost"
    [] OTHER                 -> "void"

-----------------------------------------------------------------------------
(* Settlement *)

\* Wrong: the profit of the leg, not its payout.
EffectiveFactorProfit(odds, leg) ==
  IF leg.result \in {"won", "half_won"} THEN 4 * odds - 4 * Q ELSE - 4 * Q

\* Multiplier of the stake for one leg, in units of 1/(4Q):
\* (1 - vf) * res * odds + vf.
EffectiveFactor(odds, leg) ==
  LET vf == CASE leg.result = "void" -> 4
              [] leg.result \in {"half_won", "half_lost"} /\ leg.vf = 0 -> 2
              [] OTHER -> leg.vf
      res == IF leg.result \in {"won", "half_won"} THEN 1 ELSE 0
  IN  (4 - vf) * res * odds + vf * Q

Refund(b) == [payout |-> b.stake, type |-> "bet_refund"]
Pay(n) == [payout |-> n, type |-> "bet_payout"]

AllVoid(legs) == \A l \in DOMAIN legs : legs[l].result = "void"
Winning(leg) == leg.result \in {"won", "half_won"}

\* Wrong: a half-lost leg is taken for a winning one.
WinsWithHalfLost(legs) ==
  Cardinality({l \in DOMAIN legs : legs[l].result \in {"won", "half_won", "half_lost"}})

Wins(legs) == Cardinality({l \in DOMAIN legs : Winning(legs[l])})

SinglePayout(b, legs) ==
  LET l == CHOOSE x \in Legs(b) : TRUE
  IN  [payout |-> (b.stake * EffectiveFactor(b.odds[l], legs[l])) \div (4 * Q),
       type   |-> IF legs[l].result = "void" THEN "bet_refund" ELSE "bet_payout"]

\* Wrong: the settlement forgets the boost that placement promised.
BoostNone(b, legs) == Q

\* Wrong: the boost multiplies a refund too.
BoostAlways(b, legs) == b.boost

\* The Combi Boost, never below 1, applies unless every leg is void.
Boost(b, legs) == IF AllVoid(legs) \/ b.boost < Q THEN Q ELSE b.boost

ComboPayout(b, legs) ==
  LET factor == Product([l \in Legs(b) |-> EffectiveFactor(b.odds[l], legs[l])])
  IN  [payout |-> (b.stake * factor * Boost(b, legs)) \div (ProductUnit(b, 4 * Q) * Q),
       type   |-> IF AllVoid(legs) THEN "bet_refund" ELSE "bet_payout"]

\* At least one winner pays the potential frozen at placement.
TiplePayout(b, potential, legs) ==
  IF Wins(legs) > 0 THEN Pay(potential)
  ELSE IF AllVoid(legs) THEN Refund(b) ELSE Pay(0)

\* A lost leg forfeits; a void one among winners refunds, since the session
\* odds cannot be recomputed without it.
BetBuilderPayout(b, legs) ==
  LET lost == \E l \in Legs(b) : legs[l].result \in {"lost", "half_lost"}
      void == \E l \in Legs(b) : legs[l].result = "void"
  IN  IF lost THEN Pay(0)
      ELSE IF void THEN Refund(b)
      ELSE Pay((b.stake * b.session) \div Q)

\* The tier of the number of winners, capped at the top tier.
TippotPayout(b, legs) ==
  LET wins == Wins(legs)
      tier == IF wins > Len(b.tiers) THEN Len(b.tiers) ELSE wins
  IN  IF AllVoid(legs) THEN Refund(b)
      ELSE IF wins = 0 THEN Pay(0)
      ELSE Pay((b.stake * b.tiers[tier]) \div Q)

ComputePayoutOf(b, potential, legs) ==
  CASE b.type = "single"     -> SinglePayout(b, legs)
    [] b.type = "combo"      -> ComboPayout(b, legs)
    [] b.type = "tiple"      -> TiplePayout(b, potential, legs)
    [] b.type = "tippot"     -> TippotPayout(b, legs)
    [] b.type = "betbuilder" -> BetBuilderPayout(b, legs)

-----------------------------------------------------------------------------
(* Placement and re-price *)

\* Math.round of num / den to the precision 1/Q.
Quantise(num, den) == (2 * num * Q + den) \div (2 * den)

MultiplyMicroByOdds(stake, num, den) == (stake * Quantise(num, den)) \div Q

\* Potential payout of a single or combo: the product is rounded first.
ProductPotential(b) ==
  MultiplyMicroByOdds(b.stake, Product(b.odds) * b.boost, ProductUnit(b, Q) * Q)

PlacementPotential(b) ==
  CASE b.type \in {"single", "combo"} -> ProductPotential(b)
    [] b.type = "tiple"      -> MultiplyMicroByOdds(b.stake, b.session, Q)
    [] b.type = "tippot"     -> MultiplyMicroByOdds(b.stake, b.tiers[Len(b.tiers)], Q)
    [] b.type = "betbuilder" -> MultiplyMicroByOdds(b.stake, b.session, Q)

\* The bet-delay worker truncates the product at the square of that precision
\* (1e8) instead.
RepricePotential(b) ==
  LET scaled == (Product(b.odds) * b.boost * Q * Q) \div (ProductUnit(b, Q) * Q)
  IN  (b.stake * scaled) \div (Q * Q)
=============================================================================
