------------------------------ MODULE Grading -------------------------------
(***************************************************************************)
(* One ticket whose legs are graded and re-graded by the feed, to check    *)
(* the payout functions of Payout over every result and void factor.       *)
(***************************************************************************)
EXTENDS Payout

CONSTANTS
  Bets,     \* the tickets graded: [type, stake, odds, boost, session, tiers]
  BoostUnit \* a frozen boost multiplier has two decimals: Q \div 100 in the code

\* What placement lets through: a stake, prices above zero (a price of 1.00 or
\* less is refused too, which nothing here needs), one leg and no boost on a
\* single, session odds of at least 1.01, and one Tippot tier per leg, each
\* paying at least the one below it.
ASSUME GradingAssumption ==
  /\ BoostUnit \in Nat \ {0} /\ Q % BoostUnit = 0
  /\ \A b \in Bets :
       /\ b = [type |-> b.type, stake |-> b.stake, odds |-> b.odds, boost |-> b.boost,
               session |-> b.session, tiers |-> b.tiers]
       /\ b.type \in {"single", "combo", "tiple", "tippot", "betbuilder"}
       /\ b.stake \in Nat
       /\ IsFiniteSet(Legs(b)) /\ Legs(b) # {} /\ b.odds \in [Legs(b) -> Nat \ {0}]
       /\ b.boost \in Nat /\ b.boost >= Q
       /\ b.type = "single" => b.boost = Q /\ \E l \in Legs(b) : Legs(b) = {l}
       /\ b.type \in {"tiple", "betbuilder"} => b.session \in Nat /\ b.session >= Q
       /\ b.type = "tippot" =>
            /\ b.tiers \in Seq(Nat) /\ Len(b.tiers) = Cardinality(Legs(b))
            /\ \A i, j \in DOMAIN b.tiers : i <= j => b.tiers[i] <= b.tiers[j]

VARIABLES bet, leg
vars == <<bet, leg>>

FeedResults == {"1", "0", "none"}

\* ApplyOutcomeToSelections: the mapped result and the factor as sent.
Graded(result, vf) == [result |-> MapOutcomeResult(result, vf), vf |-> vf]

Gradings == {Graded(r, vf) : r \in FeedResults, vf \in VoidFactors}

Init ==
  /\ bet \in Bets
  /\ leg \in [Legs(bet) -> Gradings]

\* A rollback and a new settlement give one leg another result.
Regrade(l, r, vf) ==
  /\ leg' = [leg EXCEPT ![l] = Graded(r, vf)]
  /\ UNCHANGED bet

Next == \E l \in Legs(bet), r \in FeedResults, vf \in VoidFactors : Regrade(l, r, vf)

Spec == Init /\ [][Next]_vars

-----------------------------------------------------------------------------
(* The ticket that placement writes *)

\* toFixed(2) of the configured multiplier, which may have four decimals.
FreezeBoost(m) == ((2 * m + BoostUnit) \div (2 * BoostUnit)) * BoostUnit

\* The potential is promised on the multiplier as configured; the settlement
\* pays on the one frozen in bet_meta.
Placed(b) == [b EXCEPT !.boost = FreezeBoost(b.boost)]

Outcome(legs) == ComputePayoutOf(Placed(bet), PlacementPotential(bet), legs)

-----------------------------------------------------------------------------
(* Properties *)

TypeOK ==
  /\ bet \in Bets
  /\ leg \in [Legs(bet) -> Gradings]
  /\ Outcome(leg) \in [payout: Nat, type: {"bet_payout", "bet_refund"}]

\* payout.go, ComboPayout: "All-void tickets still refund stake, ignoring the
\* boost". For every bet type, a credit booked as bet_refund is the stake, to
\* the micro-unit: a reversal and the reconciliation rely on it.
RefundIsStake == Outcome(leg).type = "bet_refund" => Outcome(leg).payout = bet.stake

\* A ticket whose legs all win pays what was promised last. Placement rounds
\* the odds product to the published precision while the settlement multiplies
\* exact leg odds, so a win is within that rounding of the potential, provided
\* the boost multiplier has the two decimals that are kept. worker.go,
\* evaluate: "newPayout must be built from exactly the per-leg odds we STORE,
\* because settlement recomputes the payout" from them: the re-price truncates
\* at 1/Q^2, so it never promises more than a win pays, nor much less.
WinPaysPotential ==
  (\A l \in Legs(bet) : leg[l] = Graded("1", 0)) =>
    LET paid == Outcome(leg).payout
        diff == paid - PlacementPotential(bet)
        slack == bet.stake \div (2 * Q) + 1
        short == paid - RepricePotential(Placed(bet))
    IN  /\ Placed(bet) = bet => - slack <= diff /\ diff <= slack
        /\ bet.type \in {"single", "combo"} =>
             0 <= short /\ short <= bet.stake \div (Q * Q) + 1

\* What a leg is worth to the bettor, in units of 1/(4Q).
Worth(l, legs) == EffectiveFactor(bet.odds[l], legs[l])

\* Improving one leg's result never lowers the payout of the ticket, with two
\* exceptions. A Tippot whose legs were all void leaves the refund for its tier
\* schedule. And a combo whose last partly refunded lost leg becomes void loses
\* its boost with it, which costs more than the leg gains once the boost, which
\* the configuration accepts up to 5, is above 4/3. Results are ranked lost,
\* half_lost, void, half_won, won, so a leg improves when neither its rank nor
\* its worth drops.
Rank == [lost |-> 0, half_lost |-> 1, void |-> 2, half_won |-> 3, won |-> 4]

BoostGivenUp(legs, new) ==
  /\ bet.type = "combo" /\ 3 * Placed(bet).boost > 4 * Q
  /\ ~AllVoid(legs) /\ AllVoid(new)

BetterLegNeverPaysLess ==
  [][ \/ bet.type = "tippot" /\ AllVoid(leg)
      \/ BoostGivenUp(leg, leg')
      \/ \E l \in Legs(bet) : \/ Rank[leg'[l].result] < Rank[leg[l].result]
                              \/ Worth(l, leg') < Worth(l, leg)
      \/ Outcome(leg').payout >= Outcome(leg).payout ]_vars

\* payout.go, ComboPayout: "boosts only apply to actual winnings". A combo none
\* of whose legs won anything is paid what it would be without its boost.
BoostOnlyOnWinnings ==
  bet.type = "combo" /\ Wins(leg) = 0 =>
    Outcome(leg) = ComputePayoutOf([bet EXCEPT !.boost = Q], PlacementPotential(bet), leg)
=============================================================================
