----------------------------- MODULE MCGrading ------------------------------
(* One decimal of precision (Q = 10) stands for the four of the code: a     *)
(* product of two prices already needs two, so every rounding is exercised. *)
(* Boosts are frozen in steps of 0.2 (BoostUnit = 2), so 1.1 becomes 1.2.   *)
EXTENDS Grading

MCBet(type, odds, boost, session, tiers) ==
  [type |-> type, stake |-> 250, odds |-> odds, boost |-> boost,
   session |-> session, tiers |-> tiers]

MCPrices == {11, 15, 23}

MCBets ==
  {MCBet("single", <<p>>, 10, 10, <<>>) : p \in MCPrices}
    \cup {MCBet("combo", <<p, q>>, b, 10, <<>>) : p \in MCPrices, q \in MCPrices, b \in {10, 11, 12, 16}}
    \cup {MCBet("tiple", <<p, 15>>, 10, 13, <<>>) : p \in MCPrices}
    \cup {MCBet("tippot", <<p, 15>>, 10, 10, <<6, 21>>) : p \in MCPrices}
    \cup {MCBet("betbuilder", <<p, 15>>, 10, 34, <<>>) : p \in MCPrices}
=============================================================================
