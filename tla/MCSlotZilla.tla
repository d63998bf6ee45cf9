---------------------------- MODULE MCSlotZilla ----------------------------
EXTENDS SlotZilla, TLC

CONSTANTS s1, s2, u1, u2, e1

MCUserOf == [s \in Spins |-> IF s = s1 THEN u1 ELSE u2]
MCStake == [s \in Spins |-> IF s = s1 THEN 10 ELSE 20]
MCCurrency == [s \in Spins |-> "USDC"]

\* A two-pointer, corrected to a miss or moved by a window.
MCReports == [e \in Events |-> {[second |-> 1, symbol |-> "P2"], [second |-> 2, symbol |-> "MISS"]}]

\* Three empty reels pay 3.00, a pair of them 0.50; plays pay nothing here.
MCPaytable == [l \in {2, 3} \X DOMAIN Rank |->
                 CASE l = <<3, "NONE">> -> 300 [] l = <<2, "NONE">> -> 50 [] OTHER -> 0]
=============================================================================
