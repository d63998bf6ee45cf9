------------------------------- MODULE Escrow -------------------------------
(***************************************************************************)
(* What a wallet promises, whoever writes it. Money is free or held, for a *)
(* bet or a withdrawal. A hold takes from what is free when it is written, *)
(* and ends once, worth a definite amount; a bet that ended may be taken   *)
(* back, which takes exactly that amount from what is free. Nothing else   *)
(* moves the free part and it is never negative.                           *)
(***************************************************************************)
EXTENDS Integers, FiniteSetsExt

CONSTANTS
  Holds,    \* bets and withdrawals that may hold money
  Bets,     \* the ones that can be taken back after they ended
  Amount,   \* what each of them holds
  Opening   \* what the wallet starts with

VARIABLES
  free,  \* what can be spent
  held,  \* the holds that are open
  worth  \* what each hold that ended brought back: DOMAIN worth are the ended

Ended == DOMAIN worth
Total(S, f) == SumFunctionOnSet(f, S)

Init == free = Opening /\ held = {} /\ worth = [h \in {} |-> 0]

Take(h) ==
  /\ h \notin held \cup Ended
  /\ Amount[h] <= free
  /\ free' = free - Amount[h]
  /\ held' = held \cup {h}
  /\ UNCHANGED worth

\* The bets in R are taken back, the holds in E end, in one transaction. A
\* negative worth is a charge on top of the amount held.
Move(R, E) ==
  /\ R \subseteq Ended \cap Bets
  /\ E \subseteq held \cup R
  /\ held' = (held \cup R) \ E
  /\ DOMAIN worth' = (Ended \ R) \cup E
  /\ \A h \in Ended \ R : worth'[h] = worth[h]
  /\ free' = (free - Total(R, worth)) + Total(E, worth')
  /\ free' >= 0

Next ==
  \/ \E h \in Holds : Take(h)
  \/ \E R \in SUBSET Bets, E \in SUBSET Holds : Move(R, E)

Spec == Init /\ [][Next]_<<free, held, worth>>
=============================================================================
