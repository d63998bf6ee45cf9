---------------------------- MODULE TicketAccount ----------------------------
(***************************************************************************)
(* What the books promise of one ticket, whoever writes them. Its stake is *)
(* booked once. Settled, it is up by what its row says it paid; taken      *)
(* back, it stands at its stake again, however often it was settled; ended *)
(* without a settle, it stands at nothing, with one exception: the stake   *)
(* goes back under the bare ticket id, and where a refund that was taken   *)
(* back holds that id, the ledger keeps the stake.                         *)
(***************************************************************************)
EXTENDS Integers

CONSTANT Stake

VARIABLES
  phase, \* "none", "open", "paid", or "ended": rejected or voided
  worth, \* what the ticket's row says it paid
  net,   \* what its ledger rows add up to
  first  \* the type of the credit under the bare ticket id, if there is one

Init == phase = "none" /\ worth = 0 /\ net = 0 /\ first = "none"

Enter ==
  /\ phase = "none" /\ phase' = "open"
  /\ net' = - Stake
  /\ UNCHANGED <<worth, first>>

\* A settle, or a cancel that settles a settled ticket anew.
Pay(type) ==
  /\ phase \in {"open", "paid"} /\ phase' = "paid"
  /\ worth' \in Nat
  /\ net' = worth' - Stake
  /\ first' = IF first = "none" /\ worth' > 0 THEN type ELSE first

TakeBack ==
  /\ phase = "paid" /\ phase' = "open"
  /\ worth' = 0
  /\ net' = - Stake
  /\ UNCHANGED first

Return ==
  /\ phase = "open" /\ phase' = "ended"
  /\ worth' \in {worth, Stake}
  /\ net' = IF first = "bet_refund" THEN - Stake ELSE 0
  /\ first' = IF first = "none" THEN "bet_refund" ELSE first

Next ==
  \/ Enter
  \/ \E type \in {"bet_payout", "bet_refund"} : Pay(type)
  \/ TakeBack
  \/ Return

Spec == Init /\ [][Next]_<<phase, worth, net, first>>
=============================================================================
