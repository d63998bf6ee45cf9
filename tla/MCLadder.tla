------------------------------ MODULE MCLadder ------------------------------
(* Totals 0.5, 1, 1.25, 1.75 and 2 of a number from 0 to 3, and handicaps   *)
(* -1, -0.75, 0, 0.25 and 1.5 of a margin from -2 to 2: whole, half and     *)
(* quarter lines, with pushes and half results among them.                  *)
EXTENDS Ladder

MCLines == [k \in Kinds |-> IF k = "threshold" THEN {2, 4, 5, 7, 8} ELSE {-4, -3, 0, 1, 6}]
MCValues == [k \in Kinds |-> IF k = "threshold" THEN 0 .. 3 ELSE -2 .. 2]
=============================================================================
