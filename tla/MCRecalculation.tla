-------------------------- MODULE MCRecalculation --------------------------
(***************************************************************************)
(* Values for the constants of Recalculation: two wars with an attack      *)
(* each; the second one is still being polled.                             *)
(***************************************************************************)
EXTENDS Recalculation

CONSTANTS r1, r2, p1, p2

TwoAttacks == [n \in 1..2 |-> n]

Row(i, n, code, manual) == [id |-> i, attack |-> n, code |-> code, manual |-> manual]

\* Rows of other rules, and a manual row.
SomeRows ==
  {{Row(1, 1, AboveSelf, FALSE)},
   {Row(1, 1, AboveSelf, FALSE), Row(2, 2, ClaimedTarget, TRUE)},
   {Row(1, 1, ClaimedTarget, TRUE), Row(2, 2, TooLow, FALSE)}}

SomeJudged ==
  {[n \in 1..2 |-> IF n = 1 THEN [code |-> TooLow, final |-> TRUE] ELSE b] :
     b \in {[code |-> TooLow, final |-> TRUE], [code |-> AboveSelf, final |-> FALSE]}}
====
