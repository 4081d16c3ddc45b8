-------------------------- MODULE ContributionScore --------------------------
(***************************************************************************)
(* What one attack, or an attack not made, is worth in the ranking of the  *)
(* players' contributions (app/domain/dev_contribution.py).                *)
(*                                                                         *)
(* A result is a record of stars (0..3) and destruction, in whole percent. *)
(* The source computes with floating point numbers and rounds a score to   *)
(* two decimals; every number it meets is a multiple of 1/80 of a point,   *)
(* so the formulas below count those and Rounded turns them into           *)
(* hundredths, a half to the even neighbour as round() does.               *)
(***************************************************************************)
EXTENDS ViolationRules

ClaimedTarget == "claimed_target"
AllResults == [stars : 0..3, destruction : 0..100]
NoResult   == [stars |-> 0, destruction |-> 0]

Lesser(x, y)  == IF x <= y THEN x ELSE y
Greater(x, y) == IF x <= y THEN y ELSE x
Floor == -3200

Rounded(x) ==
  LET whole == (5 * x) \div 4
      part  == (5 * x) % 4
  IN IF part = 3 \/ (part = 2 /\ whole % 2 = 1) THEN whole + 1 ELSE whole

-----------------------------------------------------------------------------
\* Stars beyond the best result on the base so far count in full, the others
\* half.
Fresh(best, r) == Greater(r.stars - best.stars, 0)
StarPart(best, r) == 400 * (r.stars - Fresh(best, r)) + 800 * Fresh(best, r)

\* Destruction counts alike, but not at all on a base that was tripled, and
\* in full on one that nobody took a star of.
DestructionPart(best, r) ==
  IF best.stars >= 3 THEN 0
  ELSE IF best.stars = 0 THEN 8 * r.destruction
  ELSE 8 * r.destruction - 4 * Lesser(best.destruction, r.destruction)

BaseScore(best, r) == StarPart(best, r) + DestructionPart(best, r)
LeagueBonus  == 960
RegularBonus == 640
TripleBonus(bonus, best, r) == IF r.stars = 3 /\ best.stars < 3 THEN bonus ELSE 0

TooLowScore(place, target, r) ==
  LET penalty == 8 + 2 * Greater(0, target - (place + 3))
  IN IF r.stars = 3 THEN -160 * penalty ELSE -320 * penalty

RegularScore(place, target, code, best, r) ==
  CASE code = AboveSelf -> IF r.stars < 3 THEN 0 ELSE BaseScore(best, r)
    [] code = TooLow    -> TooLowScore(place, target, r)
    [] OTHER            -> BaseScore(best, r) + TripleBonus(RegularBonus, best, r)

\* In hundredths of a point.  A league war knows no codes, and no floor.
AttackScore(league, place, target, code, best, r) ==
  IF code = ClaimedTarget THEN -5000
  ELSE IF league THEN Rounded(((BaseScore(best, r) + TripleBonus(LeagueBonus, best, r)) * 5) \div 4)
  ELSE Rounded(Greater(RegularScore(place, target, code, best, r), Floor))

-----------------------------------------------------------------------------
\* The fine for attacks not made, in hundredths: in a league war when any base
\* was left, in a regular one when a base within the player's reach was.
LeagueFine(used, left) == IF used = 0 /\ left # {} THEN -4000 ELSE 0

RegularFine(used, place, left) ==
  LET unused == Greater(0, 2 - used)
      useful == Cardinality({t \in left : place <= t /\ t <= place + 10})
  IN IF unused >= 2 /\ useful >= 2 THEN -3000
     ELSE IF unused >= 1 /\ useful >= 1 THEN -1200
     ELSE 0
=============================================================================
