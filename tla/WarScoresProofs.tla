--------------------------- MODULE WarScoresProofs ---------------------------
(***************************************************************************)
(* Theorems about the sections of MCWarScores: what the decisions of       *)
(* successive polls, the formulas of the scores and the ranking promise    *)
(* the players, for any attacks, polls and changes of mind; what the       *)
(* dialogues promise the administrators, for any number of handlers,       *)
(* messages, requests and changes of the ranking; what is counted of the   *)
(* donations; and that the rules decide as the evaluator's loops do.       *)
(***************************************************************************)
EXTENDS MCViolationRules, ViolationRulesProofs, ContributionRanking, Donations,
        ReportDialogs, Functions, SequenceTheorems, FiniteSetTheorems, TLAPS

-----------------------------------------------------------------------------
(* The decisions of successive polls.                                       *)

\* The attacks bear the numbers from 1 up, polls saw each by now, and nobody
\* attacks more than twice.
AttacksTyped ==
  /\ war \in [timed : BOOLEAN, start : {0}, roster : Rosters, quota : {2, NoQuota}, ended : BOOLEAN]
  /\ clock \in Nat
  /\ IsFiniteSet(attacks) /\ DistinctOrders(attacks)
  /\ \A b \in attacks : b.order \in 1..Cardinality(attacks) /\ b.seen \in 0..clock
  /\ \A n \in 1..Cardinality(attacks) : \E b \in attacks : b.order = n
  /\ \A p : Cardinality(ByPlayer(attacks, p)) <= 2

\* The decisions are those on what the last poll knew, the first m attacks and
\* whether the war was over, and nothing it did not know happened before it.
DecidedOn(m, done) ==
  [n \in 1..m |-> Decide([war EXCEPT !.ended = done], {b \in attacks : b.order <= m},
                         clock - 1, Attack(n))]
LastPollJudged ==
  \E m \in 0..Cardinality(attacks), done \in BOOLEAN :
    /\ judged = DecidedOn(m, done)
    /\ \A b \in attacks : b.order > m => b.seen >= clock
    /\ done => war.ended /\ {b \in attacks : b.order <= m} = attacks

\* The inductive invariant.
PollsInv == AttacksTyped /\ LastPollJudged

\* It holds before the first poll.
LEMMA PollsBegin == Init => PollsInv
<1> SUFFICES ASSUME Init PROVE PollsInv
  OBVIOUS
<1>1. attacks = {} /\ clock = 0 /\ judged = <<>> /\ war \in Wars /\ ~war.ended
  BY DEF Init, Wars
<1>2. Cardinality(attacks) = 0 /\ IsFiniteSet(attacks)
  BY <1>1, FS_EmptySet
<1>3. AttacksTyped
  <2>1. war \in [timed : BOOLEAN, start : {0}, roster : Rosters, quota : {2, NoQuota}, ended : BOOLEAN]
    <3>1. \/ \E r \in Rosters :
               war = [timed |-> TRUE, start |-> 0, roster |-> r, quota |-> 2, ended |-> FALSE]
          \/ \E b \in BOOLEAN : war = [timed |-> b, start |-> 0, roster |-> {2, 3, 4, 5},
                                      quota |-> NoQuota, ended |-> FALSE]
      BY DEF Init, Wars
    <3>2. {2, 3, 4, 5} \in Rosters
      BY DEF Rosters
    <3> DEFINE W == [timed : BOOLEAN, start : {0}, roster : Rosters, quota : {2, NoQuota},
                     ended : BOOLEAN]
    <3> HIDE DEF Rosters
    <3>3. \A r \in Rosters : [timed |-> TRUE, start |-> 0, roster |-> r, quota |-> 2, ended |-> FALSE] \in W
      OBVIOUS
    <3>4. \A b \in BOOLEAN : [timed |-> b, start |-> 0, roster |-> {2, 3, 4, 5},
                               quota |-> NoQuota, ended |-> FALSE] \in W
      BY <3>2
    <3> HIDE DEF W
    <3>5. war \in W
      BY <3>1, <3>3, <3>4
    <3> QED BY <3>5 DEF W
  <2>2. \A p : ByPlayer(attacks, p) = {}
    BY <1>1 DEF ByPlayer
  <2>3. \A p : Cardinality(ByPlayer(attacks, p)) = 0
    BY <2>2, FS_EmptySet
  <2> QED BY <1>1, <1>2, <2>1, <2>3 DEF AttacksTyped, DistinctOrders
<1>4. LastPollJudged
  <2>1. judged = DecidedOn(0, FALSE)
    BY <1>1 DEF DecidedOn
  <2>2. 0 \in 0..Cardinality(attacks) /\ FALSE \in BOOLEAN /\ \A b \in attacks : FALSE
    BY <1>1, <1>2
  <2> QED BY <2>1, <2>2 DEF LastPollJudged
<1> QED BY <1>3, <1>4 DEF PollsInv

\* An attack bears its number.
LEMMA Numbering ==
  ASSUME AttacksTyped, NEW n \in 1..Cardinality(attacks)
  PROVE  Attack(n) \in attacks /\ Attack(n).order = n
BY DEF AttacksTyped, Attack

\* An attack takes the next number.
LEMMA FightTyped ==
  ASSUME AttacksTyped, NEW p, NEW t, NEW s, Fight(p, t, s)
  PROVE  /\ AttacksTyped' /\ Cardinality(attacks') = Cardinality(attacks) + 1
         /\ Cardinality(attacks) \in Nat
         /\ \A b \in attacks' : b \in attacks \/ (b.order = Cardinality(attacks) + 1 /\ b.seen = clock)
         /\ attacks \subseteq attacks'
<1> DEFINE k == Cardinality(attacks)
           new == [order |-> k + 1, attacker |-> p, position |-> p,
                   target |-> t, stars |-> s, seen |-> clock]
<1>1. attacks' = attacks \cup {new} /\ UNCHANGED <<war, clock>>
  BY DEF Fight
<1>2. IsFiniteSet(attacks) /\ k \in Nat /\ clock \in Nat
  BY FS_CardinalityType DEF AttacksTyped
<1>3. new.order = k + 1 /\ new.seen = clock /\ new.attacker = p
  OBVIOUS
<1> HIDE DEF new
<1>4. new \notin attacks
  BY <1>2, <1>3 DEF AttacksTyped
<1>5. IsFiniteSet(attacks') /\ Cardinality(attacks') = k + 1
  BY <1>1, <1>2, <1>4, FS_AddElement, Zenon
<1>6. ASSUME NEW q PROVE Cardinality(ByPlayer(attacks', q)) <= 2
  <2>1. IsFiniteSet(ByPlayer(attacks, q)) /\ Cardinality(ByPlayer(attacks, q)) \in Nat
    <3>1. ByPlayer(attacks, q) \in SUBSET attacks
      BY DEF ByPlayer
    <3> QED BY <1>2, <3>1, FS_Subset, FS_CardinalityType
  <2>2. CASE q = p
    <3>1. ByPlayer(attacks', p) = ByPlayer(attacks, p) \cup {new}
      BY <1>1, <1>3 DEF ByPlayer
    <3>2. Cardinality(ByPlayer(attacks, p)) < 2
      BY DEF Fight
    <3>3. new \notin ByPlayer(attacks, p)
      BY <1>4 DEF ByPlayer
    <3>4. Cardinality(ByPlayer(attacks, p) \cup {new}) = Cardinality(ByPlayer(attacks, p)) + 1
      BY <2>1, <2>2, <3>3, FS_AddElement, Zenon
    <3> QED BY <2>1, <2>2, <3>1, <3>2, <3>4
  <2>3. CASE q # p
    <3>1. ByPlayer(attacks', q) = ByPlayer(attacks, q)
      BY <1>1, <1>3, <2>3 DEF ByPlayer
    <3> QED BY <3>1 DEF AttacksTyped
  <2> QED BY <2>2, <2>3
<1>7. DistinctOrders(attacks')
  BY <1>1, <1>2, <1>3 DEF DistinctOrders, AttacksTyped
<1>8. /\ \A b \in attacks' : b.order \in 1..(k + 1) /\ b.seen \in 0..clock
      /\ \A n \in 1..(k + 1) : \E b \in attacks' : b.order = n
  BY <1>1, <1>2, <1>3 DEF AttacksTyped
<1>9. AttacksTyped'
  <2> HIDE DEF k
  <2> QED BY <1>1, <1>5, <1>6, <1>7, <1>8 DEF AttacksTyped
<1> QED BY <1>1, <1>2, <1>3, <1>5, <1>9

\* The game only adds to what the last poll knew, and a poll knows all.
LEMMA PollsStep == ASSUME PollsInv, [Next]_vars PROVE PollsInv'
<1>0. AttacksTyped /\ Cardinality(attacks) \in Nat
  BY FS_CardinalityType DEF PollsInv, AttacksTyped
<1>a. PICK m \in 0..Cardinality(attacks), done \in BOOLEAN :
        /\ judged = [n \in 1..m |-> Decide([war EXCEPT !.ended = done],
                                           {b \in attacks : b.order <= m}, clock - 1, Attack(n))]
        /\ \A b \in attacks : b.order > m => b.seen >= clock
        /\ done => war.ended /\ {b \in attacks : b.order <= m} = attacks
  BY DEF PollsInv, LastPollJudged, DecidedOn
<1>1. ASSUME NEW p, NEW t, NEW s, Fight(p, t, s) PROVE PollsInv'
  <2>1. /\ AttacksTyped' /\ Cardinality(attacks') = Cardinality(attacks) + 1 /\ attacks \subseteq attacks'
        /\ \A b \in attacks' : b \in attacks \/ (b.order = Cardinality(attacks) + 1 /\ b.seen = clock)
    BY <1>0, <1>1, FightTyped
  <2>2. UNCHANGED <<war, clock, judged>> /\ ~war.ended
    BY <1>1 DEF Fight
  <2>3. {b \in attacks' : b.order <= m} = {b \in attacks : b.order <= m}
    BY <1>0, <2>1
  <2>4. ASSUME NEW n \in 1..m PROVE Attack(n)' = Attack(n)
    <3>1. n \in 1..Cardinality(attacks) /\ n \in 1..Cardinality(attacks')
      BY <1>0, <2>1
    <3>2. Attack(n) \in attacks /\ Attack(n).order = n
      BY <1>0, <3>1, Numbering
    <3>3. \A b \in attacks' : b.order = n => b = Attack(n)
      BY <2>1, <3>2 DEF AttacksTyped, DistinctOrders
    <3>4. Attack(n) \in attacks'
      BY <2>1, <3>2
    <3>5. Attack(n)' = CHOOSE b \in attacks' : b.order = n
      BY DEF Attack
    <3> QED BY <3>2, <3>3, <3>4, <3>5
  <2>5. judged' = [n \in 1..m |-> Decide([war' EXCEPT !.ended = done],
                                         {b \in attacks' : b.order <= m}, clock' - 1, Attack(n)')]
    BY <1>a, <2>2, <2>3, <2>4
  <2>6. \A b \in attacks' : b.order > m => b.seen >= clock'
    BY <1>0, <1>a, <2>1, <2>2 DEF AttacksTyped
  <2>7. m \in 0..Cardinality(attacks') /\ ~done
    BY <1>0, <1>a, <2>1, <2>2
  <2>8. LastPollJudged'
    BY <2>5, <2>6, <2>7 DEF LastPollJudged, DecidedOn
  <2> QED BY <2>1, <2>8 DEF PollsInv
<1>2. CASE EndWar
  <2>1. war' = [war EXCEPT !.ended = TRUE] /\ ~war.ended /\ UNCHANGED <<attacks, clock, judged>>
    BY <1>2 DEF EndWar
  <2>2. AttacksTyped'
    BY <1>0, <2>1 DEF AttacksTyped, DistinctOrders
  <2>3. [war' EXCEPT !.ended = done] = [war EXCEPT !.ended = done]
    BY <1>0, <2>1 DEF AttacksTyped
  <2>4. \A n : Attack(n)' = Attack(n)
    BY <2>1 DEF Attack
  <2>5. DecidedOn(m, done)' = DecidedOn(m, done)
    BY <2>1, <2>3, <2>4 DEF DecidedOn
  <2>6. judged' = DecidedOn(m, done)' /\ (done => war'.ended /\ {b \in attacks' : b.order <= m} = attacks')
    BY <1>a, <2>1, <2>5 DEF DecidedOn
  <2>7. LastPollJudged'
    BY <1>a, <2>1, <2>6 DEF LastPollJudged
  <2> QED BY <2>2, <2>7 DEF PollsInv
<1>3. CASE Poll
  <2> DEFINE k == Cardinality(attacks)
  <2>1. /\ judged' = [n \in 1..k |-> Decide(war, attacks, clock, Attack(n))]
        /\ clock' = clock + 1 /\ UNCHANGED <<war, attacks>>
    BY <1>3 DEF Poll
  <2>2. AttacksTyped'
    BY <1>0, <2>1 DEF AttacksTyped, DistinctOrders
  <2>3. PICK now \in BOOLEAN : now = war.ended
    BY <1>0 DEF AttacksTyped
  <2>4. [war EXCEPT !.ended = now] = war
    BY <1>0, <2>3 DEF AttacksTyped
  <2>5. {b \in attacks : b.order <= k} = attacks /\ \A b \in attacks : ~(b.order > k)
    BY <1>0 DEF AttacksTyped
  <2>6. clock' - 1 = clock /\ k \in 0..k
    BY <1>0, <2>1 DEF AttacksTyped
  <2>7. LastPollJudged'
    <3>1. judged' = [n \in 1..k |-> Decide([war' EXCEPT !.ended = now],
                       {b \in attacks' : b.order <= k}, clock' - 1, Attack(n)')]
      <4>1. \A n : Attack(n)' = Attack(n)
        BY <2>1 DEF Attack
      <4>2. /\ [war' EXCEPT !.ended = now] = war /\ clock' - 1 = clock
            /\ {b \in attacks' : b.order <= k} = attacks
        BY <2>1, <2>4, <2>5, <2>6
      <4> HIDE DEF k
      <4> QED BY <2>1, <4>1, <4>2
    <3>2. /\ \A b \in attacks' : b.order > k => b.seen >= clock'
          /\ now => war'.ended /\ {b \in attacks' : b.order <= k} = attacks'
          /\ k \in 0..Cardinality(attacks')
      BY <2>1, <2>3, <2>5, <2>6
    <3> HIDE DEF k
    <3> QED BY <3>1, <3>2 DEF LastPollJudged, DecidedOn
  <2> QED BY <2>2, <2>7 DEF PollsInv
<1>4. CASE UNCHANGED vars
  <2>1. AttacksTyped'
    BY <1>0, <1>4 DEF vars, AttacksTyped, DistinctOrders
  <2>2. \A n : Attack(n)' = Attack(n)
    BY <1>4 DEF vars, Attack
  <2>3. DecidedOn(m, done)' = DecidedOn(m, done)
    BY <1>4, <2>2 DEF vars, DecidedOn
  <2>4. judged' = DecidedOn(m, done)'
    BY <1>a, <1>4, <2>3 DEF vars, DecidedOn
  <2>5. LastPollJudged'
    BY <1>a, <1>4, <2>4 DEF vars, LastPollJudged
  <2> QED BY <2>1, <2>5 DEF PollsInv
<1> QED BY <1>1, <1>2, <1>3, <1>4 DEF Next

\* The decision on an attack, be it a permission or a violation, stands once
\* it is final, over any polls of a war in which nobody attacks more than twice.
THEOREM FinalDecisionsStand == Spec => SettledStands
<1>1. PollsInv /\ [Next]_vars => [\A n \in DOMAIN judged : judged[n].final => judged'[n] = judged[n]]_vars
  <2> SUFFICES ASSUME PollsInv, [Next]_vars, NEW n \in DOMAIN judged, judged[n].final
               PROVE  judged'[n] = judged[n]
    OBVIOUS
  <2>1. CASE judged' = judged
    BY <2>1
  <2>2. CASE Poll
    <3>0. AttacksTyped /\ Cardinality(attacks) \in Nat
      BY FS_CardinalityType DEF PollsInv, AttacksTyped
    <3>1. PICK m \in 0..Cardinality(attacks), done \in BOOLEAN :
            /\ judged = [i \in 1..m |-> Decide([war EXCEPT !.ended = done],
                                               {b \in attacks : b.order <= m}, clock - 1, Attack(i))]
            /\ \A b \in attacks : b.order > m => b.seen >= clock
            /\ done => war.ended /\ {b \in attacks : b.order <= m} = attacks
      BY DEF PollsInv, LastPollJudged, DecidedOn
    <3> DEFINE A == {b \in attacks : b.order <= m}
               then == [war EXCEPT !.ended = done]
               a == Attack(n)
    <3>2. n \in 1..m /\ n \in 1..Cardinality(attacks)
      BY <3>0, <3>1
    <3>3. a \in A
      BY <3>0, <3>2, Numbering
    <3>4. /\ judged[n] = Decide(then, A, clock - 1, a)
          /\ judged'[n] = Decide(war, attacks, clock, a)
      BY <2>2, <3>1, <3>2 DEF Poll
    <3>5. /\ then.start = 0 /\ war.start = 0 /\ then.timed = war.timed /\ then.roster = war.roster
          /\ then.quota = war.quota /\ war.quota \in {2, NoQuota} /\ then.ended = done
      BY <3>0 DEF AttacksTyped
    <3>6. /\ A \subseteq attacks /\ IsFiniteSet(attacks) /\ DistinctOrders(attacks)
          /\ \A b \in attacks : b.seen \in Int /\ b.order \in Int
          /\ Cardinality(ByPlayer(attacks, a.attacker)) <= 2
          /\ clock \in Nat
      BY <3>0 DEF AttacksTyped
    <3>7. Window \in Int
      BY BoundsReachTheWindow
    <3>8. \A b \in A, c \in attacks \ A : b.order < c.order
      BY <3>6
    <3>9. clock - 1 >= then.start + Window => \A c \in attacks \ A : c.seen > then.start + Window
      BY <3>1, <3>5, <3>6, <3>7
    <3>10. then.ended => war.ended /\ A = attacks
      BY <3>1, <3>5
    <3> HIDE DEF A, then, a
    <3>11. Decide(war, attacks, clock, a) = Decide(then, A, clock - 1, a)
      BY <3>3, <3>4, <3>5, <3>6, <3>7, <3>8, <3>9, <3>10, DecisionStands
    <3> QED BY <3>4, <3>11
  <2> QED BY <2>1, <2>2 DEF Next, Fight, EndWar, vars
<1> QED BY <1>1, PollsBegin, PollsStep, PTL DEF Spec, SettledStands

-----------------------------------------------------------------------------
(* The formulas of the scores.                                              *)

\* Rounding to hundredths, a half to the even neighbour, keeps the order.
LEMMA RoundedBounds ==
  ASSUME NEW x \in Int
  PROVE  /\ Rounded(x) \in Int
         /\ 5 * x - 2 <= 4 * Rounded(x) /\ 4 * Rounded(x) <= 5 * x + 2
<1> DEFINE whole == (5 * x) \div 4
           part  == (5 * x) % 4
<1>1. whole \in Int /\ part \in 0..3 /\ 5 * x = 4 * whole + part
  OBVIOUS
<1>2. Rounded(x) = IF part = 3 \/ (part = 2 /\ whole % 2 = 1) THEN whole + 1 ELSE whole
  BY DEF Rounded
<1> HIDE DEF whole, part
<1> QED BY <1>1, <1>2

\* Rounding keeps the order.
LEMMA RoundedMonotone ==
  ASSUME NEW x \in Int, NEW y \in Int, x <= y
  PROVE  Rounded(x) <= Rounded(y)
<1>1. CASE x = y
  BY <1>1, RoundedBounds
<1>2. CASE x < y
  BY <1>2, RoundedBounds
<1> QED BY <1>1, <1>2

\* So do the points of a base, ...
LEMMA BaseMonotone ==
  ASSUME NEW best \in AllResults, NEW r \in AllResults, NEW s \in AllResults,
         r.stars <= s.stars, r.destruction <= s.destruction
  PROVE  /\ BaseScore(best, r) \in Nat /\ BaseScore(best, s) \in Nat
         /\ BaseScore(best, r) <= BaseScore(best, s)
<1>t. /\ best.stars \in 0..3 /\ r.stars \in 0..3 /\ s.stars \in 0..3
      /\ best.destruction \in 0..100 /\ r.destruction \in 0..100 /\ s.destruction \in 0..100
  BY DEF AllResults
<1>1. /\ StarPart(best, r) \in Nat /\ StarPart(best, s) \in Nat
      /\ StarPart(best, r) <= StarPart(best, s)
  BY <1>t DEF StarPart, Fresh, Greater
<1>2. /\ DestructionPart(best, r) \in Nat /\ DestructionPart(best, s) \in Nat
      /\ DestructionPart(best, r) <= DestructionPart(best, s)
  <2> DEFINE b == best.destruction
             d == r.destruction
             e == s.destruction
             Part(n) == IF best.stars >= 3 THEN 0
                        ELSE IF best.stars = 0 THEN 8 * n
                        ELSE 8 * n - 4 * (IF b <= n THEN b ELSE n)
  <2>1. b \in Nat /\ d \in Nat /\ e \in Nat /\ d <= e /\ best.stars \in Nat
    BY <1>t
  <2>2. DestructionPart(best, r) = Part(d) /\ DestructionPart(best, s) = Part(e)
    BY DEF DestructionPart, Lesser
  <2>3. Part(d) \in Nat /\ Part(e) \in Nat /\ Part(d) <= Part(e)
    <3> HIDE DEF b, d, e
    <3> QED BY <2>1
  <2> HIDE DEF Part
  <2> QED BY <2>2, <2>3
<1> QED BY <1>1, <1>2 DEF BaseScore

\* ... the bonus for a result that is better than the best before, ...
LEMMA BonusMonotone ==
  ASSUME NEW bonus \in Nat,
         NEW best \in AllResults, NEW r \in AllResults, NEW s \in AllResults,
         r.stars <= s.stars
  PROVE  /\ TripleBonus(bonus, best, r) \in Nat /\ TripleBonus(bonus, best, s) \in Nat
         /\ TripleBonus(bonus, best, r) <= TripleBonus(bonus, best, s)
  BY DEF AllResults, TripleBonus

\* ... what is taken off for a base far below, ...
LEMMA TooLowMonotone ==
  ASSUME NEW place \in Nat, NEW target \in Nat, NEW r \in AllResults, NEW s \in AllResults,
         r.stars <= s.stars
  PROVE  /\ TooLowScore(place, target, r) \in Int /\ TooLowScore(place, target, s) \in Int
         /\ TooLowScore(place, target, r) <= TooLowScore(place, target, s)
<1> DEFINE penalty == 8 + 2 * Greater(0, target - (place + 3))
<1>1. penalty \in Nat
  BY DEF Greater
<1>2. /\ TooLowScore(place, target, r) = IF r.stars = 3 THEN -160 * penalty ELSE -320 * penalty
      /\ TooLowScore(place, target, s) = IF s.stars = 3 THEN -160 * penalty ELSE -320 * penalty
  BY DEF TooLowScore
<1>3. r.stars \in 0..3 /\ s.stars \in 0..3
  BY DEF AllResults
<1> HIDE DEF penalty
<1> QED BY <1>1, <1>2, <1>3

\* ... and the score of an attack in a regular war.
LEMMA RegularMonotone ==
  ASSUME NEW place \in Nat, NEW target \in Nat, NEW code,
         NEW best \in AllResults, NEW r \in AllResults, NEW s \in AllResults,
         r.stars <= s.stars, r.destruction <= s.destruction
  PROVE  /\ RegularScore(place, target, code, best, r) \in Int
         /\ RegularScore(place, target, code, best, s) \in Int
         /\ RegularScore(place, target, code, best, r) <= RegularScore(place, target, code, best, s)
<1>1. CASE code = AboveSelf
  <2>1. r.stars \in 0..3 /\ s.stars \in 0..3
    BY DEF AllResults
  <2>2. /\ BaseScore(best, r) \in Nat /\ BaseScore(best, s) \in Nat
        /\ BaseScore(best, r) <= BaseScore(best, s)
    BY BaseMonotone
  <2>3. /\ RegularScore(place, target, code, best, r) = IF r.stars < 3 THEN 0 ELSE BaseScore(best, r)
        /\ RegularScore(place, target, code, best, s) = IF s.stars < 3 THEN 0 ELSE BaseScore(best, s)
    BY <1>1 DEF RegularScore, AboveSelf, TooLow
  <2> QED BY <2>1, <2>2, <2>3
<1>2. CASE code = TooLow
  BY <1>2, TooLowMonotone DEF RegularScore, AboveSelf, TooLow
<1>3. CASE code # AboveSelf /\ code # TooLow
  <2>1. /\ BaseScore(best, r) \in Nat /\ BaseScore(best, s) \in Nat
        /\ BaseScore(best, r) <= BaseScore(best, s)
    BY BaseMonotone
  <2>2. /\ TripleBonus(RegularBonus, best, r) \in Nat /\ TripleBonus(RegularBonus, best, s) \in Nat
        /\ TripleBonus(RegularBonus, best, r) <= TripleBonus(RegularBonus, best, s)
    BY BonusMonotone DEF RegularBonus, LeagueBonus
  <2>3. /\ RegularScore(place, target, code, best, r) = BaseScore(best, r) + TripleBonus(RegularBonus, best, r)
        /\ RegularScore(place, target, code, best, s) = BaseScore(best, s) + TripleBonus(RegularBonus, best, s)
    BY <1>3 DEF RegularScore
  <2> QED BY <2>1, <2>2, <2>3
<1> QED BY <1>1, <1>2, <1>3

\* On the same base, judged alike, a result with no fewer stars and no less
\* destruction never scores less, through every branch of the formula, the
\* floor and the rounding.
THEOREM BetterNeverScoresLess ==
  ASSUME NEW cwl \in BOOLEAN, NEW place \in Nat, NEW target \in Nat, NEW code,
         NEW best \in AllResults, NEW r \in AllResults, NEW s \in AllResults,
         r.stars <= s.stars, r.destruction <= s.destruction
  PROVE  AttackScore(cwl, place, target, code, best, r)
           <= AttackScore(cwl, place, target, code, best, s)
<1>1. CASE code = ClaimedTarget
  BY <1>1 DEF AttackScore
<1>2. CASE code # ClaimedTarget /\ cwl
  <2> DEFINE x == BaseScore(best, r) + TripleBonus(LeagueBonus, best, r)
             y == BaseScore(best, s) + TripleBonus(LeagueBonus, best, s)
  <2>1. x \in Nat /\ y \in Nat /\ x <= y
    <3>1. /\ BaseScore(best, r) \in Nat /\ BaseScore(best, s) \in Nat
          /\ BaseScore(best, r) <= BaseScore(best, s)
      BY BaseMonotone
    <3>2. /\ TripleBonus(LeagueBonus, best, r) \in Nat /\ TripleBonus(LeagueBonus, best, s) \in Nat
          /\ TripleBonus(LeagueBonus, best, r) <= TripleBonus(LeagueBonus, best, s)
      BY BonusMonotone DEF RegularBonus, LeagueBonus
    <3> QED BY <3>1, <3>2
  <2>2. /\ AttackScore(cwl, place, target, code, best, r) = Rounded((x * 5) \div 4)
        /\ AttackScore(cwl, place, target, code, best, s) = Rounded((y * 5) \div 4)
    BY <1>2 DEF AttackScore
  <2> HIDE DEF x, y
  <2>3. (x * 5) \div 4 \in Int /\ (y * 5) \div 4 \in Int /\ (x * 5) \div 4 <= (y * 5) \div 4
    BY <2>1
  <2> QED BY <2>2, <2>3, RoundedMonotone
<1>3. CASE code # ClaimedTarget /\ ~cwl
  <2> DEFINE x == RegularScore(place, target, code, best, r)
             y == RegularScore(place, target, code, best, s)
  <2>1. x \in Int /\ y \in Int /\ x <= y
    BY RegularMonotone
  <2>2. /\ AttackScore(cwl, place, target, code, best, r) = Rounded(Greater(x, Floor))
        /\ AttackScore(cwl, place, target, code, best, s) = Rounded(Greater(y, Floor))
    BY <1>3 DEF AttackScore
  <2> HIDE DEF x, y
  <2>3. Greater(x, Floor) \in Int /\ Greater(y, Floor) \in Int /\ Greater(x, Floor) <= Greater(y, Floor)
    BY <2>1 DEF Greater, Floor
  <2> QED BY <2>2, <2>3, RoundedMonotone
<1> QED BY <1>1, <1>2, <1>3

\* Nothing costs a player more than a claimed target: every other attack, of a
\* regular or a league war, scores more than its fifty points off.
THEOREM ClaimedCostsMost ==
  ASSUME NEW cwl \in BOOLEAN, NEW place \in Nat, NEW target \in Nat,
         NEW code, code # ClaimedTarget, NEW best \in AllResults,
         NEW r \in AllResults, NEW s \in AllResults
  PROVE  AttackScore(cwl, place, target, ClaimedTarget, best, r)
           < AttackScore(cwl, place, target, code, best, s)
<1>1. AttackScore(cwl, place, target, ClaimedTarget, best, r) = -5000
  BY DEF AttackScore
<1>2. CASE cwl
  <2> DEFINE x == BaseScore(best, s) + TripleBonus(LeagueBonus, best, s)
  <2>0. s.stars <= s.stars /\ s.destruction <= s.destruction
    BY DEF AllResults
  <2>1. x \in Nat
    <3>1. BaseScore(best, s) \in Nat
      BY <2>0, BaseMonotone
    <3>2. TripleBonus(LeagueBonus, best, s) \in Nat
      BY <2>0, BonusMonotone DEF LeagueBonus
    <3> QED BY <3>1, <3>2
  <2>2. AttackScore(cwl, place, target, code, best, s) = Rounded((x * 5) \div 4)
    BY <1>2 DEF AttackScore
  <2> HIDE DEF x
  <2>3. (x * 5) \div 4 \in Nat
    BY <2>1
  <2> QED BY <1>1, <2>2, <2>3, RoundedBounds
<1>3. CASE ~cwl
  <2> DEFINE x == Greater(RegularScore(place, target, code, best, s), Floor)
  <2>1. x \in Int /\ x >= -3200
    <3>1. s.stars <= s.stars /\ s.destruction <= s.destruction
      BY DEF AllResults
    <3>2. RegularScore(place, target, code, best, s) \in Int
      BY <3>1, RegularMonotone
    <3> QED BY <3>2 DEF Greater, Floor
  <2>2. AttackScore(cwl, place, target, code, best, s) = Rounded(x)
    BY <1>3 DEF AttackScore
  <2> HIDE DEF x
  <2> QED BY <1>1, <2>1, <2>2, RoundedBounds
<1> QED BY <1>2, <1>3

-----------------------------------------------------------------------------
(* The ranking over a war.                                                  *)

\* An attack of the game.
Attacks == [player : Lineup, target : Enemies, result : Results]

\* What is stored are attacks of the war, and the cycle ended at one of them.
RankingTyped ==
  /\ battle \in Seq(Attacks)
  /\ stored \in Seq(1..Len(battle))
  /\ cut \in {Open} \cup 0..Len(stored)
  /\ present \subseteq Lineup

\* A poll appends the attacks that are new.
LEMMA Looks ==
  ASSUME RankingTyped, Look
  PROVE  /\ stored' \in Seq(1..Len(battle)) /\ battle' = battle
         /\ Len(stored) < Len(stored')
         /\ \A i \in 1..Len(stored) : stored'[i] = stored[i]
<1> DEFINE new == 1..Len(battle) \ ToSet(stored)
<1>1. PICK found \in SetToSeqs(new) : stored' = stored \o found
  BY DEF Look
<1>2. Len(battle) \in Nat /\ stored \in Seq(1..Len(battle)) /\ battle' = battle
  BY DEF RankingTyped, Look
<1>3. IsFiniteSet(new) /\ Cardinality(new) \in Nat
  <2>1. IsFiniteSet(1..Len(battle))
    BY <1>2, FS_Interval
  <2>2. new \in SUBSET (1..Len(battle))
    OBVIOUS
  <2> QED BY <2>1, <2>2, FS_Subset, FS_CardinalityType
<1>4. Cardinality(new) > 0
  <2>1. new # {}
    BY DEF Look
  <2> HIDE DEF new
  <2> QED BY <1>3, <2>1, FS_EmptySet
<1>5. found \in Seq(1..Len(battle)) /\ Len(found) = Cardinality(new)
  <2>1. found \in [1..Cardinality(new) -> 1..Len(battle)]
    BY DEF SetToSeqs
  <2> HIDE DEF new
  <2> QED BY <1>3, <2>1
<1> HIDE DEF new
<1>6. /\ stored \o found \in Seq(1..Len(battle))
      /\ Len(stored \o found) = Len(stored) + Len(found)
      /\ \A i \in 1..Len(stored) + Len(found) :
           (stored \o found)[i] = IF i <= Len(stored) THEN stored[i] ELSE found[i - Len(stored)]
  BY <1>2, <1>5, ConcatProperties
<1>7. Len(stored) \in Nat
  BY <1>2
<1> QED BY <1>1, <1>2, <1>3, <1>4, <1>5, <1>6, <1>7

\* Every step keeps the type.
LEMMA RankingTypedStep == ASSUME RankingTyped, [RankingNext]_rankingVars PROVE RankingTyped'
<1>1. Len(battle) \in Nat /\ Len(stored) \in Nat
  BY DEF RankingTyped
<1>2. CASE Strike
  <2>1. PICK p \in Lineup, t \in Enemies, r \in Results :
          battle' = Append(battle, [player |-> p, target |-> t, result |-> r])
    BY <1>2 DEF Strike
  <2>2. [player |-> p, target |-> t, result |-> r] \in Attacks
    BY DEF Attacks
  <2>3. battle' \in Seq(Attacks) /\ Len(battle') = Len(battle) + 1
    BY <2>1, <2>2, AppendProperties DEF RankingTyped
  <2>4. stored \in Seq(1..Len(battle'))
    <3>1. 1..Len(battle) \subseteq 1..Len(battle')
      BY <1>1, <2>3
    <3>2. stored \in Seq(1..Len(battle))
      BY DEF RankingTyped
    <3> QED BY <3>1, <3>2, SeqMonotonic
  <2>5. UNCHANGED <<stored, cut, present>>
    BY <1>2 DEF Strike
  <2> QED BY <2>3, <2>4, <2>5 DEF RankingTyped
<1>3. CASE Look
  <2>1. UNCHANGED <<battle, cut, present>>
    BY <1>3 DEF Look
  <2>2. Len(stored') \in Nat
    BY <1>3, Looks
  <2> QED BY <1>1, <1>3, <2>1, <2>2, Looks DEF RankingTyped, Open
<1>4. CASE Judge
  BY <1>4 DEF Judge, RankingTyped
<1>5. CASE Leave
  BY <1>5 DEF Leave, RankingTyped
<1>6. CASE Return
  BY <1>6 DEF Return, RankingTyped
<1>7. CASE EndOfWar
  BY <1>1, <1>7 DEF EndOfWar, RankingTyped, Open
<1>8. CASE UNCHANGED rankingVars
  BY <1>8 DEF rankingVars, RankingTyped
<1> QED BY <1>2, <1>3, <1>4, <1>5, <1>6, <1>7, <1>8 DEF RankingNext

\* The variables of the ranking stay what the tables can hold.
THEOREM RankingType == RankingSpec => []RankingTyped
<1>1. RankingInit => RankingTyped
  <2> SUFFICES ASSUME RankingInit PROVE RankingTyped
    OBVIOUS
  <2>1. battle = <<>> /\ stored = <<>> /\ cut = Open /\ present = Lineup
    BY DEF RankingInit
  <2>2. <<>> \in Seq(Attacks) /\ <<>> \in Seq(1..Len(<<>>))
    BY EmptySeq
  <2> QED BY <2>1, <2>2 DEF RankingTyped
<1> QED BY <1>1, RankingTypedStep, PTL DEF RankingSpec

\* All that a player made is in the ranking.
LEMMA AllCounted ==
  ASSUME RankingTyped, NEW c \in Cycles, NEW p \in Listed(c),
         \A n \in Made(p) : n \in {stored[i] : i \in InCycle(c)}
  PROVE  /\ Used(c, p) \in Nat /\ Cardinality(Made(p)) \in Nat
         /\ Cardinality(Made(p)) <= Used(c, p)
<1>1. Len(battle) \in Nat /\ Len(stored) \in Nat /\ cut \in {Open} \cup 0..Len(stored)
  BY DEF RankingTyped
<1>2. InCycle(c) \in SUBSET (1..Len(stored))
  BY <1>1 DEF InCycle, Open
<1>3. IsFiniteSet(By(c, p)) /\ Used(c, p) \in Nat
  <2>1. By(c, p) \in SUBSET (1..Len(stored))
    BY <1>2 DEF By, Counted
  <2>2. IsFiniteSet(1..Len(stored))
    BY <1>1, FS_Interval
  <2> QED BY <2>1, <2>2, FS_Subset, FS_CardinalityType DEF Used
<1> DEFINE S == {i \in By(c, p) : stored[i] \in Made(p)}
           f == [i \in S |-> stored[i]]
<1>4. IsFiniteSet(S) /\ Cardinality(S) <= Used(c, p) /\ Cardinality(S) \in Nat
  <2>1. S \in SUBSET By(c, p)
    OBVIOUS
  <2> HIDE DEF S
  <2> QED BY <1>3, <2>1, FS_Subset, FS_CardinalityType DEF Used
<1>5. f \in Surjection(S, Made(p))
  <2>1. f \in [S -> Made(p)]
    OBVIOUS
  <2>2. ASSUME NEW n \in Made(p) PROVE \E i \in S : f[i] = n
    <3>1. PICK i \in InCycle(c) : stored[i] = n
      OBVIOUS
    <3>2. battle[stored[i]].player = p
      BY <3>1 DEF Made
    <3>3. i \in S
      BY <3>1, <3>2 DEF By, Counted, Attack_
    <3> QED BY <3>1, <3>3
  <2> HIDE DEF f, S
  <2> QED BY <2>1, <2>2 DEF Surjection
<1> HIDE DEF S, f
<1>6. IsFiniteSet(Made(p)) /\ Cardinality(Made(p)) <= Cardinality(S)
  BY <1>4, <1>5, FS_Surjection
<1>7. Cardinality(Made(p)) \in Nat
  BY <1>6, FS_CardinalityType
<1> QED BY <1>3, <1>4, <1>6, <1>7

\* Nobody is fined who used all.
LEMMA NoFineIfUsed ==
  ASSUME NEW c, NEW p, Used(c, p) \in Nat, Used(c, p) >= Quota
  PROVE  Fine(c, p) = 0
<1>1. LeagueFine(Used(c, p), Left(c)) = 0 \/ ~league
  BY DEF LeagueFine, Quota
<1>2. RegularFine(Used(c, p), p, Left(c)) = 0 \/ league
  BY DEF RegularFine, Greater, Quota
<1> QED BY <1>1, <1>2 DEF Fine

\* A fine for attacks not made is for attacks not made, or not seen in time:
\* who made all that the war allows, and had them stored in the cycle, pays none.
THEOREM FinesOnlyTheUnused == RankingSpec => []FinedOnlyIfUnused
<1>1. RankingTyped => FinedOnlyIfUnused
  <2> SUFFICES ASSUME RankingTyped, NEW c \in Cycles, NEW p \in Listed(c),
                      Cardinality(Made(p)) >= Quota,
                      \A n \in Made(p) : n \in {stored[i] : i \in InCycle(c)}
               PROVE  Fine(c, p) = 0
    <3>1. Quota \in Nat
      BY DEF Quota
    <3>2. ASSUME NEW c \in Cycles, NEW p \in Listed(c),
                 ~(Cardinality(Made(p)) < Quota),
                 \A n \in Made(p) : n \in {stored[i] : i \in InCycle(c)}, RankingTyped
          PROVE  Cardinality(Made(p)) >= Quota
      BY <3>1, <3>2, AllCounted
    <3> QED BY <3>2 DEF FinedOnlyIfUnused
  <2>1. Used(c, p) \in Nat /\ Used(c, p) >= Quota
    BY AllCounted DEF Quota
  <2> QED BY <2>1, NoFineIfUsed
<1> QED BY <1>1, RankingType, PTL

\* What a ranking looks up stays when later attacks are stored.
Later ==
  /\ Len(stored) < Len(stored') /\ Len(stored') \in Nat
  /\ \A i \in 1..Len(stored) : stored'[i] = stored[i] /\ Attack_(i)' = Attack_(i)
  /\ UNCHANGED <<battle, cut, present, over, league>>

\* Positions counted stay, and new ones come after them.
LEMMA CountedStays ==
  ASSUME RankingTyped, Later, NEW c \in Cycles
  PROVE  /\ Counted(c) \subseteq Counted(c)' /\ Counted(c) \subseteq 1..Len(stored)
         /\ \A i \in Counted(c), j \in Counted(c)' : j < i => j \in Counted(c)
         /\ \A i \in Counted(c) : Attack_(i)' = Attack_(i) /\ i \in Int
         /\ \A i \in Counted(c)' : i \in Int
<1>1. Len(stored) \in Nat /\ cut \in {Open} \cup 0..Len(stored)
  BY DEF RankingTyped
<1>2. /\ InCycle(c) \subseteq InCycle(c)' /\ InCycle(c) \subseteq 1..Len(stored)
      /\ \A i \in InCycle(c), j \in InCycle(c)' : j < i => j \in InCycle(c)
      /\ \A j \in InCycle(c)' : j \in Int
  BY <1>1 DEF Later, InCycle, Open
<1>3. Listed(c)' = Listed(c)
  BY DEF Listed, Later
<1> QED BY <1>2, <1>3 DEF Counted, Later

\* So the best result before an attack stays, ...
LEMMA BeforeStays ==
  ASSUME RankingTyped, Later, NEW c \in Cycles, NEW i \in Counted(c)
  PROVE  Best(Before(c, i))' = Best(Before(c, i))
<1> DEFINE B == Before(c, i)
<1>1. /\ \A j \in B : j \in B' /\ Attack_(j)' = Attack_(j)
      /\ \A j \in B' : j \in B
  BY CountedStays DEF Before, On
<1>2. B' = B
  <2> HIDE DEF B
  <2> QED BY <1>1
<1>3. {Attack_(j).result : j \in B}' = {Attack_(j).result : j \in B}
  <2>1. {Attack_(j).result : j \in B}' = {Attack_(j)'.result : j \in B}
    BY <1>2
  <2> HIDE DEF B
  <2> QED BY <1>1, <2>1
<1> DEFINE R == {Attack_(j).result : j \in B}
           Top(S, found) == IF S = {} THEN NoResult
             ELSE CHOOSE y \in found : \A x \in found :
               x.stars < y.stars \/ (x.stars = y.stars /\ x.destruction <= y.destruction)
<1>4. Best(B) = Top(B, R) /\ Best(B)' = Top(B', R')
  BY DEF Best, NoResult
<1> HIDE DEF B, R, Top
<1> QED BY <1>2, <1>3, <1>4 DEF B, R

\* ... and its score, ...
LEMMA ScoreStays ==
  ASSUME RankingTyped, Later, NEW c \in Cycles, NEW i \in Counted(c),
         verdict'[stored[i]] = verdict[stored[i]]
  PROVE  Score(c, i)' = Score(c, i)
<1>1. Attack_(i)' = Attack_(i) /\ stored'[i] = stored[i] /\ league' = league
  BY CountedStays DEF Later
<1> QED BY <1>1, BeforeStays DEF Score

\* ... while no fine grows, for more attacks are used and fewer bases left.
LEMMA FineStays ==
  ASSUME RankingTyped, Later, NEW c \in Cycles, NEW p \in Listed(c)
  PROVE  Fine(c, p)' >= Fine(c, p)
<1>0. Lineup \subseteq Nat /\ Enemies \subseteq Nat
  BY ContributionRankingAssumption
<1>1. Len(stored) \in Nat /\ cut \in {Open} \cup 0..Len(stored) /\ p \in Nat
  BY <1>0 DEF RankingTyped, Listed
<1>2. IsFiniteSet(Counted(c)')
  <2>1. Counted(c)' \in SUBSET (1..Len(stored'))
    BY <1>1 DEF Counted, InCycle, Later, Open
  <2>2. IsFiniteSet(1..Len(stored'))
    <3>1. 1 \in Int /\ Len(stored') \in Int
      BY DEF Later
    <3> QED BY <3>1, FS_Interval
  <2> QED BY <2>1, <2>2, FS_Subset
<1>3. Used(c, p) \in Nat /\ Used(c, p)' \in Nat /\ Used(c, p) <= Used(c, p)'
  <2>1. By(c, p) \in SUBSET (By(c, p)') /\ By(c, p)' \in SUBSET (Counted(c)')
    BY CountedStays DEF By
  <2>2. IsFiniteSet(By(c, p)')
    BY <1>2, <2>1, FS_Subset
  <2> QED BY <2>1, <2>2, FS_Subset, FS_CardinalityType DEF Used
<1>4. Left(c)' \in SUBSET Left(c)
  BY CountedStays DEF Left, On
<1> DEFINE useful == {t \in Left(c) : p <= t /\ t <= p + 10}
<1>5. Cardinality(useful) \in Nat /\ Cardinality(useful') \in Nat /\ Cardinality(useful') <= Cardinality(useful)
  <2>1. useful' \in SUBSET useful
    BY <1>4
  <2>2. useful \in SUBSET (p..p + 10)
    <3>1. ASSUME NEW t \in useful PROVE t \in p..p + 10
      <4>1. t \in Nat
        BY <1>0 DEF Left
      <4> QED BY <1>1, <4>1
    <3> QED BY <3>1
  <2>3. IsFiniteSet(p..p + 10)
    BY <1>1, FS_Interval
  <2> HIDE DEF useful
  <2> QED BY <2>1, <2>2, <2>3, FS_Subset, FS_CardinalityType
<1>6. LeagueFine(Used(c, p), Left(c))' >= LeagueFine(Used(c, p), Left(c))
  BY <1>3, <1>4 DEF LeagueFine
<1>7. RegularFine(Used(c, p), p, Left(c))' >= RegularFine(Used(c, p), p, Left(c))
  BY <1>3, <1>5 DEF RegularFine, Greater
<1> QED BY <1>6, <1>7 DEF Fine, Later

\* A score that was shown stands when a poll finds more attacks, whatever was
\* stored and decided before.
THEOREM ShownScoresStand == RankingSpec => ScoresStand
<1> DEFINE Stand ==
      (/\ stored' # stored
       /\ cut' = cut /\ present' = present /\ over' = over
       /\ \A n \in ToSet(stored) : verdict'[n] = verdict[n])
      => \A c \in Cycles :
           /\ \A i \in Counted(c) : Score(c, i)' = Score(c, i)
           /\ \A p \in Listed(c) : Fine(c, p)' >= Fine(c, p)
<1>1. RankingTyped /\ [RankingNext]_rankingVars => [Stand]_rankingVars
  <2> SUFFICES ASSUME RankingTyped, [RankingNext]_rankingVars, stored' # stored,
                      \A n \in ToSet(stored) : verdict'[n] = verdict[n], NEW c \in Cycles
               PROVE  /\ \A i \in Counted(c) : Score(c, i)' = Score(c, i)
                      /\ \A p \in Listed(c) : Fine(c, p)' >= Fine(c, p)
    OBVIOUS
  <2>1. Look
    BY DEF RankingNext, Strike, Judge, Leave, Return, EndOfWar, rankingVars
  <2>2. Later
    <3>1. Len(stored') \in Nat
      BY <2>1, Looks
    <3>2. UNCHANGED <<battle, cut, present, over, league>>
      BY <2>1 DEF Look
    <3> QED BY <2>1, <3>1, <3>2, Looks DEF Later, Attack_
  <2>3. ASSUME NEW i \in Counted(c) PROVE verdict'[stored[i]] = verdict[stored[i]]
    <3>1. i \in DOMAIN stored
      BY <2>2, CountedStays DEF RankingTyped
    <3> QED BY <3>1 DEF ToSet
  <2> QED BY <2>2, <2>3, ScoreStays, FineStays
<1> QED BY <1>1, RankingType, PTL DEF RankingSpec, ScoresStand

-----------------------------------------------------------------------------
(* The dialogues of the administrators.  A state of the code has no type   *)
(* declarations to lean on: what a handler carries, a message shows and    *)
(* the dialogue keeps are known by their fields.                           *)
ListWork(w) ==
  w.step \in {"options", "text", "show"} =>
    /\ DOMAIN w = {"step", "kind", "list", "clean"}
    /\ w.kind \in Numbered /\ w.clean \in BOOLEAN
ReportWork(w) ==
  w.step \in {"run", "forget", "send"} =>
    /\ {"step", "from", "asked", "given", "clean"} \subseteq DOMAIN w
    /\ w.clean \in BOOLEAN
Message(b) ==
  /\ b.kind = "cycles"  => DOMAIN b = {"kind", "report", "list", "no", "page"}
  /\ b.kind = "players" => DOMAIN b = {"kind", "period", "list", "no", "page"}

HandlersTyped == /\ DOMAIN busy = Handlers
                 /\ \A h \in Handlers : ListWork(busy[h]) /\ ReportWork(busy[h])
BoardTyped    == DOMAIN board = Keyboards /\ \A m \in Keyboards : Message(board[m])
DialogTyped ==
  /\ requests \in Nat
  /\ DOMAIN fsm = {"state", "lists", "cycles", "players", "period", "report", "from"}
  /\ DOMAIN fsm.lists = Numbered
  /\ HandlersTyped /\ BoardTyped
  /\ DOMAIN last = {"kind", "list", "clean"} /\ last.clean \in BOOLEAN

\* The handlers that will keep a list, and the messages that bear its number.
Working(h) == busy[h].step \in {"run", "cycles"}
HasNumber(m) == board[m].kind \in {"cycles", "players"}

\* A handler that will keep a list has a number no list or message bears yet.
FreshNumbers ==
  /\ \A h \in Handlers : Working(h) =>
       /\ busy[h].no \in 1..requests
       /\ busy[h].no # fsm.cycles.no /\ busy[h].no # fsm.players.no
       /\ \A m \in Keyboards : HasNumber(m) => board[m].no # busy[h].no
       /\ \A g \in Handlers : (Working(g) /\ busy[g].no = busy[h].no) => g = h
  /\ fsm.cycles.no \in 0..requests /\ fsm.players.no \in 0..requests
  /\ \A m \in Keyboards : HasNumber(m) => board[m].no \in 0..requests

\* What bears the same number is the same list, of the same period.
SameNumberSameList ==
  /\ fsm.cycles.no = 0 => fsm.cycles.list = <<>>
  /\ \A m \in Keyboards :
       /\ board[m].kind = "cycles" =>
            /\ board[m].no = 0 => board[m].list = <<>>
            /\ board[m].no = fsm.cycles.no => board[m].list = fsm.cycles.list
       /\ board[m].kind = "players" =>
            /\ board[m].no # 0
            /\ board[m].no = fsm.players.no =>
                 board[m].list = fsm.players.list /\ board[m].period = fsm.period

\* One clean start at a time, and what it shows is what is kept.
ListsAgree ==
  /\ \A h, g \in Handlers : (Starting(h) /\ busy[h].clean /\ Starting(g)) => g = h
  /\ \A h \in Handlers : (Starting(h) /\ busy[h].clean) =>
       /\ (busy[h].step = "text" /\ busy[h].kind \in {"violations", "all"})
            => busy[h].list = order
       /\ (busy[h].step = "show" /\ fsm.state \in Numbered)
            => fsm.state = busy[h].kind /\ fsm.lists[fsm.state] = busy[h].list
  /\ (/\ last.clean /\ fsm.state \in Numbered
      /\ \A h \in Handlers : busy[h].step # "show")
       => last.kind = fsm.state /\ last.list = fsm.lists[fsm.state]

\* What a handler is about to send is what it was asked for.
Asked ==
  /\ AnswersWhatWasAsked
  /\ \A h \in Handlers : (busy[h].step \in {"run", "forget", "send"} /\ busy[h].clean)
       => busy[h].given = busy[h].asked

-----------------------------------------------------------------------------
\* The invariant holds in a process that has just started.
LEMMA DialogsBegin == DialogsInit => DialogTyped /\ FreshNumbers /\ SameNumberSameList /\ ListsAgree /\ Asked
<1> SUFFICES ASSUME DialogsInit PROVE DialogTyped /\ FreshNumbers /\ SameNumberSameList /\ ListsAgree /\ Asked
  OBVIOUS
<1> USE DEF DialogsInit
<1>1. DialogTyped
  BY DEF DialogTyped, HandlersTyped, BoardTyped, Forgotten, NoList, AtRest, Removed, ListWork, ReportWork, Message
<1>2. FreshNumbers
  BY DEF FreshNumbers, Forgotten, NoList, Removed, AtRest, Working, HasNumber
<1>3. SameNumberSameList
  BY DEF SameNumberSameList, Forgotten, NoList, Removed
<1>4. ListsAgree
  BY DEF ListsAgree, Forgotten, NoList, AtRest, Starting, Numbered
<1>5. Asked
  BY DEF Asked, AnswersWhatWasAsked, NoAnswer, AtRest
<1> QED BY <1>1, <1>2, <1>3, <1>4, <1>5

\* Requests are counted up.
LEMMA Requests ==
  ASSUME requests \in Nat, [DialogsNext]_dialogVars
  PROVE  requests' \in Nat /\ requests <= requests'
<1>1. requests' = requests \/ Arrives
  BY Zenon
     DEF DialogsNext, NumberedNext, PanelNext, Reshuffle, CompleteCycle, RestartDialogs, AskList, ReadOptions,
    KeepList, ShowList, TypeNumber, SendReport, Forget, HandlerFails, ClearDialogue, OpenReport, PressPeriod,
    PressCycles, ListCycles, TurnPage, PressCycle, PressCustom, TypeFrom, TypeTo, StepBack, RunReport,
    PressPlayer, CloseMessage, dialogVars
<1> QED BY <1>1 DEF Arrives

\* A step leaves every handler with the fields of its kind of work, ...
LEMMA BusyTyped == ASSUME DialogTyped, [DialogsNext]_dialogVars PROVE HandlersTyped'
<1> USE DEF DialogTyped, HandlersTyped
<1>1. ASSUME NEW o \in Orders, Reshuffle(o) PROVE HandlersTyped'
  BY <1>1 DEF Reshuffle, ListWork, ReportWork
<1>2. ASSUME NEW h \in Handlers, NEW k \in Numbered, AskList(h, k) PROVE HandlersTyped'
  <2> DEFINE alone == \A g \in Handlers : ~Starting(g)
  <2>1. alone \in BOOLEAN
    OBVIOUS
  <2> HIDE DEF alone
  <2>2. busy' = [g \in Handlers |->
          IF g = h THEN [step |-> IF k \in {"violations", "all"} THEN "options" ELSE "text",
                         kind |-> k, list |-> <<>>, clean |-> alone]
          ELSE IF Starting(g) THEN [busy[g] EXCEPT !.clean = FALSE] ELSE busy[g]]
    BY <1>2 DEF AskList, alone
  <2>3. ASSUME NEW g \in Handlers PROVE ListWork(busy'[g]) /\ ReportWork(busy'[g])
    <3>1. CASE g = h
      BY <2>1, <2>2, <3>1 DEF ListWork, ReportWork
    <3>2. CASE g # h /\ Starting(g)
      <4>1. DOMAIN busy[g] = {"step", "kind", "list", "clean"} /\ busy[g].kind \in Numbered
        BY <3>2 DEF Starting, ListWork
      <4>2. busy'[g] = [busy[g] EXCEPT !.clean = FALSE]
        BY <2>2, <3>2
      <4> QED BY <3>2, <4>1, <4>2 DEF ListWork, ReportWork, Starting
    <3>3. CASE g # h /\ ~Starting(g)
      BY <2>2, <3>3
    <3> QED BY <3>1, <3>2, <3>3
  <2> QED BY <2>2, <2>3
<1>3. ASSUME NEW h \in Handlers, ReadOptions(h) PROVE HandlersTyped'
  BY <1>3 DEF ReadOptions, ListWork, ReportWork
<1>4. ASSUME NEW h \in Handlers, KeepList(h) PROVE HandlersTyped'
  BY <1>4 DEF KeepList, ListWork, ReportWork, AtRest
<1>5. ASSUME NEW h \in Handlers, HandlerFails(h) \/ ShowList(h) \/ ListCycles(h)
      PROVE  HandlersTyped'
  BY <1>5 DEF HandlerFails, ShowList, ListCycles, ListWork, ReportWork, AtRest
<1>6. ASSUME NEW h \in Handlers, NEW i, TypeNumber(h, i) PROVE HandlersTyped'
  BY <1>6 DEF TypeNumber, ListWork, ReportWork
<1>7. ASSUME NEW h \in Handlers, SendReport(h) PROVE HandlersTyped'
  BY <1>7 DEF SendReport, ListWork, ReportWork, AtRest
<1>8. ASSUME NEW h \in Handlers, Forget(h) PROVE HandlersTyped'
  BY <1>8 DEF Forget, ListWork, ReportWork, AtRest
<1>9. ASSUME NEW h \in Handlers, NEW report, NEW asked, NEW handed, NEW c \in BOOLEAN,
             Run(h, report, asked, handed, c)
      PROVE  HandlersTyped'
  BY <1>9 DEF Run, ListWork, ReportWork
<1>10. ASSUME NEW h \in Handlers, NEW m \in Keyboards, PressCycles(h, m)
       PROVE  HandlersTyped'
  BY <1>10 DEF PressCycles, ListWork, ReportWork
<1>11. ASSUME NEW h \in Handlers, RunReport(h) PROVE HandlersTyped'
  BY <1>11 DEF RunReport, ListWork, ReportWork
<1>12. ASSUME NEW h \in Handlers, NEW m \in Keyboards, NEW i, PressPlayer(h, m, i)
       PROVE  HandlersTyped'
  <2>1. PICK c \in BOOLEAN : c <=> board[m].no = fsm.players.no
    OBVIOUS
  <2>2. \/ busy' = busy
        \/ busy' = [busy EXCEPT ![h] =
             [step  |-> "send", from |-> "panel", no |-> 0,
              asked |-> <<board[m].period, board[m].list[i]>>,
              given |-> <<fsm.period, fsm.players.list[i]>>, clean |-> c]]
    BY <1>12, <2>1, Zenon DEF PressPlayer
  <2> QED BY <2>2 DEF ListWork, ReportWork
<1>13. CASE RestartDialogs
  BY <1>13 DEF RestartDialogs, ListWork, ReportWork, AtRest
<1>14. CASE UNCHANGED busy
  BY <1>14
<1>15. ASSUME NEW h \in Handlers, NEW m \in Keyboards, NEW i, PressCycle(h, m, i)
       PROVE  HandlersTyped'
  BY <1>9, <1>14, <1>15 DEF PressCycle
<1>16. ASSUME NEW h \in Handlers, NEW m \in Keyboards, NEW n, PressPeriod(h, m, n)
       PROVE  HandlersTyped'
  BY <1>9, <1>16 DEF PressPeriod
<1>17. ASSUME NEW h \in Handlers, NEW n, TypeTo(h, n) PROVE HandlersTyped'
  BY <1>9, <1>17 DEF TypeTo
<1> QED
  BY <1>1, <1>2, <1>3, <1>4, <1>5, <1>6, <1>7, <1>8, <1>10, <1>11, <1>12, <1>13, <1>14, <1>15, <1>16, <1>17
  DEF DialogsNext, NumberedNext, PanelNext, CompleteCycle, ClearDialogue, OpenReport, PressCustom,
  TurnPage, TypeFrom, StepBack, CloseMessage, dialogVars

\* ... every message with those of its kind, ...
LEMMA MessagesTyped == ASSUME DialogTyped, [DialogsNext]_dialogVars PROVE BoardTyped'
<1> USE DEF DialogTyped, BoardTyped
<1>1. ASSUME NEW m \in Keyboards, NEW r, board' = [board EXCEPT ![m] = [kind |-> "periods", report |-> r]]
      PROVE  BoardTyped'
  BY <1>1 DEF Message
<1>2. ASSUME NEW h \in Handlers, ListCycles(h) PROVE BoardTyped'
  BY <1>2 DEF ListCycles, Message
<1>3. ASSUME NEW m \in Keyboards, NEW n, TurnPage(m, n) PROVE BoardTyped'
  BY <1>3 DEF TurnPage, Message
<1>4. ASSUME NEW h \in Handlers, RunReport(h) PROVE BoardTyped'
  BY <1>4 DEF RunReport, Message
<1>5. ASSUME NEW m \in Keyboards, CloseMessage(m) PROVE BoardTyped'
  BY <1>5 DEF CloseMessage, Message, Removed
<1>6. CASE UNCHANGED board
  BY <1>6
<1>7. CASE StepBack
  BY <1>1, <1>6, <1>7 DEF StepBack
<1> QED
  BY <1>1, <1>2, <1>3, <1>4, <1>5, <1>6, <1>7
  DEF DialogsNext, NumberedNext, PanelNext, Reshuffle, CompleteCycle, RestartDialogs,
  AskList, ReadOptions, KeepList, ShowList, TypeNumber, SendReport, Forget, HandlerFails,
  ClearDialogue, OpenReport, PressPeriod, PressCycles, PressCycle, PressCustom, TypeFrom,
  TypeTo, PressPlayer, dialogVars

\* ... and the data of the dialogue with theirs.
LEMMA DataTyped ==
  ASSUME DialogTyped, [DialogsNext]_dialogVars
  PROVE  /\ DOMAIN fsm' = {"state", "lists", "cycles", "players", "period", "report", "from"}
         /\ DOMAIN fsm'.lists = Numbered
         /\ DOMAIN last' = {"kind", "list", "clean"} /\ last'.clean \in BOOLEAN
<1> USE DEF DialogTyped
<1> DEFINE F(f) == /\ DOMAIN f = {"state", "lists", "cycles", "players", "period", "report", "from"}
                   /\ DOMAIN f.lists = Numbered
<1>0. F(Forgotten)
  BY DEF Forgotten
<1>1. ASSUME fsm' = Forgotten \/ fsm' = fsm PROVE F(fsm')
  BY <1>0, <1>1
<1>2. ASSUME NEW f, F(f), NEW k \in Numbered, NEW l
      PROVE  F([f EXCEPT !.state = k, !.lists[k] = l])
  BY <1>2
<1>3. ASSUME NEW h \in Handlers, KeepList(h) PROVE F(fsm')
  <2>1. busy[h].kind \in Numbered
    BY <1>3 DEF KeepList, HandlersTyped, ListWork
  <2> HIDE DEF F
  <2> QED BY <2>1, <1>0, <1>2, <1>3 DEF KeepList, Kept, F
<1>4. ASSUME NEW h \in Handlers, ListCycles(h) PROVE F(fsm')
  BY <1>4 DEF ListCycles
<1>5. ASSUME NEW h \in Handlers, RunReport(h) PROVE F(fsm')
  BY <1>5 DEF RunReport, KeptPlayers
<1>6. ASSUME NEW m \in Keyboards, PressCustom(m) PROVE F(fsm')
  BY <1>6 DEF PressCustom
<1>7. ASSUME NEW day, TypeFrom(day) PROVE F(fsm')
  BY <1>7 DEF TypeFrom
<1>8. ASSUME StepBack PROVE F(fsm')
  BY <1>1, <1>8 DEF StepBack
<1>9. F(fsm')
  <2> HIDE DEF F
  <2> QED BY <1>1, <1>3, <1>4, <1>5, <1>6, <1>7, <1>8
    DEF DialogsNext, NumberedNext, PanelNext, Reshuffle, CompleteCycle, RestartDialogs,
    AskList, ReadOptions, ShowList, TypeNumber, SendReport, Forget, HandlerFails,
    ClearDialogue, OpenReport, PressPeriod, PressCycles, PressCycle, TurnPage,
    TypeTo, PressPlayer, CloseMessage, dialogVars, F
<1>10. DOMAIN last' = {"kind", "list", "clean"} /\ last'.clean \in BOOLEAN
  <2>1. ASSUME NEW h \in Handlers, ShowList(h)
        PROVE  DOMAIN last' = {"kind", "list", "clean"} /\ last'.clean \in BOOLEAN
    BY <2>1 DEF ShowList, HandlersTyped, ListWork
  <2>2. ASSUME NEW h \in Handlers, HandlerFails(h)
        PROVE  DOMAIN last' = {"kind", "list", "clean"} /\ last'.clean \in BOOLEAN
    BY <2>2 DEF HandlerFails
  <2> QED BY <2>1, <2>2
    DEF DialogsNext, NumberedNext, PanelNext, Reshuffle, CompleteCycle, RestartDialogs,
    AskList, ReadOptions, KeepList, TypeNumber, SendReport, Forget, ListCycles, RunReport,
    ClearDialogue, OpenReport, PressPeriod, PressCycles, PressCycle, TurnPage, PressCustom, TypeFrom,
    TypeTo, StepBack, PressPlayer, CloseMessage, dialogVars
<1> QED BY <1>9, <1>10

\* Together.
LEMMA TypedStep == ASSUME DialogTyped, [DialogsNext]_dialogVars PROVE DialogTyped'
BY Requests, BusyTyped, MessagesTyped, DataTyped DEF DialogTyped

\* A page turned shows the list that is kept; only one of cycles gets its number.
LEMMA TurnedPage ==
  ASSUME DialogTyped, NEW m \in Keyboards, NEW n, TurnPage(m, n)
  PROVE  /\ HasNumber(m) /\ board'[m].kind = board[m].kind
         /\ \A k \in Keyboards : k # m => board'[k] = board[k]
         /\ board[m].kind = "cycles" =>
              board'[m].no = fsm.cycles.no /\ board'[m].list = fsm.cycles.list
         /\ board[m].kind = "players" =>
              /\ board'[m].no = board[m].no /\ board'[m].list = fsm.players.list
              /\ board'[m].period = board[m].period
<1>0. HasNumber(m)
  BY DEF TurnPage, HasNumber
<1> DEFINE l == IF board[m].kind = "cycles" THEN fsm.cycles.list ELSE fsm.players.list
           x == IF board[m].kind = "cycles" THEN fsm.cycles.no ELSE board[m].no
<1>1. board' = [board EXCEPT ![m] = [board[m] EXCEPT !.list = l, !.page = n, !.no = x]]
  BY DEF TurnPage
<1>2. DOMAIN board = Keyboards /\ {"kind", "list", "no", "page"} \subseteq DOMAIN board[m]
      /\ (board[m].kind = "players" => "period" \in DOMAIN board[m])
  BY <1>0 DEF DialogTyped, BoardTyped, Message, HasNumber
<1>3. board'[m] = [board[m] EXCEPT !.list = l, !.page = n, !.no = x]
  BY <1>1, <1>2
<1>4. board'[m].kind = board[m].kind /\ board'[m].no = x /\ board'[m].list = l
      /\ (board[m].kind = "players" => board'[m].period = board[m].period)
  BY <1>2, <1>3
<1>5. \A k \in Keyboards : k # m => board'[k] = board[k]
  BY <1>1, <1>2
<1> QED BY <1>0, <1>1, <1>4, <1>5

\* Numbers stay fresh when no handler begins work and lists are lost or pass
\* to a message.
LEMMA NumbersKept ==
  ASSUME DialogTyped, FreshNumbers, requests' \in Nat, requests <= requests',
         \A h \in Handlers : Working(h)' => Working(h) /\ busy'[h].no = busy[h].no,
         fsm'.cycles.no \in {0, fsm.cycles.no}, fsm'.players.no \in {0, fsm.players.no},
         \A m \in Keyboards : HasNumber(m)' =>
            \/ board'[m].no = fsm.cycles.no
            \/ HasNumber(m) /\ board'[m].no = board[m].no
  PROVE  FreshNumbers'
BY DEF DialogTyped, FreshNumbers

\* A handler that starts takes the next number.
LEMMA NumberTaken ==
  ASSUME DialogTyped, FreshNumbers, Arrives, NEW h \in Handlers, NEW w, w.no = requests',
         busy' = [busy EXCEPT ![h] = w], UNCHANGED board,
         fsm'.cycles.no \in {0, fsm.cycles.no}, fsm'.players.no \in {0, fsm.players.no}
  PROVE  FreshNumbers'
<1>1. requests \in Nat /\ requests' = requests + 1 /\ DOMAIN busy = Handlers
  BY DEF DialogTyped, HandlersTyped, Arrives
<1>2. busy'[h] = w /\ \A g \in Handlers : g # h => busy'[g] = busy[g]
  BY <1>1
<1>3. /\ fsm'.cycles.no \in 0..requests' /\ fsm'.players.no \in 0..requests'
      /\ fsm'.cycles.no # requests' /\ fsm'.players.no # requests'
      /\ \A m \in Keyboards : HasNumber(m)' => board'[m].no \in 0..requests' /\ board'[m].no # requests'
  BY <1>1 DEF FreshNumbers, HasNumber
<1>4. ASSUME NEW g \in Handlers, g # h, Working(g)'
      PROVE  /\ busy'[g].no \in 1..requests' /\ busy'[g].no # requests'
             /\ busy'[g].no # fsm'.cycles.no /\ busy'[g].no # fsm'.players.no
             /\ \A m \in Keyboards : HasNumber(m)' => board'[m].no # busy'[g].no
             /\ \A k \in Handlers : (k # h /\ Working(k)' /\ busy'[k].no = busy'[g].no) => k = g
  BY <1>1, <1>2, <1>4 DEF FreshNumbers, HasNumber, Working
<1> QED BY <1>1, <1>2, <1>3, <1>4 DEF FreshNumbers

\* No step brings a number a second time.
LEMMA NumbersStep ==
  ASSUME DialogTyped, FreshNumbers, [DialogsNext]_dialogVars
  PROVE  FreshNumbers'
<1>0. requests' \in Nat /\ requests <= requests' /\ Forgotten.cycles.no = 0 /\ Forgotten.players.no = 0
      /\ DOMAIN busy = Handlers /\ DOMAIN board = Keyboards
  BY Requests DEF DialogTyped, Forgotten, NoList, HandlersTyped, BoardTyped
<1> DEFINE Nos == fsm'.cycles.no \in {0, fsm.cycles.no} /\ fsm'.players.no \in {0, fsm.players.no}
           Less == \A h \in Handlers : Working(h)' => Working(h) /\ busy'[h].no = busy[h].no
           Marked == \A m \in Keyboards : HasNumber(m)' =>
                       \/ board'[m].no = fsm.cycles.no
                       \/ HasNumber(m) /\ board'[m].no = board[m].no
<1>a. ASSUME Less, Nos, Marked PROVE FreshNumbers'
  BY <1>a, <1>0, NumbersKept
<1>b. fsm' = fsm \/ fsm' = Forgotten => Nos
  BY <1>0
<1>c. busy' = busy => Less
  BY DEF Working
<1>d. board' = board => Marked
  BY DEF HasNumber
<1>e. ASSUME NEW h \in Handlers, NEW w, busy' = [busy EXCEPT ![h] = w], w.step \notin {"run", "cycles"}
      PROVE  Less
  BY <1>0, <1>e DEF Working
<1>f. ASSUME NEW m \in Keyboards, NEW b, board' = [board EXCEPT ![m] = b], b.kind \notin {"cycles", "players"}
      PROVE  Marked
  BY <1>0, <1>f DEF HasNumber
<1>1. ASSUME NEW o \in Orders, Reshuffle(o) PROVE FreshNumbers'
  <2>1. \A h \in Handlers : Working(h)' => busy'[h] = busy[h]
    BY <1>1 DEF Reshuffle, Working, DialogTyped, HandlersTyped, ListWork
  <2>2. Less
    BY <2>1 DEF Working
  <2> QED BY <1>1, <1>a, <1>b, <1>d, <2>2 DEF Reshuffle
<1>2. ASSUME NEW h \in Handlers, NEW k \in Numbered, AskList(h, k) PROVE FreshNumbers'
  <2>1. \A g \in Handlers : Working(g)' => busy'[g] = busy[g]
    BY <1>2 DEF AskList, Working, DialogTyped, HandlersTyped, ListWork, Starting
  <2>2. Less
    BY <2>1 DEF Working
  <2> QED BY <1>2, <1>a, <1>b, <1>d, <2>2 DEF AskList
<1>3. ASSUME NEW h \in Handlers, ReadOptions(h) PROVE FreshNumbers'
  <2>1. Less
    BY <1>3 DEF ReadOptions, Working, DialogTyped, HandlersTyped, ListWork
  <2> QED BY <1>3, <1>a, <1>b, <1>d, <2>1 DEF ReadOptions
<1>4. ASSUME NEW h \in Handlers, KeepList(h) PROVE FreshNumbers'
  <2>1. Less
    BY <1>4 DEF KeepList, Working, DialogTyped, HandlersTyped, ListWork, AtRest
  <2>2. ASSUME NEW f, NEW k \in Numbered, NEW l, "cycles" \in DOMAIN f, "players" \in DOMAIN f
        PROVE  /\ [f EXCEPT !.state = k, !.lists[k] = l].cycles = f.cycles
               /\ [f EXCEPT !.state = k, !.lists[k] = l].players = f.players
    BY <2>2
  <2>3. Nos
    <3>1. busy[h].kind \in Numbered
      BY <1>4 DEF KeepList, DialogTyped, HandlersTyped, ListWork
    <3>2. \A f \in {fsm, Forgotten} : "cycles" \in DOMAIN f /\ "players" \in DOMAIN f
      BY DEF DialogTyped, Forgotten
    <3> QED BY <1>0, <1>4, <2>2, <3>1, <3>2 DEF KeepList, Kept
  <2> QED BY <1>4, <1>a, <1>d, <2>1, <2>3 DEF KeepList
<1>5. ASSUME NEW h \in Handlers, HandlerFails(h) \/ ShowList(h) PROVE FreshNumbers'
  BY <1>5, <1>a, <1>b, <1>d, <1>e DEF HandlerFails, ShowList, AtRest
<1>6. ASSUME NEW h \in Handlers, NEW i, TypeNumber(h, i) PROVE FreshNumbers'
  <2>1. Less
    BY <1>6, <1>c, <1>e DEF TypeNumber
  <2> QED BY <1>6, <1>a, <1>b, <1>d, <2>1 DEF TypeNumber
<1>7. ASSUME NEW h \in Handlers, SendReport(h) PROVE FreshNumbers'
  <2>1. Less
    BY <1>7, <1>e DEF SendReport, AtRest
  <2> QED BY <1>7, <1>a, <1>b, <1>d, <2>1 DEF SendReport
<1>8. ASSUME NEW h \in Handlers, Forget(h) PROVE FreshNumbers'
  <2>1. Less
    BY <1>8 DEF Forget, AtRest, Working, DialogTyped, HandlersTyped, ReportWork
  <2> QED BY <1>8, <1>a, <1>b, <1>d, <2>1 DEF Forget
<1>9. ASSUME NEW h \in Handlers, NEW report, NEW asked, NEW handed, NEW c,
             Run(h, report, asked, handed, c), Arrives, UNCHANGED board, fsm' = fsm \/ fsm' = Forgotten
      PROVE  FreshNumbers'
  BY <1>9, <1>b, NumberTaken DEF Run
<1>10. ASSUME NEW h \in Handlers, NEW m \in Keyboards, PressCycles(h, m)
       PROVE  FreshNumbers'
  BY <1>10, <1>b, NumberTaken DEF PressCycles
<1>11. ASSUME NEW h \in Handlers, RunReport(h) PROVE FreshNumbers'
  <2>1. Less /\ ~Working(h)' /\ Working(h)
    BY <1>11 DEF RunReport, Working, DialogTyped, HandlersTyped, ReportWork
  <2>2. CASE fsm' = fsm /\ board' = board
    BY <2>1, <2>2, <1>a, <1>b, <1>d
  <2>3. CASE ~(fsm' = fsm /\ board' = board)
    <3>1. /\ fsm'.cycles.no = fsm.cycles.no /\ fsm'.players.no = busy[h].no
      <4>1. fsm' = KeptPlayers(h)
        BY <1>11, <2>3 DEF RunReport
      <4>2. {"cycles", "players", "period"} \subseteq DOMAIN fsm
        BY DEF DialogTyped
      <4> QED BY <4>1, <4>2 DEF KeptPlayers
    <3>2. PICK m \in Keyboards : board' = [board EXCEPT ![m] =
               [kind |-> "players", period |-> busy[h].given[2],
                list |-> order, no |-> busy[h].no, page |-> 0]]
      BY <1>11, <2>3 DEF RunReport
    <3>3. \A n \in Keyboards : HasNumber(n)' => board'[n].no = busy[h].no \/ (HasNumber(n) /\ board'[n].no = board[n].no)
      BY <1>0, <3>2 DEF HasNumber
    <3>4. busy[h].no \in 1..requests /\ requests \in Nat
      BY <2>1 DEF FreshNumbers, DialogTyped
    <3> QED BY <1>0, <2>1, <3>1, <3>3, <3>4 DEF FreshNumbers
  <2> QED BY <2>2, <2>3
<1>12. ASSUME NEW h \in Handlers, NEW m \in Keyboards, NEW i, PressPlayer(h, m, i)
       PROVE  FreshNumbers'
  <2>1. Less
    BY <1>12, <1>c, <1>e DEF PressPlayer
  <2> QED BY <1>12, <1>a, <1>b, <1>d, <2>1 DEF PressPlayer
<1>13. CASE RestartDialogs
  <2>1. Less
    BY <1>13 DEF RestartDialogs, Working, AtRest
  <2> QED BY <1>13, <1>a, <1>b, <1>d, <2>1 DEF RestartDialogs
<1>14. CASE UNCHANGED <<board, busy>> /\ (fsm' = fsm \/ fsm' = Forgotten)
  BY <1>14, <1>a, <1>b, <1>c, <1>d
<1>15. ASSUME NEW h \in Handlers, NEW m \in Keyboards, NEW i, PressCycle(h, m, i)
       PROVE  FreshNumbers'
  BY <1>9, <1>14, <1>15 DEF PressCycle
<1>16. ASSUME NEW h \in Handlers, NEW m \in Keyboards, NEW n, PressPeriod(h, m, n)
       PROVE  FreshNumbers'
  BY <1>9, <1>16 DEF PressPeriod
<1>17. ASSUME NEW h \in Handlers, NEW n, TypeTo(h, n) PROVE FreshNumbers'
  BY <1>9, <1>17 DEF TypeTo
<1>18. ASSUME NEW h \in Handlers, ListCycles(h) PROVE FreshNumbers'
  <2>1. Less /\ ~Working(h)' /\ Working(h)
    BY <1>18, <1>e, <1>0 DEF ListCycles, Working, AtRest
  <2>2. CASE closed = 0
    BY <1>18, <2>1, <2>2, <1>a, <1>b, <1>d DEF ListCycles
  <2>3. CASE closed # 0
    <3>1. /\ fsm'.cycles.no = busy[h].no /\ fsm'.players.no = fsm.players.no
      BY <1>18, <2>3 DEF ListCycles, DialogTyped
    <3>3. \A n \in Keyboards : HasNumber(n)' => board'[n].no = busy[h].no \/ (HasNumber(n) /\ board'[n].no = board[n].no)
      BY <1>0, <1>18, <2>3 DEF HasNumber, ListCycles
    <3>4. busy[h].no \in 1..requests /\ requests \in Nat
      BY <2>1 DEF FreshNumbers, DialogTyped
    <3> QED BY <1>0, <2>1, <3>1, <3>3, <3>4 DEF FreshNumbers
  <2> QED BY <2>2, <2>3
<1>19. ASSUME NEW m \in Keyboards, NEW n, TurnPage(m, n) PROVE FreshNumbers'
  <2>1. Marked
    <3> QED BY <1>19, TurnedPage DEF HasNumber
  <2> QED BY <1>19, <1>a, <1>b, <1>c, <2>1 DEF TurnPage
<1>20. ASSUME fsm'.cycles = fsm.cycles, fsm'.players = fsm.players, UNCHANGED <<board, busy>>
       PROVE  FreshNumbers'
  BY <1>20, <1>a, <1>c, <1>d
<1>21. ASSUME NEW d, (\E m \in Keyboards : PressCustom(m)) \/ TypeFrom(d)
       PROVE  FreshNumbers'
  BY <1>20, <1>21 DEF PressCustom, TypeFrom, DialogTyped
<1>22. CASE StepBack
  <2>1. CASE UNCHANGED board
    BY <1>20, <1>22, <2>1, <1>14 DEF StepBack, DialogTyped
  <2>2. CASE board' # board
    <3>1. Marked
      BY <1>22, <2>2, <1>f DEF StepBack
    <3>2. Nos
      BY <1>22, <2>2, <1>b DEF StepBack
    <3> QED BY <1>22, <3>1, <3>2, <1>a, <1>c DEF StepBack
  <2> QED BY <2>1, <2>2
<1>23. ASSUME NEW m \in Keyboards, NEW r, OpenReport(m, r) \/ CloseMessage(m)
       PROVE  FreshNumbers'
  <2>1. Marked
    BY <1>23, <1>f DEF OpenReport, CloseMessage, Removed
  <2> QED BY <1>23, <2>1, <1>a, <1>b, <1>c DEF OpenReport, CloseMessage
<1> QED
  BY <1>1, <1>2, <1>3, <1>4, <1>5, <1>6, <1>7, <1>8, <1>10, <1>11, <1>12, <1>13, <1>14, <1>15, <1>16,
     <1>17, <1>18, <1>19, <1>21, <1>22, <1>23
  DEF DialogsNext, NumberedNext, PanelNext, CompleteCycle, ClearDialogue, dialogVars

\* Starting a dialogue leaves the panel's data or loses it.
LEMMA KeptPanel ==
  ASSUME DialogTyped, NEW h \in Handlers, KeepList(h)
  PROVE  \E f \in {fsm, Forgotten} :
           /\ fsm'.cycles = f.cycles /\ fsm'.players = f.players /\ fsm'.period = f.period
<1>1. busy[h].kind \in Numbered
  BY DEF KeepList, DialogTyped, HandlersTyped, ListWork
<1>2. \A f \in {fsm, Forgotten} : {"cycles", "players", "period"} \subseteq DOMAIN f
  BY DEF DialogTyped, Forgotten
<1>3. ASSUME NEW f \in {fsm, Forgotten}, NEW k \in Numbered, NEW l
      PROVE  /\ [f EXCEPT !.state = k, !.lists[k] = l].cycles = f.cycles
             /\ [f EXCEPT !.state = k, !.lists[k] = l].players = f.players
             /\ [f EXCEPT !.state = k, !.lists[k] = l].period = f.period
  BY <1>2
<1>4. PICK f \in {fsm, Forgotten} : \E l :
        fsm' = f \/ fsm' = [f EXCEPT !.state = busy[h].kind, !.lists[busy[h].kind] = l]
  BY DEF KeepList, Kept
<1>5. CASE fsm' = f
  BY <1>5
<1>6. CASE \E l : fsm' = [f EXCEPT !.state = busy[h].kind, !.lists[busy[h].kind] = l]
  <2> DEFINE k == busy[h].kind
  <2>1. k \in Numbered /\ \E l : fsm' = [f EXCEPT !.state = k, !.lists[k] = l]
    BY <1>1, <1>6
  <2> HIDE DEF k
  <2> QED BY <2>1, <1>3
<1> QED BY <1>4, <1>5, <1>6

\* Lists of the same number stay the same, since only the handler whose number
\* is fresh brings a new list, to the data and to a message alike.
LEMMA SameStep ==
  ASSUME DialogTyped, FreshNumbers, SameNumberSameList, [DialogsNext]_dialogVars
  PROVE  SameNumberSameList'
<1> DEFINE DataKept == fsm'.cycles = fsm.cycles /\ fsm'.players = fsm.players /\ fsm'.period = fsm.period
           DataLost == fsm'.cycles = NoList /\ fsm'.players = NoList
           Messages == \A m \in Keyboards : HasNumber(m)' => board'[m] = board[m]
<1>0. /\ DOMAIN board = Keyboards /\ {"cycles", "players", "period"} \subseteq DOMAIN fsm
      /\ Forgotten.cycles = NoList /\ Forgotten.players = NoList
  BY DEF DialogTyped, BoardTyped, Forgotten
<1>a. ASSUME DataKept \/ DataLost, Messages PROVE SameNumberSameList'
  BY <1>a DEF SameNumberSameList, HasNumber, NoList
<1>b. fsm' \in {fsm, Forgotten} => DataKept \/ DataLost
  BY <1>0
<1>c. board' = board => Messages
  OBVIOUS
<1>d. ASSUME NEW m \in Keyboards, NEW b, board' = [board EXCEPT ![m] = b], b.kind \notin {"cycles", "players"}
      PROVE  Messages
  BY <1>0, <1>d DEF HasNumber
<1>1. ASSUME NEW h \in Handlers, KeepList(h) PROVE SameNumberSameList'
  <2>1. DataKept \/ DataLost
    BY <1>0, <1>1, KeptPanel
  <2> QED BY <1>1, <2>1, <1>a, <1>c DEF KeepList
<1>2. ASSUME NEW h \in Handlers, ListCycles(h) PROVE SameNumberSameList'
  <2>1. CASE closed = 0
    BY <1>2, <2>1, <1>a, <1>b, <1>c DEF ListCycles
  <2>2. CASE closed # 0
    <3>1. /\ fsm'.cycles.no = busy[h].no /\ fsm'.cycles.list = Completed
          /\ fsm'.players = fsm.players /\ fsm'.period = fsm.period
      BY <1>0, <1>2, <2>2 DEF ListCycles
    <3>2. \A n \in Keyboards : HasNumber(n)' =>
             \/ board'[n] = board[n]
             \/ /\ board'[n].kind = "cycles" /\ board'[n].list = Completed
                /\ board'[n].no = busy[h].no
      BY <1>0, <1>2, <2>2 DEF ListCycles, HasNumber
    <3>3. /\ busy[h].no \in 1..requests /\ requests \in Nat
          /\ \A n \in Keyboards : HasNumber(n) => board[n].no # busy[h].no
      BY <1>2 DEF ListCycles, FreshNumbers, Working, DialogTyped
    <3> QED BY <3>1, <3>2, <3>3 DEF SameNumberSameList, HasNumber
  <2> QED BY <2>1, <2>2
<1>3. ASSUME NEW h \in Handlers, RunReport(h) PROVE SameNumberSameList'
  <2>1. CASE fsm' = fsm /\ board' = board
    BY <2>1, <1>a, <1>b, <1>c
  <2>2. CASE ~(fsm' = fsm /\ board' = board)
    <3>0. fsm' = KeptPlayers(h)
      BY <1>3, <2>2 DEF RunReport
    <3>1. /\ fsm'.players.no = busy[h].no /\ fsm'.players.list = order
          /\ fsm'.cycles = fsm.cycles /\ fsm'.period = busy[h].given[2]
      BY <1>0, <3>0 DEF KeptPlayers
    <3>2. PICK m \in Keyboards : board' = [board EXCEPT ![m] =
               [kind |-> "players", period |-> busy[h].given[2],
                list |-> order, no |-> busy[h].no, page |-> 0]]
      BY <1>3, <2>2 DEF RunReport
    <3>3. \A n \in Keyboards : HasNumber(n)' =>
             \/ board'[n] = board[n]
             \/ /\ board'[n].kind = "players" /\ board'[n].list = order
                /\ board'[n].no = busy[h].no /\ board'[n].period = busy[h].given[2]
      BY <1>0, <3>2 DEF HasNumber
    <3>4. /\ busy[h].no \in 1..requests /\ requests \in Nat
          /\ \A n \in Keyboards : HasNumber(n) => board[n].no # busy[h].no
      BY <1>3 DEF RunReport, FreshNumbers, Working, DialogTyped
    <3> QED BY <3>1, <3>3, <3>4 DEF SameNumberSameList, HasNumber
  <2> QED BY <2>1, <2>2
<1>4. ASSUME NEW m \in Keyboards, NEW n, TurnPage(m, n) PROVE SameNumberSameList'
  <2>1. fsm' = fsm
    BY <1>4 DEF TurnPage
  <2> QED BY <1>4, <2>1, TurnedPage DEF SameNumberSameList, HasNumber
<1>5. ASSUME NEW d, (\E m \in Keyboards : PressCustom(m)) \/ TypeFrom(d)
      PROVE  SameNumberSameList'
  <2>1. DataKept /\ board' = board
    BY <1>0, <1>5 DEF PressCustom, TypeFrom
  <2> QED BY <2>1, <1>a, <1>c
<1>6. CASE StepBack
  <2>1. DataKept \/ DataLost
    BY <1>0, <1>6 DEF StepBack
  <2>2. Messages
    BY <1>6, <1>c, <1>d DEF StepBack
  <2> QED BY <2>1, <2>2, <1>a
<1>7. ASSUME NEW m \in Keyboards, NEW r, OpenReport(m, r) \/ CloseMessage(m)
      PROVE  SameNumberSameList'
  <2>1. Messages
    BY <1>7, <1>d DEF OpenReport, CloseMessage, Removed
  <2> QED BY <1>7, <2>1, <1>a, <1>b DEF OpenReport, CloseMessage
<1>8. CASE board' = board /\ fsm' \in {fsm, Forgotten}
  BY <1>8, <1>a, <1>b, <1>c
<1> QED
  BY <1>1, <1>2, <1>3, <1>4, <1>5, <1>6, <1>7, <1>8
  DEF DialogsNext, NumberedNext, PanelNext, Reshuffle, CompleteCycle, RestartDialogs, AskList,
      ReadOptions, ShowList, TypeNumber, SendReport, Forget, HandlerFails, ClearDialogue,
      PressPeriod, PressCycles, PressCycle, TypeTo, PressPlayer, dialogVars

\* A list that is shown is the one that is kept, if only one was asked for.
LEMMA ListsStep ==
  ASSUME DialogTyped, ListsAgree, [DialogsNext]_dialogVars
  PROVE  ListsAgree'
<1> DEFINE Gone  == \A h \in Handlers : Starting(h)' => busy'[h] = busy[h]
           Hidden == \A h \in Handlers : busy[h].step = "show" => busy'[h] = busy[h]
           StateLeft  == fsm'.state \in Numbered => fsm'.state = fsm.state /\ fsm'.lists = fsm.lists
<1>0. DOMAIN busy = Handlers /\ Forgotten.state \notin Numbered
      /\ {"state", "lists"} \subseteq DOMAIN fsm
  BY DEF DialogTyped, HandlersTyped, Forgotten, Numbered
<1>a. ASSUME Gone, Hidden, StateLeft, UNCHANGED <<order, last>> PROVE ListsAgree'
  BY <1>a DEF ListsAgree, Starting
<1>b. fsm' \in {fsm, Forgotten} => StateLeft
  BY <1>0
<1>c. ASSUME NEW h \in Handlers, NEW w, busy' = [busy EXCEPT ![h] = w], w.step \notin {"options", "text", "show"}
      PROVE  Gone /\ (busy[h].step # "show" => Hidden)
  BY <1>0, <1>c DEF Starting
<1>d. busy' = busy => Gone /\ Hidden
  OBVIOUS
<1>1. ASSUME NEW o \in Orders, Reshuffle(o) PROVE ListsAgree'
  <2>1. ASSUME NEW h \in Handlers
        PROVE  /\ busy[h].step # "text" => busy'[h] = busy[h]
               /\ busy[h].step = "text" => ~busy'[h].clean /\ busy'[h].step = "text"
    BY <1>0, <1>1 DEF Reshuffle, DialogTyped, HandlersTyped, ListWork
  <2>2. fsm' = fsm /\ last' = last
    BY <1>1 DEF Reshuffle
  <2> QED BY <2>1, <2>2 DEF ListsAgree, Starting
<1>2. ASSUME NEW h \in Handlers, NEW k \in Numbered, AskList(h, k) PROVE ListsAgree'
  <2>1. ASSUME NEW g \in Handlers, g # h
        PROVE  /\ ~Starting(g) => busy'[g] = busy[g]
               /\ Starting(g) => ~busy'[g].clean /\ busy'[g].step = busy[g].step
    BY <1>0, <1>2, <2>1 DEF AskList, DialogTyped, HandlersTyped, ListWork, Starting
  <2>2. /\ busy[h] = AtRest /\ busy'[h].step # "show" /\ busy'[h].kind = k
        /\ busy'[h].step = "text" => k \notin {"violations", "all"}
        /\ busy'[h].clean => \A g \in Handlers : ~Starting(g)
    <3>1. busy'[h] = [step |-> IF k \in {"violations", "all"} THEN "options" ELSE "text",
                      kind |-> k, list |-> <<>>, clean |-> \A g \in Handlers : ~Starting(g)]
      BY <1>0, <1>2 DEF AskList
    <3>2. busy'[h].clean = (\A g \in Handlers : ~Starting(g))
      BY <3>1
    <3> QED BY <1>2, <3>1, <3>2 DEF AskList
  <2>3. UNCHANGED <<fsm, last, order>>
    BY <1>2 DEF AskList, world
  <2> QED BY <2>1, <2>2, <2>3 DEF ListsAgree, Starting, AtRest
<1>3. ASSUME NEW h \in Handlers, ReadOptions(h) PROVE ListsAgree'
  <2>1. /\ busy'[h].step = "text" /\ busy'[h].list = order /\ busy[h].step = "options"
        /\ busy'[h].clean = busy[h].clean /\ \A g \in Handlers : g # h => busy'[g] = busy[g]
    BY <1>0, <1>3 DEF ReadOptions, DialogTyped, HandlersTyped, ListWork
  <2>2. UNCHANGED <<fsm, last, order>>
    BY <1>3 DEF ReadOptions, world
  <2> QED BY <2>1, <2>2 DEF ListsAgree, Starting
<1>4. ASSUME NEW h \in Handlers, KeepList(h) PROVE ListsAgree'
  <2> DEFINE k == busy[h].kind
             options == IF k \in {"violations", "all"} THEN busy[h].list ELSE order
             base == IF k = "all" THEN Forgotten ELSE fsm
  <2>0. k \in Numbered /\ busy[h].step = "text" /\ UNCHANGED <<last, order>>
    BY <1>4 DEF KeepList, DialogTyped, HandlersTyped, ListWork, world
  <2>1. CASE Opens(k, options)
    <3>1. fsm' = [base EXCEPT !.state = k, !.lists[k] = options]
          /\ busy' = [busy EXCEPT ![h].step = "show", ![h].list = order]
      BY <1>4, <2>1 DEF KeepList, Kept
    <3>2. "state" \in DOMAIN base /\ "lists" \in DOMAIN base /\ DOMAIN base.lists = Numbered
      BY DEF DialogTyped, Forgotten
    <3>3. fsm'.state = k /\ fsm'.lists[k] = options
      <4> HIDE DEF base, options, k
      <4> QED BY <2>0, <3>1, <3>2
    <3>4. /\ busy'[h].step = "show" /\ busy'[h].list = order /\ busy'[h].clean = busy[h].clean /\ busy'[h].kind = k
          /\ \A g \in Handlers : g # h => busy'[g] = busy[g]
      BY <1>0, <2>0, <3>1 DEF DialogTyped, HandlersTyped, ListWork
    <3>5. busy[h].clean => options = order
      BY <2>0 DEF ListsAgree, Starting
    <3> HIDE DEF options, k
    <3> QED BY <2>0, <3>3, <3>4, <3>5 DEF ListsAgree, Starting
  <2>2. CASE ~Opens(k, options)
    <3>1. fsm' = base /\ busy' = [busy EXCEPT ![h] = AtRest]
      BY <1>4, <2>2 DEF KeepList, Kept
    <3>2. Gone /\ Hidden
      BY <1>c, <2>0, <3>1 DEF AtRest
    <3> QED BY <1>a, <1>b, <2>0, <3>1, <3>2
  <2> QED BY <2>1, <2>2
<1>5. ASSUME NEW h \in Handlers, ShowList(h) PROVE ListsAgree'
  <2>1. /\ last'.kind = busy[h].kind /\ last'.list = busy[h].list /\ last'.clean = busy[h].clean
        /\ busy[h].step = "show" /\ busy'[h] = AtRest /\ UNCHANGED <<fsm, order>>
        /\ \A g \in Handlers : g # h => busy'[g] = busy[g]
    BY <1>0, <1>5 DEF ShowList, world
  <2> QED BY <2>1 DEF ListsAgree, Starting, AtRest
<1>6. ASSUME NEW h \in Handlers, HandlerFails(h) PROVE ListsAgree'
  <2>1. /\ last'.kind = last.kind /\ last'.list = last.list /\ (last'.clean => last.clean /\ busy[h].step # "show")
        /\ busy'[h] = AtRest /\ fsm' \in {fsm, Forgotten} /\ order' = order
        /\ \A g \in Handlers : g # h => busy'[g] = busy[g]
    BY <1>0, <1>6 DEF HandlerFails, world, DialogTyped
  <2> QED BY <1>b, <2>1 DEF ListsAgree, Starting, AtRest
<1>7. ASSUME NEW h \in Handlers, NEW i, TypeNumber(h, i) PROVE ListsAgree'
  <2>1. Gone /\ Hidden
    BY <1>7, <1>c, <1>d DEF TypeNumber, AtRest
  <2> QED BY <1>7, <2>1, <1>a, <1>b DEF TypeNumber, world
<1>8. ASSUME NEW h \in Handlers, SendReport(h) PROVE ListsAgree'
  <2>1. Gone /\ Hidden
    BY <1>8, <1>c DEF SendReport, AtRest
  <2> QED BY <1>8, <2>1, <1>a, <1>b DEF SendReport, world
<1>9. ASSUME NEW h \in Handlers, Forget(h) PROVE ListsAgree'
  <2>1. /\ ~Starting(h)' /\ busy[h].step # "show" /\ \A g \in Handlers : g # h => busy'[g] = busy[g]
    BY <1>0, <1>9 DEF Forget, AtRest, Starting, DialogTyped, HandlersTyped, ReportWork
  <2> QED BY <1>9, <2>1, <1>a, <1>b DEF Forget, world
<1>10. ASSUME NEW h \in Handlers, NEW report, NEW asked, NEW handed, NEW c,
              Run(h, report, asked, handed, c), busy[h] = AtRest, UNCHANGED <<order, last>>, fsm' \in {fsm, Forgotten}
       PROVE  ListsAgree'
  <2>1. Gone /\ Hidden
    <3> DEFINE w == [step |-> "run", from |-> "panel", no |-> requests',
                     asked |-> <<report, asked>>, given |-> <<report, handed>>, clean |-> c]
    <3>1. busy' = [busy EXCEPT ![h] = w] /\ w.step = "run"
      BY <1>10 DEF Run
    <3>2. busy[h].step # "show"
      BY <1>10 DEF AtRest
    <3> HIDE DEF Gone, Hidden, w
    <3> QED BY <3>1, <3>2, <1>c
  <2> QED BY <1>10, <2>1, <1>a, <1>b
<1>11. ASSUME NEW h \in Handlers, NEW m \in Keyboards, PressCycles(h, m)
       PROVE  ListsAgree'
  <2>1. Gone /\ Hidden
    <3> DEFINE w == [step |-> "cycles", on |-> m, report |-> board[m].report, no |-> requests']
    <3>1. busy' = [busy EXCEPT ![h] = w] /\ w.step = "cycles"
      BY <1>11 DEF PressCycles
    <3>2. busy[h].step # "show"
      BY <1>11 DEF PressCycles, AtRest
    <3> HIDE DEF Gone, Hidden, w
    <3> QED BY <3>1, <3>2, <1>c
  <2> QED BY <1>11, <2>1, <1>a, <1>b DEF PressCycles, world
<1>12. ASSUME NEW h \in Handlers, RunReport(h) PROVE ListsAgree'
  <2>1. /\ ~Starting(h)' /\ busy[h].step # "show" /\ \A g \in Handlers : g # h => busy'[g] = busy[g]
    BY <1>0, <1>12 DEF RunReport, Starting, DialogTyped, HandlersTyped, ReportWork
  <2>2. StateLeft
    BY <1>0, <1>12 DEF RunReport, KeptPlayers
  <2> QED BY <1>12, <2>1, <2>2, <1>a DEF RunReport, world
<1>13. ASSUME NEW h \in Handlers, ListCycles(h) PROVE ListsAgree'
  <2>1. Gone /\ Hidden
    BY <1>13, <1>c DEF ListCycles, AtRest
  <2>2. StateLeft
    BY <1>0, <1>13 DEF ListCycles
  <2> QED BY <1>13, <2>1, <2>2, <1>a DEF ListCycles, world
<1>14. ASSUME NEW h \in Handlers, NEW m \in Keyboards, NEW i, PressPlayer(h, m, i)
       PROVE  ListsAgree'
  <2>1. Gone /\ Hidden
    BY <1>14, <1>c, <1>d DEF PressPlayer, AtRest
  <2> QED BY <1>14, <2>1, <1>a, <1>b DEF PressPlayer, world
<1>15. CASE RestartDialogs
  <2>1. \A h \in Handlers : busy'[h] = AtRest
    BY <1>15 DEF RestartDialogs
  <2>2. fsm'.state \notin Numbered
    BY <1>0, <1>15 DEF RestartDialogs
  <2> QED BY <2>1, <2>2 DEF ListsAgree, Starting, AtRest
<1>16. CASE UNCHANGED <<order, last, busy>> /\ fsm' \in {fsm, Forgotten}
  BY <1>16, <1>a, <1>b, <1>d
<1>17. ASSUME NEW h \in Handlers, NEW m \in Keyboards, NEW i, PressCycle(h, m, i)
       PROVE  ListsAgree'
  BY <1>10, <1>16, <1>17 DEF PressCycle, world
<1>18. ASSUME NEW h \in Handlers, NEW m \in Keyboards, NEW n, PressPeriod(h, m, n)
       PROVE  ListsAgree'
  BY <1>10, <1>18 DEF PressPeriod, world
<1>19. ASSUME NEW h \in Handlers, NEW n, TypeTo(h, n) PROVE ListsAgree'
  BY <1>10, <1>19 DEF TypeTo, world
<1>20. ASSUME NEW d, (\E m \in Keyboards : PressCustom(m)) \/ TypeFrom(d) \/ StepBack
       PROVE  ListsAgree'
  <2>1. StateLeft
    BY <1>0, <1>20 DEF PressCustom, TypeFrom, StepBack, Numbered
  <2> QED BY <1>20, <2>1, <1>a, <1>d DEF PressCustom, TypeFrom, StepBack, world
<1> QED
  BY <1>1, <1>2, <1>3, <1>4, <1>5, <1>6, <1>7, <1>8, <1>9, <1>11, <1>12, <1>13, <1>14, <1>15, <1>16,
     <1>17, <1>18, <1>19, <1>20
  DEF DialogsNext, NumberedNext, PanelNext, CompleteCycle, ClearDialogue, OpenReport, CloseMessage, TurnPage, dialogVars, world

\* The handlers that carry a report.
Reporting(h) == busy[h].step \in {"run", "forget", "send"}

\* A handler looks up what its message or list shows, for their numbers or
\* contents agree.
LEMMA AskedStep ==
  ASSUME DialogTyped, SameNumberSameList, ListsAgree, Asked, [DialogsNext]_dialogVars PROVE Asked'
<1> DEFINE AnswerOK == answer'.clean => answer'.given = answer'.asked
           Carried == \A h \in Handlers :
             (Reporting(h)' /\ busy'[h].clean) => busy'[h].given = busy'[h].asked
           Went(h) == Reporting(h) /\ (busy'[h].clean => busy[h].clean)
                      /\ busy'[h].given = busy[h].given /\ busy'[h].asked = busy[h].asked
<1>0. DOMAIN busy = Handlers
  BY DEF DialogTyped, HandlersTyped
<1>a. ASSUME AnswerOK, Carried PROVE Asked'
  BY <1>a DEF Asked, AnswersWhatWasAsked, Reporting
<1>b. answer' = answer => AnswerOK
  BY DEF Asked, AnswersWhatWasAsked
<1>c. ASSUME \A h \in Handlers : Reporting(h)' => Went(h) \/ busy'[h] = busy[h]
      PROVE  Carried
  BY <1>c DEF Asked, Reporting
<1>d. ASSUME NEW h \in Handlers, NEW w, busy' = [busy EXCEPT ![h] = w],
             w.step \notin {"run", "forget", "send"} \/ (w.clean => w.given = w.asked)
      PROVE  Carried
  BY <1>0, <1>d DEF Asked, Reporting
<1>1. ASSUME NEW o \in Orders, Reshuffle(o) PROVE Asked'
  <2>1. \A h \in Handlers : Reporting(h)' => busy'[h] = busy[h]
    BY <1>0, <1>1 DEF Reshuffle, Reporting, DialogTyped, HandlersTyped, ListWork
  <2> QED BY <1>1, <2>1, <1>a, <1>b, <1>c DEF Reshuffle
<1>2. ASSUME NEW h \in Handlers, NEW k \in Numbered, AskList(h, k) PROVE Asked'
  <2>1. \A g \in Handlers : Reporting(g)' => busy'[g] = busy[g]
    BY <1>0, <1>2 DEF AskList, Reporting, Starting, DialogTyped, HandlersTyped, ListWork
  <2> QED BY <1>2, <2>1, <1>a, <1>b, <1>c DEF AskList
<1>3. ASSUME NEW h \in Handlers, ReadOptions(h) PROVE Asked'
  <2>1. \A g \in Handlers : Reporting(g)' => busy'[g] = busy[g]
    BY <1>0, <1>3 DEF ReadOptions, Reporting, DialogTyped, HandlersTyped, ListWork
  <2> QED BY <1>3, <2>1, <1>a, <1>b, <1>c DEF ReadOptions
<1>4. ASSUME NEW h \in Handlers, KeepList(h) PROVE Asked'
  <2>1. \A g \in Handlers : Reporting(g)' => busy'[g] = busy[g]
    BY <1>0, <1>4 DEF KeepList, Reporting, AtRest, DialogTyped, HandlersTyped, ListWork
  <2> QED BY <1>4, <2>1, <1>a, <1>b, <1>c DEF KeepList
<1>5. ASSUME NEW h \in Handlers, HandlerFails(h) \/ ShowList(h) \/ ListCycles(h)
      PROVE  Asked'
  <2>1. Carried
    BY <1>5, <1>d DEF HandlerFails, ShowList, ListCycles, AtRest
  <2> QED BY <1>5, <2>1, <1>a, <1>b DEF HandlerFails, ShowList, ListCycles
<1>6. ASSUME NEW h \in Handlers, NEW i, TypeNumber(h, i) PROVE Asked'
  <2> DEFINE k == fsm.state
             alone == \A g \in Handlers : ~Starting(g)
             c == last.clean /\ alone
             asked == <<last.kind, last.list[i]>>
             handed == <<k, fsm.lists[k][i]>>
             w == [step  |-> IF k = "contribution" THEN "forget" ELSE "send", from |-> k,
                   asked |-> asked, given |-> handed, clean |-> c]
  <2>1. c => asked = handed
    BY <1>6 DEF TypeNumber, ListsAgree, Starting
  <2>2. w.clean = c /\ w.given = handed /\ w.asked = asked
    <3> HIDE DEF c, asked, handed
    <3> QED OBVIOUS
  <2>3. busy' = busy \/ busy' = [busy EXCEPT ![h] = w]
    BY <1>6 DEF TypeNumber
  <2>4. Carried
    <3> HIDE DEF w, asked, handed, c, Carried
    <3>1. CASE busy' = busy
      BY <3>1, <1>c
    <3> QED BY <2>1, <2>2, <2>3, <3>1, <1>d
  <2> QED BY <1>6, <2>4, <1>a, <1>b DEF TypeNumber
<1>7. ASSUME NEW h \in Handlers, SendReport(h) PROVE Asked'
  <2>1. \A g \in Handlers : Reporting(g)' => busy'[g] = busy[g]
    BY <1>0, <1>7 DEF SendReport, AtRest, Reporting
  <2>2. AnswerOK
    BY <1>7 DEF SendReport, Asked
  <2> QED BY <2>1, <2>2, <1>a, <1>c
<1>8. ASSUME NEW h \in Handlers, Forget(h) PROVE Asked'
  <2>1. \A g \in Handlers : Reporting(g)' => Went(g) \/ busy'[g] = busy[g]
    BY <1>0, <1>8 DEF Forget, Reporting, AtRest, DialogTyped, HandlersTyped, ReportWork
  <2> QED BY <1>8, <2>1, <1>a, <1>b, <1>c DEF Forget
<1>9. ASSUME NEW h \in Handlers, NEW report, NEW asked, NEW handed, NEW c \in BOOLEAN,
             Run(h, report, asked, handed, c), c => handed = asked, UNCHANGED answer
      PROVE  Asked'
  <2> DEFINE w == [step |-> "run", from |-> "panel", no |-> requests',
                   asked |-> <<report, asked>>, given |-> <<report, handed>>, clean |-> c]
  <2>1. busy' = [busy EXCEPT ![h] = w] /\ (w.clean => w.given = w.asked)
    BY <1>9 DEF Run
  <2> HIDE DEF w, Carried
  <2>2. Carried
    BY <2>1, <1>d
  <2> QED BY <1>9, <2>2, <1>a, <1>b
<1>10. ASSUME NEW h \in Handlers, NEW m \in Keyboards, PressCycles(h, m) PROVE Asked'
  <2> DEFINE w == [step |-> "cycles", on |-> m, report |-> board[m].report, no |-> requests']
  <2>1. busy' = [busy EXCEPT ![h] = w] /\ w.step = "cycles"
    BY <1>10 DEF PressCycles
  <2> HIDE DEF w, Carried
  <2>2. Carried
    BY <2>1, <1>d
  <2> QED BY <1>10, <2>2, <1>a, <1>b DEF PressCycles
<1>11. ASSUME NEW h \in Handlers, RunReport(h) PROVE Asked'
  <2>1. \A g \in Handlers : Reporting(g)' => Went(g) \/ busy'[g] = busy[g]
    BY <1>0, <1>11 DEF RunReport, Reporting, DialogTyped, HandlersTyped, ReportWork
  <2> QED BY <1>11, <2>1, <1>a, <1>b, <1>c DEF RunReport
<1>12. ASSUME NEW h \in Handlers, NEW m \in Keyboards, NEW i, PressPlayer(h, m, i)
       PROVE  Asked'
  <2> DEFINE asked == <<board[m].period, board[m].list[i]>>
             handed == <<fsm.period, fsm.players.list[i]>>
             c == board[m].no = fsm.players.no
             w == [step |-> "send", from |-> "panel", no |-> 0, asked |-> asked, given |-> handed, clean |-> c]
  <2>1. c => asked = handed
    BY <1>12 DEF PressPlayer, SameNumberSameList
  <2>2. (w.clean = c) /\ w.given = handed /\ w.asked = asked
    <3> HIDE DEF c, asked, handed
    <3> QED OBVIOUS
  <2>3. busy' = busy \/ busy' = [busy EXCEPT ![h] = w]
    BY <1>12 DEF PressPlayer
  <2>4. Carried
    <3> HIDE DEF w, asked, handed, c, Carried
    <3>1. CASE busy' = busy
      BY <3>1, <1>c
    <3> QED BY <2>1, <2>2, <2>3, <3>1, <1>d
  <2> QED BY <1>12, <2>4, <1>a, <1>b DEF PressPlayer
<1>13. CASE RestartDialogs
  <2>1. Carried
    BY <1>13 DEF RestartDialogs, Reporting, AtRest
  <2> QED BY <1>13, <2>1, <1>a, <1>b DEF RestartDialogs
<1>14. CASE UNCHANGED <<busy, answer>>
  BY <1>14, <1>a, <1>b, <1>c
<1>15. ASSUME NEW h \in Handlers, NEW m \in Keyboards, NEW i, PressCycle(h, m, i)
       PROVE  Asked'
  <2>1. (board[m].no = fsm.cycles.no) \in BOOLEAN
    OBVIOUS
  <2>2. board[m].no = fsm.cycles.no => board[m].list[i] = fsm.cycles.list[i]
    BY <1>15 DEF PressCycle, SameNumberSameList
  <2> QED BY <1>9, <1>14, <1>15, <2>1, <2>2 DEF PressCycle
<1>16. ASSUME NEW h \in Handlers, NEW m \in Keyboards, NEW n, PressPeriod(h, m, n)
       PROVE  Asked'
  BY <1>9, <1>16 DEF PressPeriod
<1>17. ASSUME NEW h \in Handlers, NEW n, TypeTo(h, n) PROVE Asked'
  BY <1>9, <1>17 DEF TypeTo
<1> QED
  BY <1>1, <1>2, <1>3, <1>4, <1>5, <1>6, <1>7, <1>8, <1>10, <1>11, <1>12, <1>13, <1>14, <1>15, <1>16, <1>17
  DEF DialogsNext, NumberedNext, PanelNext, CompleteCycle, ClearDialogue, OpenReport, CloseMessage,
      TurnPage, PressCustom, TypeFrom, StepBack, dialogVars

\* The inductive invariant.
DialogsInv == DialogTyped /\ FreshNumbers /\ SameNumberSameList /\ ListsAgree /\ Asked

\* Whatever administrators type and press, whenever rankings change and the
\* process restarts, a report answers what was asked for.
THEOREM AnswersAsAsked == DialogsSpec => []AnswersWhatWasAsked
<1>1. DialogsInit => DialogsInv
  BY DialogsBegin DEF DialogsInv
<1>2. DialogsInv /\ [DialogsNext]_dialogVars => DialogsInv'
  BY TypedStep, NumbersStep, SameStep, ListsStep, AskedStep DEF DialogsInv
<1>3. DialogsInv => AnswersWhatWasAsked
  BY DEF DialogsInv, Asked
<1> QED BY <1>1, <1>2, <1>3, PTL DEF DialogsSpec

-----------------------------------------------------------------------------
(* Recursive functions over numbers and over finite sets; sums.             *)

\* A set of numbers with 0 that has with each its successor has all of them.
LEMMA AllNaturals ==
  ASSUME NEW T, 0 \in T, \A n \in Nat : n \in T => n + 1 \in T
  PROVE  Nat \subseteq T
<1> SUFFICES ASSUME Nat \ T # {} PROVE FALSE
  OBVIOUS
<1>1. PICK n \in Nat \ T : \A m \in Nat \ T : n <= m
  BY LeastNatural
<1>2. n - 1 \in Nat /\ n - 1 \in T
  BY <1>1
<1> QED BY <1>1, <1>2

\* A recursion over the subsets of a finite set that removes one element after
\* the other has a solution.
FoldSolved(f, D, A, base, step, pick) ==
  f = [s \in SUBSET D |-> IF s = {} THEN base ELSE step[<<f[s \ {pick[s]}], pick[s]>>]]

\* Such a recursion has a solution, whatever is picked first.
LEMMA FoldExists ==
  ASSUME NEW D, IsFiniteSet(D), NEW A, NEW base \in A, NEW step \in [A \X D -> A],
         NEW pick, \A s \in SUBSET D : s # {} => pick[s] \in s
  PROVE  \E f \in [SUBSET D -> A] : FoldSolved(f, D, A, base, step, pick)
<1> DEFINE Upto(k) == {s \in SUBSET D : Cardinality(s) <= k}
           Value(f, s) == IF s = {} THEN base ELSE step[<<f[s \ {pick[s]}], pick[s]>>]
           Good(f, k) == f \in [SUBSET D -> A] /\ \A s \in Upto(k) : f[s] = Value(f, s)
           Done == {k \in Nat : \E f \in [SUBSET D -> A] : \A s \in Upto(k) : f[s] = Value(f, s)}
<1>0. \A s \in SUBSET D : IsFiniteSet(s) /\ Cardinality(s) \in Nat
  BY FS_Subset, FS_CardinalityType
<1>1. \A s \in SUBSET D : s # {} => s \ {pick[s]} \in SUBSET D /\ Cardinality(s \ {pick[s]}) = Cardinality(s) - 1
  BY <1>0, FS_RemoveElement
<1>2. 0 \in Done
  <2> DEFINE f == [s \in SUBSET D |-> base]
  <2>1. \A s \in Upto(0) : s = {}
    BY <1>0, FS_EmptySet
  <2>2. f \in [SUBSET D -> A]
    OBVIOUS
  <2>3. \A s \in Upto(0) : f[s] = Value(f, s)
    BY <2>1
  <2> QED BY <2>2, <2>3
<1>3. ASSUME NEW k \in Nat, k \in Done PROVE k + 1 \in Done
  <2>1. PICK f \in [SUBSET D -> A] : \A s \in Upto(k) : f[s] = Value(f, s)
    BY <1>3
  <2> DEFINE g == [s \in SUBSET D |-> Value(f, s)]
  <2>2. \A s \in SUBSET D : Value(f, s) \in A
    BY <1>1
  <2>3. g \in [SUBSET D -> A]
    BY <2>2
  <2>4. \A s \in Upto(k) : g[s] = f[s]
    BY <2>1
  <2>5. ASSUME NEW s \in Upto(k + 1) PROVE g[s] = Value(g, s)
    <3>1. CASE s = {}
      BY <3>1
    <3>2. CASE s # {}
      <4>1. s \ {pick[s]} \in Upto(k)
        BY <1>0, <1>1, <3>2
      <4>2. g[s \ {pick[s]}] = f[s \ {pick[s]}]
        BY <4>1, <2>4
      <4> HIDE DEF Upto
      <4>3. s \in SUBSET D
        BY DEF Upto
      <4> QED BY <4>2, <4>3, <3>2
    <3> QED BY <3>1, <3>2
  <2> HIDE DEF g, Value, Upto
  <2>6. \E h \in [SUBSET D -> A] : \A s \in Upto(k + 1) : h[s] = Value(h, s)
    BY <2>3, <2>5
  <2> QED BY <2>6
<1> HIDE DEF Done
<1>4. Nat \subseteq Done
  BY <1>2, <1>3, AllNaturals
<1>5. Cardinality(D) \in Done
  BY <1>4, FS_CardinalityType
<1>6. PICK f \in [SUBSET D -> A] : \A s \in Upto(Cardinality(D)) : f[s] = Value(f, s)
  BY <1>5 DEF Done
<1>7. \A s \in SUBSET D : s \in Upto(Cardinality(D))
  BY FS_Subset, FS_CardinalityType
<1>8. \A s \in SUBSET D : f[s] = Value(f, s)
  BY <1>6, <1>7
<1>9. f = [s \in SUBSET D |-> Value(f, s)]
  BY <1>8
<1> QED BY <1>9 DEF FoldSolved

\* An element less is one less.
LEMMA OneLess ==
  ASSUME NEW S, IsFiniteSet(S), NEW x \in S, NEW k \in Nat, Cardinality(S) = k + 1
  PROVE  Cardinality(S \ {x}) = k
<1>1. Cardinality(S \ {x}) = Cardinality(S) - 1
  BY FS_RemoveElement
<1> QED BY <1>1

\* SumFunctionOnSet chooses its next element.
Picked(s) == CHOOSE x \in s : TRUE

\* The recursion of SumFunction over the subsets of S.
SumsOver(fun, S) == CHOOSE iter : iter = [s \in SUBSET S |->
  IF s = {} THEN 0 ELSE fun[Picked(s)] + iter[s \ {Picked(s)}]]

\* SumFunction is that recursion at the whole domain.
LEMMA SumUnfolds ==
  ASSUME NEW S, NEW fun
  PROVE  SumFunctionOnSet(fun, S) = SumsOver(fun, S)[S]
BY DEF SumFunctionOnSet, FoldFunctionOnSet, MapThenFoldSet, SumsOver, Picked

\* The recursion of SumFunction has a solution, so CHOOSE finds one.
LEMMA SumsSolved ==
  ASSUME NEW S, IsFiniteSet(S), NEW fun, \A x \in S : fun[x] \in Int
  PROVE  /\ SumsOver(fun, S) \in [SUBSET S -> Int]
         /\ \A s \in SUBSET S : SumsOver(fun, S)[s] =
              IF s = {} THEN 0 ELSE fun[Picked(s)] + SumsOver(fun, S)[s \ {Picked(s)}]
<1> DEFINE step == [p \in Int \X S |-> fun[p[2]] + p[1]]
           pick == [s \in SUBSET S |-> Picked(s)]
           Eq(f) == f = [s \in SUBSET S |->
              IF s = {} THEN 0 ELSE fun[Picked(s)] + f[s \ {Picked(s)}]]
<1>1. \A s \in SUBSET S : s # {} => Picked(s) \in s
  BY DEF Picked
<1>2. step \in [Int \X S -> Int] /\ 0 \in Int
  OBVIOUS
<1>3. \A s \in SUBSET S : s # {} => pick[s] \in s
  BY <1>1
<1>4. PICK f \in [SUBSET S -> Int] : FoldSolved(f, S, Int, 0, step, pick)
  <2> HIDE DEF step, pick
  <2> QED BY <1>2, <1>3, FoldExists
<1>5. \A s \in SUBSET S :
        f[s] = IF s = {} THEN 0 ELSE fun[Picked(s)] + f[s \ {Picked(s)}]
  <2> SUFFICES ASSUME NEW s \in SUBSET S
               PROVE  f[s] = IF s = {} THEN 0 ELSE fun[Picked(s)] + f[s \ {Picked(s)}]
    OBVIOUS
  <2>1. f[s] = IF s = {} THEN 0 ELSE step[<<f[s \ {pick[s]}], pick[s]>>]
    BY <1>4 DEF FoldSolved
  <2>2. CASE s # {}
    <3>1. Picked(s) \in S /\ f[s \ {Picked(s)}] \in Int /\ pick[s] = Picked(s)
      BY <1>1, <2>2
    <3>2. step[<<f[s \ {Picked(s)}], Picked(s)>>] = fun[Picked(s)] + f[s \ {Picked(s)}]
      BY <3>1
    <3> QED BY <2>1, <2>2, <3>1, <3>2
  <2> QED BY <2>1, <2>2
<1>6. Eq(f)
  BY <1>5
<1>7. Eq(SumsOver(fun, S))
  <2> HIDE DEF step, pick
  <2> QED BY <1>6 DEF SumsOver
<1>8. \A s \in SUBSET S : SumsOver(fun, S)[s] =
              IF s = {} THEN 0 ELSE fun[Picked(s)] + SumsOver(fun, S)[s \ {Picked(s)}]
  BY <1>7
<1>9. DOMAIN SumsOver(fun, S) = SUBSET S
  BY <1>7
<1>10. \A k \in Nat : \A s \in SUBSET S : Cardinality(s) = k => SumsOver(fun, S)[s] \in Int
  <2> DEFINE Done == {k \in Nat : \A s \in SUBSET S : Cardinality(s) = k => SumsOver(fun, S)[s] \in Int}
  <2>1. 0 \in Done
    <3>1. \A s \in SUBSET S : Cardinality(s) = 0 => s = {}
      BY FS_Subset, FS_EmptySet
    <3>2. SumsOver(fun, S)[{}] = 0
      BY <1>8
    <3>3. \A s \in SUBSET S : Cardinality(s) = 0 => SumsOver(fun, S)[s] \in Int
      <4> DEFINE sums == SumsOver(fun, S)
      <4>1. sums[{}] \in Int
        BY <3>2
      <4> HIDE DEF sums
      <4>2. \A s \in SUBSET S : Cardinality(s) = 0 => sums[s] \in Int
        BY <3>1, <4>1
      <4> QED BY <4>2 DEF sums
    <3> QED BY <3>3
  <2>2. ASSUME NEW k \in Nat, k \in Done PROVE k + 1 \in Done
    <3>1. ASSUME NEW s \in SUBSET S, Cardinality(s) = k + 1 PROVE SumsOver(fun, S)[s] \in Int
      <4>1. IsFiniteSet(s) /\ s # {}
        BY <3>1, FS_Subset, FS_EmptySet
      <4>2. Picked(s) \in s
        BY <4>1, <1>1
      <4>3. Cardinality(s \ {Picked(s)}) = k
        BY <3>1, <4>1, <4>2, OneLess
      <4>4. SumsOver(fun, S)[s \ {Picked(s)}] \in Int
        BY <2>2, <4>3
      <4>5. fun[Picked(s)] \in Int
        BY <4>2
      <4>6. SumsOver(fun, S)[s] = fun[Picked(s)] + SumsOver(fun, S)[s \ {Picked(s)}]
        BY <1>8, <4>1
      <4> QED BY <4>4, <4>5, <4>6
    <3> QED BY <3>1
  <2> HIDE DEF Done
  <2>3. Nat \subseteq Done
    BY <2>1, <2>2, AllNaturals
  <2> QED BY <2>3 DEF Done
<1>11. \A s \in SUBSET S : SumsOver(fun, S)[s] \in Int
  BY <1>10, FS_Subset, FS_CardinalityType
<1>12. SumsOver(fun, S) = [s \in SUBSET S |-> SumsOver(fun, S)[s]]
  BY <1>7
<1> QED BY <1>8, <1>11, <1>12

\* What is summed over a part is the same from whatever whole it is taken.
LEMMA SumsOfParts ==
  ASSUME NEW S, IsFiniteSet(S), NEW fun, \A x \in S : fun[x] \in Int, NEW T \in SUBSET S
  PROVE  SumsOver(fun, T)[T] = SumsOver(fun, S)[T]
<1>1. IsFiniteSet(T) /\ Cardinality(T) \in Nat
  BY FS_Subset, FS_CardinalityType
<1> DEFINE F == SumsOver(fun, T)
           G == SumsOver(fun, S)
           Done == {k \in Nat : \A s \in SUBSET T : Cardinality(s) = k => F[s] = G[s]}
<1>2. \A s \in SUBSET T : /\ F[s] = IF s = {} THEN 0 ELSE fun[Picked(s)] + F[s \ {Picked(s)}]
                          /\ G[s] = IF s = {} THEN 0 ELSE fun[Picked(s)] + G[s \ {Picked(s)}]
  BY <1>1, SumsSolved
<1> HIDE DEF F, G
<1>3. 0 \in Done
  <2>1. \A s \in SUBSET T : Cardinality(s) = 0 => s = {}
    BY <1>1, FS_Subset, FS_EmptySet
  <2> QED BY <1>2, <2>1
<1>4. ASSUME NEW k \in Nat, k \in Done PROVE k + 1 \in Done
  <2>1. ASSUME NEW s \in SUBSET T, Cardinality(s) = k + 1 PROVE F[s] = G[s]
    <3>1. IsFiniteSet(s) /\ s # {}
      BY <1>1, <2>1, FS_Subset, FS_EmptySet
    <3>2. Picked(s) \in s
      BY <3>1 DEF Picked
    <3>3. Cardinality(s \ {Picked(s)}) = k
      BY <2>1, <3>1, <3>2, OneLess
    <3>4. F[s \ {Picked(s)}] = G[s \ {Picked(s)}]
      BY <1>4, <3>3
    <3> QED BY <1>2, <3>1, <3>4
  <2> QED BY <2>1
<1> HIDE DEF Done
<1>5. Cardinality(T) \in Done
  BY <1>1, <1>3, <1>4, AllNaturals
<1>6. F[T] = G[T]
  BY <1>5 DEF Done
<1> QED BY <1>6 DEF F, G

\* A sum is a number, nothing sums up to 0, and it is whatever element of it and
\* the sum of the others.
LEMMA SumType ==
  ASSUME NEW S, IsFiniteSet(S), NEW fun, \A x \in S : fun[x] \in Int
  PROVE  SumFunctionOnSet(fun, S) \in Int
<1>1. SumsOver(fun, S) \in [SUBSET S -> Int]
  BY SumsSolved
<1>2. SumsOver(fun, S)[S] \in Int
  BY <1>1
<1> QED BY <1>2, SumUnfolds

\* The sum of nothing is 0.
LEMMA SumEmpty ==
  ASSUME NEW fun
  PROVE  SumFunctionOnSet(fun, {}) = 0
<1>1. IsFiniteSet({})
  BY FS_EmptySet
<1>2. SumsOver(fun, {})[{}] = 0
  BY <1>1, SumsSolved
<1> QED BY <1>2, SumUnfolds

\* A sum is one of its terms and the sum of the others.
LEMMA SumPicked ==
  ASSUME NEW S, IsFiniteSet(S), S # {}, NEW fun, \A x \in S : fun[x] \in Int
  PROVE  SumFunctionOnSet(fun, S) = fun[Picked(S)] + SumFunctionOnSet(fun, S \ {Picked(S)})
<1>1. S \ {Picked(S)} \in SUBSET S
  OBVIOUS
<1>2. SumsOver(fun, S)[S] = fun[Picked(S)] + SumsOver(fun, S)[S \ {Picked(S)}]
  BY SumsSolved
<1>3. SumsOver(fun, S \ {Picked(S)})[S \ {Picked(S)}] = SumsOver(fun, S)[S \ {Picked(S)}]
  BY <1>1, SumsOfParts
<1> QED BY <1>2, <1>3, SumUnfolds

\* A sum over the elements of S is any one of them and the sum of the others.
LEMMA SumOf ==
  ASSUME NEW S, IsFiniteSet(S), NEW fun, \A x \in S : fun[x] \in Int, NEW x \in S
  PROVE  SumFunctionOnSet(fun, S) = fun[x] + SumFunctionOnSet(fun, S \ {x})
<1> DEFINE Sum(s) == SumFunctionOnSet(fun, s)
           Done == {k \in Nat : \A s \in SUBSET S : Cardinality(s) = k =>
                      \A y \in s : Sum(s) = fun[y] + Sum(s \ {y})}
<1>0. \A s \in SUBSET S : IsFiniteSet(s) /\ Sum(s) \in Int
  BY FS_Subset, SumType
<1>1. \A s \in SUBSET S : s # {} => Sum(s) = fun[Picked(s)] + Sum(s \ {Picked(s)})
  BY <1>0, SumPicked
<1> HIDE DEF Sum
<1>2. 0 \in Done
  <2>1. \A s \in SUBSET S : Cardinality(s) = 0 => s = {}
    BY <1>0, FS_EmptySet
  <2> QED BY <2>1
<1>3. ASSUME NEW k \in Nat, k \in Done PROVE k + 1 \in Done
  <2>1. ASSUME NEW s \in SUBSET S, Cardinality(s) = k + 1, NEW y \in s
        PROVE  Sum(s) = fun[y] + Sum(s \ {y})
    <3> DEFINE z == Picked(s)
    <3>1. z \in s
      BY DEF Picked
    <3>2. Sum(s) = fun[z] + Sum(s \ {z})
      BY <1>1
    <3> HIDE DEF z
    <3>3. CASE y = z
      BY <3>2, <3>3
    <3>4. CASE y # z
      <4>1. Cardinality(s \ {z}) = k /\ Cardinality(s \ {y}) = k
        BY <1>0, <2>1, <3>1, OneLess
      <4>2. Sum(s \ {z}) = fun[y] + Sum((s \ {z}) \ {y})
        BY <1>3, <3>4, <4>1
      <4>3. Sum(s \ {y}) = fun[z] + Sum((s \ {y}) \ {z})
        BY <1>3, <3>1, <3>4, <4>1
      <4>4. (s \ {z}) \ {y} = (s \ {y}) \ {z}
        OBVIOUS
      <4>5. Sum((s \ {y}) \ {z}) \in Int /\ fun[y] \in Int /\ fun[z] \in Int
        BY <1>0, <3>1
      <4>6. Sum(s \ {y}) = fun[z] + Sum((s \ {z}) \ {y})
        BY <4>3, <4>4
      <4> DEFINE both == Sum((s \ {z}) \ {y})
      <4>7. both \in Int
        BY <4>4, <4>5
      <4>8. Sum(s) = fun[z] + (fun[y] + both) /\ Sum(s \ {y}) = fun[z] + both
        BY <3>2, <4>2, <4>6
      <4> HIDE DEF both
      <4>9. fun[z] + (fun[y] + both) = fun[y] + (fun[z] + both)
        BY <4>5, <4>7
      <4> QED BY <4>8, <4>9
    <3> QED BY <3>3, <3>4
  <2> QED BY <2>1
<1> HIDE DEF Done
<1>4. Cardinality(S) \in Done
  BY <1>2, <1>3, AllNaturals, FS_CardinalityType
<1>5. Sum(S) = fun[x] + Sum(S \ {x})
  BY <1>4 DEF Done
<1> QED BY <1>5 DEF Sum


-----------------------------------------------------------------------------
(* Donations: what is counted.                                              *)

\* The counter went from one reading to the other with what was given in between:
\* by just that, or, when a season ended, to no more than that.
Grew(a, b) ==
  /\ a.given <= b.given
  /\ \/ b.donations - a.donations = b.given - a.given
     \/ b.donations <= b.given - a.given

\* Readings and cycles are lists of numbers, and the first cycle begins at 0.
DonationsTyped ==
  /\ shown \in Nat /\ given \in Nat /\ shown <= given
  /\ snapshots \in Seq([donations : Nat, given : Nat])
  /\ cycles \in Seq(Nat) /\ cycles # << >> /\ cycles[1] = 0
  /\ seasons \in Nat

\* Cycles begin one after the other, none after the last reading.
CyclesBegun ==
  /\ \A k \in 1..(Len(cycles) - 1) : cycles[k] < cycles[k + 1]
  /\ cycles[Len(cycles)] <= Len(snapshots)

\* From each reading to the next, and to now, the counter grew as Grew says.
ReadingsGrew ==
  /\ \A i \in 1..(Len(snapshots) - 1) : Grew(snapshots[i], snapshots[i + 1])
  /\ snapshots # << >> =>
       Grew(snapshots[Len(snapshots)], [donations |-> shown, given |-> given])

\* The inductive invariant.
DonationsInv == DonationsTyped /\ CyclesBegun /\ ReadingsGrew

\* The last reading is one.
LEMMA LastRead ==
  ASSUME DonationsTyped, snapshots # << >>
  PROVE  snapshots[Len(snapshots)] \in [donations : Nat, given : Nat]
<1>1. snapshots \in Seq([donations : Nat, given : Nat])
  BY DEF DonationsTyped
<1>2. Len(snapshots) \in 1..Len(snapshots)
  BY <1>1
<1> QED BY <1>1, <1>2, ElementOfSeq

\* It holds at the start.
LEMMA DonationsStart == DonationsInit => DonationsInv
BY DonationsAssumption
DEF DonationsInit, DonationsInv, DonationsTyped, CyclesBegun, ReadingsGrew

\* Every step keeps it.
LEMMA DonationsStep == DonationsInv /\ [DonationsNext]_donationVars => DonationsInv'
<1> SUFFICES ASSUME DonationsInv, [DonationsNext]_donationVars PROVE DonationsInv'
  OBVIOUS
<1> USE DonationsAssumption
<1>1. CASE Give
  <2> PICK g \in Gifts : /\ shown' = shown + g /\ given' = given + g
                         /\ UNCHANGED <<seasons, snapshots, cycles>>
    BY <1>1 DEF Give
  <2>1. g \in Nat
    OBVIOUS
  <2>2. DonationsTyped' /\ CyclesBegun'
    BY <2>1 DEF DonationsInv, DonationsTyped, CyclesBegun
  <2>3. ASSUME snapshots # << >>
        PROVE  Grew(snapshots[Len(snapshots)], [donations |-> shown + g, given |-> given + g])
    <3>1. Grew(snapshots[Len(snapshots)], [donations |-> shown, given |-> given])
      BY <2>3 DEF DonationsInv, ReadingsGrew
    <3>2. snapshots[Len(snapshots)] \in [donations : Nat, given : Nat]
      BY <2>3, LastRead DEF DonationsInv
    <3> DEFINE old == snapshots[Len(snapshots)]
    <3>3. old.donations \in Nat /\ old.given \in Nat /\ shown \in Nat /\ given \in Nat
      BY <3>2 DEF DonationsInv, DonationsTyped
    <3>4. Grew(old, [donations |-> shown, given |-> given])
      BY <3>1
    <3> HIDE DEF old
    <3>5. Grew(old, [donations |-> shown + g, given |-> given + g])
      BY <2>1, <3>3, <3>4 DEF Grew
    <3> QED BY <3>5 DEF old
  <2>4. ReadingsGrew'
    BY <2>3 DEF DonationsInv, ReadingsGrew
  <2> QED BY <2>2, <2>4 DEF DonationsInv
<1>2. CASE EndSeason
  <2>1. seasons' = seasons + 1 /\ shown' = 0 /\ UNCHANGED <<given, snapshots, cycles>>
    BY <1>2 DEF EndSeason
  <2>2. DonationsTyped' /\ CyclesBegun'
    BY <2>1 DEF DonationsInv, DonationsTyped, CyclesBegun
  <2>3. ASSUME snapshots # << >>
        PROVE  Grew(snapshots[Len(snapshots)], [donations |-> 0, given |-> given])
    <3>1. Grew(snapshots[Len(snapshots)], [donations |-> shown, given |-> given])
      BY <2>3 DEF DonationsInv, ReadingsGrew
    <3>2. snapshots[Len(snapshots)] \in [donations : Nat, given : Nat]
      BY <2>3, LastRead DEF DonationsInv
    <3> QED BY <3>1, <3>2 DEF Grew, DonationsInv, DonationsTyped
  <2>4. ReadingsGrew'
    BY <2>1, <2>3 DEF DonationsInv, ReadingsGrew
  <2> QED BY <2>2, <2>4 DEF DonationsInv
<1>3. CASE Snapshot
  <2> DEFINE new == [donations |-> shown, given |-> given]
  <2>1. /\ snapshots' = Append(snapshots, new) /\ new \in [donations : Nat, given : Nat]
        /\ UNCHANGED <<shown, given, seasons, cycles>>
    BY <1>3 DEF Snapshot, DonationsInv, DonationsTyped
  <2>2. /\ Len(snapshots') = Len(snapshots) + 1 /\ snapshots'[Len(snapshots')] = new
        /\ \A i \in 1..Len(snapshots) : snapshots'[i] = snapshots[i]
        /\ Len(snapshots) \in Nat /\ snapshots' # << >>
    BY <2>1 DEF DonationsInv, DonationsTyped
  <2>3. DonationsTyped' /\ CyclesBegun'
    BY <2>1, <2>2 DEF DonationsInv, DonationsTyped, CyclesBegun
  <2>4. Grew(new, new)
    BY DEF Grew, DonationsInv, DonationsTyped
  <2>5. ASSUME NEW i \in 1..(Len(snapshots') - 1) PROVE Grew(snapshots'[i], snapshots'[i + 1])
    <3> HIDE DEF new
    <3>1. CASE i = Len(snapshots)
      <4>1. Grew(snapshots[i], new) /\ snapshots'[i] = snapshots[i]
        BY <2>2, <3>1 DEF DonationsInv, ReadingsGrew, new
      <4> QED BY <4>1, <2>2, <3>1
    <3>2. CASE i # Len(snapshots)
      <4>1. i \in 1..(Len(snapshots) - 1)
        BY <2>2, <3>2
      <4>2. snapshots'[i] = snapshots[i] /\ snapshots'[i + 1] = snapshots[i + 1]
        BY <2>2, <4>1
      <4> QED BY <4>1, <4>2 DEF DonationsInv, ReadingsGrew
    <3> QED BY <3>1, <3>2
  <2>6. Grew(snapshots'[Len(snapshots')], [donations |-> shown', given |-> given'])
    BY <2>1, <2>2, <2>4
  <2>7. ReadingsGrew'
    BY <2>5, <2>6 DEF ReadingsGrew
  <2> QED BY <2>3, <2>7 DEF DonationsInv
<1>4. CASE BeginCycle
  <2>1. /\ Last(cycles) < Len(snapshots)
        /\ cycles' = Append(cycles, Len(snapshots))
        /\ UNCHANGED <<shown, given, seasons, snapshots>>
    BY <1>4 DEF BeginCycle
  <2>2. /\ Len(cycles) \in Nat \ {0} /\ Last(cycles) = cycles[Len(cycles)]
        /\ Len(cycles') = Len(cycles) + 1 /\ cycles'[Len(cycles) + 1] = Len(snapshots)
        /\ \A k \in 1..Len(cycles) : cycles'[k] = cycles[k]
        /\ Len(snapshots) \in Nat
    BY <2>1 DEF DonationsInv, DonationsTyped, Last
  <2>3. DonationsTyped'
    <3>1. cycles \in Seq(Nat) /\ cycles # << >> /\ cycles[1] = 0 /\ 1 \in 1..Len(cycles)
      BY <2>2 DEF DonationsInv, DonationsTyped
    <3>2. cycles' \in Seq(Nat) /\ cycles' # << >>
      BY <2>1, <2>2, <3>1, AppendProperties
    <3>3. cycles'[1] = 0
      BY <2>2, <3>1
    <3> QED BY <2>1, <3>2, <3>3 DEF DonationsInv, DonationsTyped
  <2>4. \A k \in 1..(Len(cycles') - 1) : cycles'[k] < cycles'[k + 1]
    <3> SUFFICES ASSUME NEW k \in 1..Len(cycles) PROVE cycles'[k] < cycles'[k + 1]
      BY <2>2
    <3>1. CASE k = Len(cycles)
      BY <2>1, <2>2, <3>1
    <3>2. CASE k # Len(cycles)
      <4>1. k \in 1..(Len(cycles) - 1) /\ k + 1 \in 1..Len(cycles)
        BY <2>2, <3>2
      <4> QED BY <2>2, <4>1 DEF DonationsInv, CyclesBegun
    <3> QED BY <3>1, <3>2
  <2>5. CyclesBegun'
    BY <2>1, <2>2, <2>4 DEF CyclesBegun
  <2>6. ReadingsGrew'
    BY <2>1 DEF DonationsInv, ReadingsGrew
  <2> QED BY <2>3, <2>5, <2>6 DEF DonationsInv
<1>5. CASE UNCHANGED donationVars
  BY <1>5 DEF donationVars, DonationsInv, DonationsTyped, CyclesBegun, ReadingsGrew
<1> QED BY <1>1, <1>2, <1>3, <1>4, <1>5 DEF DonationsNext

\* What is counted from one snapshot to the next was given in between.
LEMMA StepGiven ==
  ASSUME DonationsInv, NEW i \in 1..(Len(snapshots) - 1)
  PROVE  /\ Step(snapshots[i].donations, snapshots[i + 1].donations) \in Int
         /\ Step(snapshots[i].donations, snapshots[i + 1].donations)
              <= snapshots[i + 1].given - snapshots[i].given
<1>1. Len(snapshots) \in Nat /\ i \in 1..Len(snapshots) /\ i + 1 \in 1..Len(snapshots)
  BY DEF DonationsInv, DonationsTyped
<1>2. /\ snapshots[i] \in [donations : Nat, given : Nat]
      /\ snapshots[i + 1] \in [donations : Nat, given : Nat]
  <2>1. snapshots \in Seq([donations : Nat, given : Nat])
    BY DEF DonationsInv, DonationsTyped
  <2> QED BY <1>1, <2>1, ElementOfSeq
<1>3. Grew(snapshots[i], snapshots[i + 1])
  BY DEF DonationsInv, ReadingsGrew
<1> QED BY <1>2, <1>3 DEF Grew, Step

\* What is counted from snapshot m to snapshot n, whatever lies between, was given
\* between them.
LEMMA StepsGiven ==
  ASSUME DonationsInv, NEW m \in 1..Len(snapshots), NEW n \in m..Len(snapshots), NEW steps,
         steps = [i \in m..(n - 1) |-> Step(snapshots[i].donations, snapshots[i + 1].donations)]
  PROVE  /\ SumFunction(steps) \in Int
         /\ SumFunction(steps) <= snapshots[n].given - snapshots[m].given
<1>0. Len(snapshots) \in Nat /\ m \in Nat /\ n \in Nat /\ m <= n
  BY DEF DonationsInv, DonationsTyped
<1>1. \A i \in m..(n - 1) : /\ steps[i] \in Int
                            /\ steps[i] <= snapshots[i + 1].given - snapshots[i].given
  <2> SUFFICES ASSUME NEW i \in m..(n - 1)
               PROVE  /\ steps[i] \in Int
                      /\ steps[i] <= snapshots[i + 1].given - snapshots[i].given
    OBVIOUS
  <2>1. i \in 1..(Len(snapshots) - 1)
    BY <1>0
  <2> QED BY <2>1, StepGiven
<1>2. \A i \in m..n : snapshots[i].given \in Int
  <2>1. \A i \in m..n : i \in 1..Len(snapshots)
    BY <1>0
  <2>2. snapshots \in Seq([donations : Nat, given : Nat])
    BY DEF DonationsInv, DonationsTyped
  <2>3. \A i \in m..n : snapshots[i] \in [donations : Nat, given : Nat]
    BY <2>1, <2>2, ElementOfSeq
  <2> QED BY <2>3
<1> DEFINE Sum(j) == SumFunctionOnSet(steps, m..(j - 1))
           Done == {k \in Nat : m + k <= n =>
             Sum(m + k) \in Int /\ Sum(m + k) <= snapshots[m + k].given - snapshots[m].given}
<1>3. \A j \in m..n : IsFiniteSet(m..(j - 1)) /\ \A i \in m..(j - 1) : i \in m..(n - 1)
  <2> SUFFICES ASSUME NEW j \in m..n
               PROVE  IsFiniteSet(m..(j - 1)) /\ \A i \in m..(j - 1) : i \in m..(n - 1)
    OBVIOUS
  <2>1. m \in Int /\ j - 1 \in Int
    BY <1>0
  <2>2. IsFiniteSet(m..(j - 1))
    BY <2>1, FS_Interval
  <2> QED BY <1>0, <2>2
<1>4. 0 \in Done
  <2>1. m..(m + 0 - 1) = {}
    BY <1>0
  <2>2. Sum(m + 0) = 0
    BY <2>1, SumEmpty
  <2>3. snapshots[m + 0].given = snapshots[m].given /\ snapshots[m].given \in Int
    BY <1>0, <1>2
  <2> HIDE DEF Sum
  <2> QED BY <2>2, <2>3
<1>5. ASSUME NEW k \in Nat, k \in Done PROVE k + 1 \in Done
  <2> SUFFICES ASSUME m + (k + 1) <= n
               PROVE  /\ Sum(m + (k + 1)) \in Int
                      /\ Sum(m + (k + 1)) <= snapshots[m + (k + 1)].given - snapshots[m].given
    OBVIOUS
  <2> DEFINE j == m + k
  <2>1. j \in m..(n - 1) /\ j \in m..n /\ j + 1 \in m..n /\ m + (k + 1) = j + 1 /\ j <= n
    BY <1>0
  <2>2. j + 1 - 1 = j /\ j \in m..j /\ (m..j) \ {j} = m..(j - 1)
    <3>1. j \in Int /\ m \in Int /\ m <= j
      BY <1>0
    <3> HIDE DEF j
    <3> QED BY <3>1
  <2>3. Sum(j) \in Int /\ Sum(j) <= snapshots[j].given - snapshots[m].given
    BY <1>5, <2>1
  <2>4. Sum(j + 1) = steps[j] + Sum(j)
    <3> HIDE DEF j
    <3>1. Sum(j + 1) = SumFunctionOnSet(steps, m..j)
      BY <2>2
    <3> DEFINE T == m..j
    <3>2. m \in Int /\ j \in Int /\ \A i \in T : i \in m..(n - 1)
      BY <1>0, <2>1
    <3>3. IsFiniteSet(T) /\ j \in T /\ \A i \in T : steps[i] \in Int
      BY <1>1, <2>2, <3>2, FS_Interval
    <3> HIDE DEF T, Sum
    <3>4. SumFunctionOnSet(steps, T) = steps[j] + SumFunctionOnSet(steps, T \ {j})
      BY ONLY <3>3, SumOf
    <3> USE DEF T, Sum
    <3> QED BY <2>2, <3>1, <3>4
  <2>5. /\ steps[j] \in Int /\ steps[j] <= snapshots[j + 1].given - snapshots[j].given
        /\ snapshots[j + 1].given \in Int /\ snapshots[j].given \in Int /\ snapshots[m].given \in Int
    BY <1>0, <1>1, <1>2, <2>1
  <2> HIDE DEF j, Sum
  <2> DEFINE a == snapshots[m].given
             b == snapshots[j].given
             c == snapshots[j + 1].given
             s == steps[j]
  <2>6. /\ a \in Int /\ b \in Int /\ c \in Int /\ s \in Int
        /\ s <= c - b /\ Sum(j) <= b - a /\ Sum(j + 1) = s + Sum(j)
    BY <2>3, <2>4, <2>5
  <2> HIDE DEF a, b, c, s
  <2>7. Sum(j + 1) \in Int /\ Sum(j + 1) <= c - a
    BY <2>3, <2>6
  <2> QED BY <2>1, <2>7 DEF a, c
<1> HIDE DEF Done
<1>6. n - m \in Done
  <2>1. Nat \subseteq Done
    BY <1>4, <1>5, AllNaturals
  <2> QED BY <1>0, <2>1
<1>7. Sum(m + (n - m)) \in Int /\ Sum(m + (n - m)) <= snapshots[m + (n - m)].given - snapshots[m].given
  <2> HIDE DEF Sum
  <2> QED BY <1>0, <1>6 DEF Done
<1>8. m + (n - m) = n
  BY <1>0
<1>9. SumFunction(steps) = Sum(n)
  BY DEF SumFunction
<1> QED BY <1>7, <1>8, <1>9

\* Where a cycle ends the next begins.
LEMMA CyclesChained ==
  ASSUME DonationsInv, snapshots # << >>, NEW k \in DOMAIN cycles
  PROVE  /\ FirstOf(k) \in 1..Len(snapshots)
         /\ LastOf(k) \in FirstOf(k)..Len(snapshots)
         /\ k = 1 => FirstOf(k) = 1
         /\ k # 1 => FirstOf(k) = LastOf(k - 1)
         /\ k = Len(cycles) => LastOf(k) = Len(snapshots)
<1>1. /\ Len(snapshots) \in Nat \ {0} /\ Len(cycles) \in Nat /\ k \in 1..Len(cycles)
      /\ \A j \in 1..Len(cycles) : cycles[j] \in Nat
      /\ cycles[1] = 0
  BY DEF DonationsInv, DonationsTyped
<1>2. /\ \A j \in 1..(Len(cycles) - 1) : cycles[j] < cycles[j + 1]
      /\ cycles[Len(cycles)] <= Len(snapshots)
  BY DEF DonationsInv, CyclesBegun
<1>3. \A j \in 1..Len(cycles) : cycles[j] <= Len(snapshots) /\ (j # 1 => cycles[j] # 0)
  <2> DEFINE Done == {d \in Nat : d < Len(cycles) => cycles[Len(cycles) - d] <= Len(snapshots)}
  <2>1. 0 \in Done
    BY <1>1, <1>2
  <2>2. ASSUME NEW d \in Nat, d \in Done PROVE d + 1 \in Done
    <3> SUFFICES ASSUME d + 1 < Len(cycles) PROVE cycles[Len(cycles) - (d + 1)] <= Len(snapshots)
      OBVIOUS
    <3> DEFINE j == Len(cycles) - (d + 1)
    <3>1. j \in 1..(Len(cycles) - 1) /\ j + 1 = Len(cycles) - d
          /\ j \in 1..Len(cycles) /\ j + 1 \in 1..Len(cycles)
      BY <1>1
    <3>2. cycles[j + 1] <= Len(snapshots)
      BY <1>1, <2>2, <3>1
    <3> HIDE DEF j
    <3>3. cycles[j] < cycles[j + 1] /\ cycles[j] \in Nat /\ cycles[j + 1] \in Nat
      BY <1>1, <1>2, <3>1
    <3>4. cycles[j] <= Len(snapshots)
      BY <1>1, <3>2, <3>3
    <3> QED BY <3>4 DEF j
  <2> HIDE DEF Done
  <2>3. Nat \subseteq Done
    BY <2>1, <2>2, AllNaturals
  <2> SUFFICES ASSUME NEW j \in 1..Len(cycles)
               PROVE  cycles[j] <= Len(snapshots) /\ (j # 1 => cycles[j] # 0)
    OBVIOUS
  <2>4. Len(cycles) - j \in Nat /\ Len(cycles) - j < Len(cycles)
        /\ Len(cycles) - (Len(cycles) - j) = j
    BY <1>1
  <2>5. cycles[j] <= Len(snapshots)
    BY <2>3, <2>4 DEF Done
  <2>6. ASSUME j # 1 PROVE cycles[j] # 0
    <3>1. j - 1 \in 1..(Len(cycles) - 1) /\ j - 1 + 1 = j /\ j - 1 \in 1..Len(cycles)
      BY <1>1, <2>6
    <3>2. cycles[j - 1] < cycles[j] /\ cycles[j - 1] \in Nat /\ cycles[j] \in Nat
      BY <1>1, <1>2, <3>1
    <3> QED BY <3>2
  <2> QED BY <2>5, <2>6
<1>4. FirstOf(k) \in 1..Len(snapshots) /\ (k = 1 => FirstOf(k) = 1)
  BY <1>1, <1>3 DEF FirstOf
<1>5. LastOf(k) \in FirstOf(k)..Len(snapshots)
  <2>1. CASE k < Len(cycles)
    <3>1. k \in 1..(Len(cycles) - 1) /\ k + 1 \in 1..Len(cycles)
      BY <1>1, <2>1
    <3>2. cycles[k] < cycles[k + 1] /\ cycles[k + 1] <= Len(snapshots)
          /\ cycles[k] \in Nat /\ cycles[k + 1] \in Nat
      BY <1>1, <1>2, <1>3, <3>1
    <3> QED BY <1>1, <2>1, <3>2 DEF FirstOf, LastOf
  <2>2. CASE ~(k < Len(cycles))
    BY <1>1, <1>4, <2>2 DEF LastOf
  <2> QED BY <2>1, <2>2
<1>6. k # 1 => FirstOf(k) = LastOf(k - 1)
  BY <1>1, <1>3 DEF FirstOf, LastOf
<1> QED BY <1>1, <1>4, <1>5, <1>6 DEF LastOf

\* From it follows that nothing is counted twice.
LEMMA CountedOnce == DonationsInv => NothingCountedTwice
<1> SUFFICES ASSUME DonationsInv, snapshots # << >>
             PROVE  SumFunction([k \in DOMAIN cycles |-> Donated(k)])
                      <= Last(snapshots).given - snapshots[1].given
  BY DEF NothingCountedTwice
<1> DEFINE of == [k \in DOMAIN cycles |-> Donated(k)]
           Given(i) == snapshots[i].given
           Sum(j) == SumFunctionOnSet(of, 1..j)
           Done == {j \in Nat : j + 1 <= Len(cycles) =>
             Sum(j + 1) \in Int /\ Sum(j + 1) <= Given(LastOf(j + 1)) - Given(1)}
<1>1. /\ Len(snapshots) \in Nat \ {0} /\ Len(cycles) \in Nat \ {0} /\ DOMAIN cycles = 1..Len(cycles)
      /\ \A i \in 1..Len(snapshots) : Given(i) \in Int
  <2>1. snapshots \in Seq([donations : Nat, given : Nat]) /\ cycles \in Seq(Nat) /\ cycles # << >>
    BY DEF DonationsInv, DonationsTyped
  <2>2. \A i \in 1..Len(snapshots) : snapshots[i] \in [donations : Nat, given : Nat]
    BY <2>1, ElementOfSeq
  <2> QED BY <2>1, <2>2
<1> HIDE DEF Given
<1>2. ASSUME NEW k \in DOMAIN cycles
      PROVE  of[k] \in Int /\ of[k] <= Given(LastOf(k)) - Given(FirstOf(k))
             /\ Given(LastOf(k)) \in Int /\ Given(FirstOf(k)) \in Int
  <2>1. FirstOf(k) \in 1..Len(snapshots) /\ LastOf(k) \in FirstOf(k)..Len(snapshots)
    BY CyclesChained
  <2>2. Donated(k) \in Int /\ Donated(k) <= snapshots[LastOf(k)].given - snapshots[FirstOf(k)].given
    BY <2>1, StepsGiven DEF Donated
  <2>3. LastOf(k) \in 1..Len(snapshots)
    BY <1>1, <2>1
  <2> QED BY <1>1, <2>1, <2>2, <2>3 DEF Given
<1> HIDE DEF of
<1>3. \A j \in 1..Len(cycles) : IsFiniteSet(1..j) /\ \A i \in 1..j : of[i] \in Int
  <2>1. \A j \in 1..Len(cycles) : \A i \in 1..j : i \in 1..Len(cycles)
    BY <1>1
  <2>2. \A j \in 1..Len(cycles) : IsFiniteSet(1..j)
    BY FS_Interval
  <2> QED BY <1>1, <1>2, <2>1, <2>2
<1>4. ASSUME NEW j \in 1..Len(cycles)
      PROVE  Sum(j) = of[j] + Sum(j - 1)
  <2>1. (1..j) \ {j} = 1..(j - 1) /\ j \in 1..j
    BY <1>1
  <2>2. SumFunctionOnSet(of, 1..j) = of[j] + SumFunctionOnSet(of, (1..j) \ {j})
    BY <1>3, <2>1, SumOf
  <2> QED BY <2>1, <2>2
<1>5. Sum(0) = 0
  <2>1. 1..0 = {}
    OBVIOUS
  <2> QED BY <2>1, SumEmpty
<1> HIDE DEF Sum
<1>6. 0 \in Done
  <2>1. 1 \in 1..Len(cycles) /\ 1 \in DOMAIN cycles
    BY <1>1
  <2>2. FirstOf(1) = 1
    BY <2>1, CyclesChained
  <2>3. Sum(1) = of[1] + 0
    BY <1>4, <1>5, <2>1
  <2>4. Sum(0 + 1) \in Int /\ Sum(0 + 1) <= Given(LastOf(0 + 1)) - Given(1)
    BY <1>2, <2>1, <2>2, <2>3
  <2> QED BY <2>4
<1>7. ASSUME NEW j \in Nat, j \in Done PROVE j + 1 \in Done
  <2> SUFFICES ASSUME j + 1 + 1 <= Len(cycles)
               PROVE  Sum(j + 1 + 1) \in Int /\ Sum(j + 1 + 1) <= Given(LastOf(j + 1 + 1)) - Given(1)
    OBVIOUS
  <2> DEFINE k == j + 1
  <2>1. /\ k + 1 \in 1..Len(cycles) /\ k + 1 \in DOMAIN cycles /\ k + 1 # 1 /\ k + 1 - 1 = k
        /\ k <= Len(cycles) /\ k \in DOMAIN cycles /\ 1 \in 1..Len(snapshots)
    BY <1>1
  <2>2. Sum(k) \in Int /\ Sum(k) <= Given(LastOf(k)) - Given(1)
    BY <1>7, <2>1
  <2> HIDE DEF k
  <2>3. FirstOf(k + 1) = LastOf(k)
    BY <2>1, CyclesChained
  <2>4. Sum(k + 1) = of[k + 1] + Sum(k)
    BY <1>4, <2>1
  <2>5. Given(1) \in Int
    BY <1>1, <2>1
  <2>6. Sum(k + 1) \in Int /\ Sum(k + 1) <= Given(LastOf(k + 1)) - Given(1)
    BY <1>2, <2>1, <2>2, <2>3, <2>4, <2>5
  <2> QED BY <2>6 DEF k
<1> HIDE DEF Done
<1>8. Len(cycles) - 1 \in Done
  <2>1. Nat \subseteq Done
    BY <1>6, <1>7, AllNaturals
  <2> QED BY <1>1, <2>1
<1>9. Len(cycles) - 1 + 1 = Len(cycles) /\ Len(cycles) \in DOMAIN cycles
  BY <1>1
<1>10. Sum(Len(cycles)) <= Given(LastOf(Len(cycles))) - Given(1)
  BY <1>1, <1>8, <1>9 DEF Done
<1>11. LastOf(Len(cycles)) = Len(snapshots)
  BY <1>9, CyclesChained
<1>12. SumFunction(of) = Sum(Len(cycles))
  BY <1>1 DEF SumFunction, Sum, of
<1> QED BY <1>10, <1>11, <1>12 DEF of, Given, Last

\* Over all cycles the bot counts no donation twice and none that was not
\* made, for any gifts, seasons, snapshots and cycles.
THEOREM DonatedOnce == DonationsSpec => []NothingCountedTwice
<1>1. DonationsSpec => []DonationsInv
  BY DonationsStart, DonationsStep, PTL DEF DonationsSpec
<1> QED BY <1>1, CountedOnce, PTL

-----------------------------------------------------------------------------
(* The ranking: what stars are credited.                                    *)

\* Of the results found one is the best: as good as any in stars.
LEMMA BestOfSome ==
  ASSUME NEW S, S # {}, \A j \in S : Attack_(j).result \in AllResults
  PROVE  /\ Best(S) \in {Attack_(j).result : j \in S}
         /\ \A j \in S : Attack_(j).result.stars <= Best(S).stars
<1> DEFINE found == {Attack_(j).result : j \in S}
           Worse(x, y) == x.stars < y.stars \/ (x.stars = y.stars /\ x.destruction <= y.destruction)
           Lack(x) == 403 - (101 * x.stars + x.destruction)
           lacks == {Lack(x) : x \in found}
<1>1. found # {} /\ found \subseteq AllResults
  OBVIOUS
<1>2. Best(S) = CHOOSE y \in found : \A x \in found : Worse(x, y)
  BY DEF Best
<1> HIDE DEF found
<1>3. \A x \in found : x.stars \in 0..3 /\ x.destruction \in 0..100
  BY <1>1 DEF AllResults
<1>4. lacks \in SUBSET Nat /\ lacks # {}
  BY <1>1, <1>3
<1>5. PICK n \in lacks : \A m \in lacks : n <= m
  BY <1>4, LeastNatural
<1>6. PICK y \in found : n = Lack(y)
  BY <1>5
<1>7. \A x \in found : Worse(x, y)
  <2> SUFFICES ASSUME NEW x \in found PROVE Worse(x, y)
    OBVIOUS
  <2>1. Lack(y) <= Lack(x)
    BY <1>5, <1>6
  <2> DEFINE s == x.stars
             d == x.destruction
             u == y.stars
             e == y.destruction
  <2>2. s \in 0..3 /\ d \in 0..100 /\ u \in 0..3 /\ e \in 0..100
    BY <1>3
  <2>3. 403 - (101 * u + e) <= 403 - (101 * s + d)
    BY <2>1
  <2> HIDE DEF s, d, u, e
  <2>4. s < u \/ (s = u /\ d <= e)
    BY <2>2, <2>3
  <2> QED BY <2>4 DEF s, d, u, e
<1> HIDE DEF Worse
<1>8. Best(S) \in found /\ \A x \in found : Worse(x, Best(S))
  BY <1>2, <1>7
<1>9. \A x \in found : x.stars <= Best(S).stars
  BY <1>3, <1>8 DEF Worse
<1> QED BY <1>8, <1>9 DEF found

\* Who has no result has no stars.
LEMMA BestOfNone == Best({}).stars = 0
BY DEF Best, NoResult

\* What an attack with s stars gains on a base with b stars, in hundredths.
Paid(b, s) ==
  IF league THEN 625 * Greater(s - b, 0) + (IF s = 3 /\ b < 3 THEN 1500 ELSE 0)
  ELSE 500 * Greater(s - b, 0) + (IF s = 3 /\ b < 3 THEN 800 ELSE 0)

\* Something if and only if it takes a star, ...
LEMMA PaidForNew ==
  ASSUME NEW b \in 0..3, NEW s \in 0..3
  PROVE  /\ Paid(b, s) \in Nat
         /\ s <= b => Paid(b, s) = 0
         /\ b < s => Paid(b, s) > 0
BY DEF Paid, Greater

\* ... and one after the other as much as the better alone.
LEMMA PaidAddUp ==
  ASSUME NEW b \in 0..3, NEW s \in 0..3
  PROVE  Paid(0, b) + Paid(b, s) = Paid(0, Greater(s, b))
<1>1. CASE league
  BY <1>1 DEF Paid, Greater
<1>2. CASE ~league
  BY <1>2 DEF Paid, Greater
<1> QED BY <1>1, <1>2

\* A multiple of four eightieths is rounded exactly.
LEMMA RoundedExact ==
  ASSUME NEW x \in Int, NEW y \in Int, 5 * x = 4 * y
  PROVE  Rounded(x) = y
<1>1. /\ Rounded(x) \in Int
      /\ 5 * x - 2 <= 4 * Rounded(x) /\ 4 * Rounded(x) <= 5 * x + 2
  BY RoundedBounds
<1> QED BY <1>1

\* Without destruction the points of a base are those of the stars.
LEMMA BareScore ==
  ASSUME NEW best \in AllResults, NEW r \in AllResults, r.destruction = 0
  PROVE  BaseScore(best, r) = 400 * r.stars + 400 * Greater(r.stars - best.stars, 0)
<1>1. best.stars \in 0..3 /\ best.destruction \in 0..100 /\ r.stars \in 0..3
  BY DEF AllResults
<1>2. DestructionPart(best, r) = 0
  <2>1. Lesser(best.destruction, r.destruction) = 0
    BY <1>1 DEF Lesser
  <2> QED BY <1>1, <2>1 DEF DestructionPart
<1>3. Greater(r.stars - best.stars, 0) \in 0..3
  BY <1>1 DEF Greater
<1>4. StarPart(best, r) = 400 * r.stars + 400 * Greater(r.stars - best.stars, 0)
  BY <1>1, <1>3 DEF StarPart, Fresh
<1> QED BY <1>1, <1>2, <1>3, <1>4 DEF BaseScore

\* An attack whose stars are paid is credited what it gains.
LEMMA GainPaid ==
  ASSUME NEW place, NEW target, NEW code, code # ClaimedTarget,
         league \/ code \notin {TooLow, AboveSelf},
         NEW best \in AllResults, NEW r \in AllResults
  PROVE  Gain(place, target, code, best, r) = Paid(best.stars, r.stars)
<1> DEFINE bare == [r EXCEPT !.destruction = 0]
           n == r.stars
           f == Greater(n - best.stars, 0)
           e == IF n = 3 /\ best.stars < 3 THEN 1 ELSE 0
<1>1. /\ bare \in AllResults /\ bare.stars = n /\ bare.destruction = 0
      /\ Taken \in AllResults /\ Taken.stars = 3
      /\ n \in 0..3 /\ best.stars \in 0..3
  BY DEF AllResults, Taken
<1>2. f \in 0..3 /\ e \in 0..1 /\ Greater(n - 3, 0) = 0
  BY <1>1 DEF Greater
<1> HIDE DEF bare
<1>3. /\ BaseScore(best, bare) = 400 * n + 400 * f
      /\ BaseScore(Taken, bare) = 400 * n
  BY <1>1, <1>2, BareScore
<1>4. Gain(place, target, code, best, r)
        = AttackScore(league, place, target, code, best, bare)
            - AttackScore(league, place, target, code, Taken, bare)
  BY DEF Gain, bare
<1>5. CASE league
  <2>1. /\ TripleBonus(LeagueBonus, best, bare) = 960 * e
        /\ TripleBonus(LeagueBonus, Taken, bare) = 0
    BY <1>1 DEF TripleBonus, LeagueBonus
  <2>2. /\ AttackScore(league, place, target, code, best, bare)
             = Rounded(((400 * n + 400 * f + 960 * e) * 5) \div 4)
        /\ AttackScore(league, place, target, code, Taken, bare)
             = Rounded(((400 * n + 0) * 5) \div 4)
    BY <1>3, <1>5, <2>1 DEF AttackScore
  <2>3. Paid(best.stars, n) = 625 * f + 1500 * e
    BY <1>1, <1>5 DEF Paid
  <2> HIDE DEF n, f, e
  <2>4. /\ ((400 * n + 400 * f + 960 * e) * 5) \div 4 = 500 * n + 500 * f + 1200 * e
        /\ ((400 * n + 0) * 5) \div 4 = 500 * n
    BY <1>1, <1>2
  <2>5. /\ Rounded(500 * n + 500 * f + 1200 * e) = 625 * n + 625 * f + 1500 * e
        /\ Rounded(500 * n) = 625 * n
    BY <1>1, <1>2, RoundedExact
  <2>6. Gain(place, target, code, best, r) = 625 * f + 1500 * e
    BY <1>1, <1>2, <1>4, <2>2, <2>4, <2>5
  <2> QED BY <2>3, <2>6 DEF n
<1>6. CASE ~league
  <2>1. /\ TripleBonus(RegularBonus, best, bare) = 640 * e
        /\ TripleBonus(RegularBonus, Taken, bare) = 0
    BY <1>1 DEF TripleBonus, RegularBonus
  <2>2. /\ RegularScore(place, target, code, best, bare) = 400 * n + 400 * f + 640 * e
        /\ RegularScore(place, target, code, Taken, bare) = 400 * n + 0
    BY <1>3, <1>6, <2>1 DEF RegularScore
  <2>3. Paid(best.stars, n) = 500 * f + 800 * e
    BY <1>1, <1>6 DEF Paid
  <2> HIDE DEF n, f, e
  <2>4. /\ Greater(400 * n + 400 * f + 640 * e, Floor) = 400 * n + 400 * f + 640 * e
        /\ Greater(400 * n + 0, Floor) = 400 * n
    BY <1>1, <1>2 DEF Greater, Floor
  <2>5. /\ Rounded(400 * n + 400 * f + 640 * e) = 500 * n + 500 * f + 800 * e
        /\ Rounded(400 * n) = 500 * n
    BY <1>1, <1>2, RoundedExact
  <2>6. /\ AttackScore(league, place, target, code, best, bare) = 500 * n + 500 * f + 800 * e
        /\ AttackScore(league, place, target, code, Taken, bare) = 500 * n
    BY <1>6, <2>2, <2>4, <2>5 DEF AttackScore
  <2>7. Gain(place, target, code, best, r) = 500 * f + 800 * e
    BY <1>1, <1>2, <1>4, <2>6
  <2> QED BY <2>3, <2>7 DEF n
<1> QED BY <1>5, <1>6

\* One whose stars are not is credited nothing, or for three stars above the
\* player what it gains without the bonus: less, if it takes a star.
LEMMA GainUnpaid ==
  ASSUME NEW place \in Nat, NEW target \in Nat, NEW code,
         code = ClaimedTarget \/ (~league /\ code \in {TooLow, AboveSelf}),
         NEW best \in AllResults, NEW r \in AllResults
  PROVE  LET gain == Gain(place, target, code, best, r)
         IN /\ gain \in Int
            /\ r.stars <= best.stars => gain = Paid(best.stars, r.stars)
            /\ best.stars < r.stars => gain < Paid(best.stars, r.stars)
<1> DEFINE bare == [r EXCEPT !.destruction = 0]
           n == r.stars
           f == Greater(n - best.stars, 0)
           gain == Gain(place, target, code, best, r)
<1>1. /\ bare \in AllResults /\ bare.stars = n /\ bare.destruction = 0
      /\ Taken \in AllResults /\ Taken.stars = 3
      /\ n \in 0..3 /\ best.stars \in 0..3
  BY DEF AllResults, Taken
<1>2. f \in 0..3 /\ Greater(n - 3, 0) = 0
  BY <1>1 DEF Greater
<1> HIDE DEF bare
<1>3. gain = AttackScore(league, place, target, code, best, bare)
               - AttackScore(league, place, target, code, Taken, bare)
  BY DEF Gain, bare
<1>4. /\ n <= best.stars => Paid(best.stars, n) = 0
      /\ best.stars < n => Paid(best.stars, n) > 0
  BY <1>1, PaidForNew
<1>5. CASE AttackScore(league, place, target, code, best, bare)
             = AttackScore(league, place, target, code, Taken, bare)
  <2>1. AttackScore(league, place, target, code, Taken, bare) \in Int
    <3>1. CASE code = ClaimedTarget
      BY <3>1 DEF AttackScore
    <3>2. CASE code # ClaimedTarget
      <4> DEFINE x == RegularScore(place, target, code, Taken, bare)
      <4>1. x \in Int
        <5>1. bare.stars <= bare.stars /\ bare.destruction <= bare.destruction
          BY <1>1
        <5> QED BY <1>1, <5>1, RegularMonotone
      <4>2. AttackScore(league, place, target, code, Taken, bare) = Rounded(Greater(x, Floor))
        BY <3>2 DEF AttackScore
      <4> HIDE DEF x
      <4>3. Greater(x, Floor) \in Int
        BY <4>1 DEF Greater, Floor
      <4> QED BY <4>2, <4>3, RoundedBounds
    <3> QED BY <3>1, <3>2
  <2>2. gain = 0
    BY <1>3, <1>5, <2>1
  <2> HIDE DEF gain, n
  <2>3. gain \in Int /\ (n <= best.stars => gain = Paid(best.stars, n))
        /\ (best.stars < n => gain < Paid(best.stars, n))
    BY <1>4, <2>2
  <2> QED BY <2>3 DEF gain, n
<1>6. CASE code = ClaimedTarget
  BY <1>5, <1>6 DEF AttackScore
<1>7. CASE code = TooLow /\ ~league
  <2>1. code # ClaimedTarget /\ code # AboveSelf
    BY <1>7 DEF TooLow, ClaimedTarget, AboveSelf
  <2>2. \A x : RegularScore(place, target, code, x, bare) = TooLowScore(place, target, bare)
    BY <1>7, <2>1 DEF RegularScore
  <2> QED BY <1>5, <1>7, <2>1, <2>2 DEF AttackScore
<1>8. CASE code = AboveSelf /\ ~league
  <2>1. code # ClaimedTarget /\ code # TooLow
    BY <1>8 DEF ClaimedTarget, AboveSelf, TooLow
  <2>2. CASE n < 3
    <3>1. \A x : RegularScore(place, target, code, x, bare) = 0
      BY <1>1, <1>8, <2>1, <2>2 DEF RegularScore
    <3> QED BY <1>5, <1>8, <2>1, <3>1 DEF AttackScore
  <2>3. CASE n = 3
    <3>1. /\ RegularScore(place, target, code, best, bare) = 400 * n + 400 * f
          /\ RegularScore(place, target, code, Taken, bare) = 400 * n
      <4>1. /\ BaseScore(best, bare) = 400 * n + 400 * f
            /\ BaseScore(Taken, bare) = 400 * n
        BY <1>1, <1>2, BareScore
      <4>2. ~(bare.stars < 3)
        BY <1>1, <2>3
      <4> QED BY <1>8, <2>1, <4>1, <4>2 DEF RegularScore
    <3>2. /\ n <= best.stars => f = 0 /\ Paid(best.stars, n) = 0
          /\ best.stars < n => 500 * f < Paid(best.stars, n)
      BY <1>1, <1>8, <2>3, <1>4 DEF Paid, Greater
    <3> HIDE DEF n, f
    <3>3. /\ Greater(400 * n + 400 * f, Floor) = 400 * n + 400 * f
          /\ Greater(400 * n, Floor) = 400 * n
      BY <1>1, <1>2 DEF Greater, Floor
    <3>4. Rounded(400 * n + 400 * f) = 500 * n + 500 * f /\ Rounded(400 * n) = 500 * n
      BY <1>1, <1>2, RoundedExact
    <3>5. /\ AttackScore(league, place, target, code, best, bare) = 500 * n + 500 * f
          /\ AttackScore(league, place, target, code, Taken, bare) = 500 * n
      BY <1>8, <2>1, <3>1, <3>3, <3>4 DEF AttackScore
    <3>6. gain = 500 * f
      BY <1>1, <1>2, <1>3, <3>5
    <3> HIDE DEF gain
    <3>7. gain \in Int /\ (n <= best.stars => gain = Paid(best.stars, n))
          /\ (best.stars < n => gain < Paid(best.stars, n))
      BY <1>2, <3>2, <3>6
    <3> QED BY <3>7 DEF gain, n
  <2> QED BY <1>1, <2>2, <2>3
<1> QED BY <1>6, <1>7, <1>8

\* Up to each attack the credits are what the best result so far gains, or
\* less once an unpaid attack used a star up.
LEMMA CreditsAddUp ==
  ASSUME RankingTyped, NEW c \in Cycles, NEW t
  PROVE  LET S == On(c, t)
             paid  == SumFunction([i \in S |-> Credited(c, i)])
             Took(i) == /\ Attack_(i).result.stars > 0
                        /\ \A j \in S : j < i => Attack_(j).result.stars < Attack_(i).result.stars
         IN /\ Best(S) \in AllResults
            /\ IF \E i \in S : Unpaid(i) /\ Took(i) THEN paid < Paid(0, Best(S).stars)
               ELSE paid = Paid(0, Best(S).stars)
<1> DEFINE S == On(c, t)
           credit == [i \in S |-> Credited(c, i)]
           n(i) == Attack_(i).result.stars
           Took(i) == n(i) > 0 /\ \A j \in S : j < i => n(j) < n(i)
           Upto(k) == {j \in S : j < k}
           b(k) == Best(Upto(k)).stars
           Wasted(k) == \E i \in Upto(k) : Unpaid(i) /\ Took(i)
           Sum(k) == SumFunctionOnSet(credit, Upto(k))
           Done == {k \in Nat : IF Wasted(k) THEN Sum(k) < Paid(0, b(k)) ELSE Sum(k) = Paid(0, b(k))}
<1>1. Len(stored) \in Nat /\ S \subseteq 1..Len(stored)
  <2>1. InCycle(c) \subseteq 1..Len(stored) /\ Len(stored) \in Nat
    BY DEF InCycle, RankingTyped, Open
  <2> QED BY <2>1 DEF On, Counted
<1>2. \A j \in S : j \in Nat /\ 1 <= j /\ j <= Len(stored)
  <2> HIDE DEF S
  <2> QED BY <1>1
<1>3. \A j \in S : /\ Attack_(j).player \in Nat /\ Attack_(j).target \in Nat
                   /\ Attack_(j).result \in AllResults
  <2> SUFFICES ASSUME NEW j \in S
               PROVE  /\ Attack_(j).player \in Nat /\ Attack_(j).target \in Nat
                      /\ Attack_(j).result \in AllResults
    OBVIOUS
  <2>1. stored[j] \in 1..Len(battle)
    BY <1>1, ElementOfSeq DEF RankingTyped
  <2>2. battle[stored[j]] \in Attacks
    BY <2>1, ElementOfSeq DEF RankingTyped
  <2> QED BY <2>2, ContributionRankingAssumption DEF Attack_, Attacks
<1>4. \A j \in S : Before(c, j) = Upto(j)
  BY DEF Before, On
<1>5. \A k \in Nat : IsFiniteSet(Upto(k)) /\ Upto(k) \in SUBSET S
  <2> HIDE DEF S
  <2>1. IsFiniteSet(S)
    <3>1. IsFiniteSet(1..Len(stored))
      BY <1>1, FS_Interval
    <3> QED BY <1>1, <3>1, FS_Subset
  <2>2. \A k \in Nat : Upto(k) \in SUBSET S
    OBVIOUS
  <2> QED BY <2>1, <2>2, FS_Subset
<1>6. \A U \in SUBSET S : Best(U) \in AllResults /\ Best(U).stars \in 0..3
  <2> SUFFICES ASSUME NEW U \in SUBSET S PROVE Best(U) \in AllResults /\ Best(U).stars \in 0..3
    OBVIOUS
  <2>1. CASE U = {}
    BY <2>1 DEF Best, NoResult, AllResults
  <2>2. CASE U # {}
    <3>1. Best(U) \in AllResults
      BY <1>3, <2>2, BestOfSome
    <3> QED BY <3>1 DEF AllResults
  <2> QED BY <2>1, <2>2
<1> HIDE DEF S
<1>7. \A j \in S : n(j) \in 0..3 /\ b(j) \in 0..3
  BY <1>2, <1>3, <1>5, <1>6 DEF AllResults
<1>8. ASSUME NEW j \in S PROVE Took(j) <=> b(j) < n(j)
  <2>1. CASE Upto(j) = {}
    <3>1. b(j) = 0 /\ \A i \in S : ~(i < j)
      BY <2>1, BestOfNone
    <3> QED BY <1>7, <3>1
  <2>2. CASE Upto(j) # {}
    <3>1. /\ Best(Upto(j)) \in {Attack_(i).result : i \in Upto(j)}
          /\ \A i \in Upto(j) : n(i) <= b(j)
      BY <1>3, <2>2, BestOfSome
    <3>2. PICK i \in Upto(j) : b(j) = n(i)
      BY <3>1
    <3>3. Took(j) => b(j) < n(j)
      BY <3>2
    <3>4. b(j) < n(j) => Took(j)
      <4>1. \A x \in S : x < j => n(x) <= b(j)
        BY <3>1
      <4> HIDE DEF b, n
      <4> QED BY <1>7, <4>1
    <3> QED BY <3>3, <3>4
  <2> QED BY <2>1, <2>2
<1>9. ASSUME NEW j \in S
      PROVE  /\ credit[j] \in Int
             /\ IF Unpaid(j) /\ Took(j) THEN credit[j] < Paid(b(j), n(j))
                ELSE credit[j] = Paid(b(j), n(j))
  <2> DEFINE code == verdict[stored[j]]
  <2>1. credit[j] = Gain(Attack_(j).player, Attack_(j).target, code, Best(Upto(j)), Attack_(j).result)
    BY <1>4 DEF Credited
  <2>2. /\ Best(Upto(j)) \in AllResults /\ Attack_(j).result \in AllResults
        /\ Attack_(j).player \in Nat /\ Attack_(j).target \in Nat
    BY <1>2, <1>3, <1>5, <1>6
  <2>3. Unpaid(j) <=> code = ClaimedTarget \/ (~league /\ code \in {TooLow, AboveSelf})
    BY DEF Unpaid
  <2>4. Took(j) <=> b(j) < n(j)
    BY <1>8
  <2>5. n(j) \in 0..3 /\ b(j) \in 0..3 /\ Paid(b(j), n(j)) \in Nat
    BY <1>7, PaidForNew
  <2> HIDE DEF code, credit, Took
  <2>6. CASE ~Unpaid(j)
    <3>1. code # ClaimedTarget /\ (league \/ code \notin {TooLow, AboveSelf})
      BY <2>3, <2>6
    <3>2. credit[j] = Paid(b(j), n(j))
      BY <2>1, <2>2, <3>1, GainPaid
    <3> QED BY <2>5, <2>6, <3>2
  <2>7. CASE Unpaid(j)
    <3>1. /\ credit[j] \in Int
          /\ n(j) <= b(j) => credit[j] = Paid(b(j), n(j))
          /\ b(j) < n(j) => credit[j] < Paid(b(j), n(j))
      BY <2>1, <2>2, <2>3, <2>7, GainUnpaid
    <3> QED BY <2>4, <2>5, <2>7, <3>1
  <2> QED BY <2>6, <2>7
<1> HIDE DEF credit
<1>10. 0 \in Done
  <2>1. Upto(0) = {}
    BY <1>2
  <2>2. Sum(0) = 0 /\ b(0) = 0 /\ ~Wasted(0)
    BY <2>1, SumEmpty, BestOfNone
  <2>3. Paid(0, 0) = 0
    BY PaidForNew
  <2> QED BY <2>2, <2>3
<1>11. ASSUME NEW k \in Nat, k \in Done PROVE k + 1 \in Done
  <2>1. CASE k \notin S
    <3>1. Upto(k + 1) = Upto(k)
      <4>1. \A j \in S : j < k + 1 <=> j < k
        BY <1>2, <2>1
      <4> QED BY <4>1
    <3> QED BY <1>11, <3>1
  <2>2. CASE k \in S
    <3>1. k \in Upto(k + 1) /\ Upto(k + 1) \ {k} = Upto(k) /\ Upto(k) \subseteq Upto(k + 1)
      <4>1. \A j \in S : /\ j < k + 1 <=> (j < k \/ j = k)
                         /\ j < k => j # k
        BY <1>2
      <4>2. k < k + 1
        OBVIOUS
      <4>3. k \in Upto(k + 1) /\ Upto(k) \subseteq Upto(k + 1)
        BY <2>2, <4>1, <4>2
      <4>4. \A j \in S : /\ j \in Upto(k + 1) <=> (j < k \/ j = k)
                         /\ j \in Upto(k) <=> j < k
        BY <4>1
      <4>5. Upto(k + 1) \subseteq S /\ Upto(k) \subseteq S
        OBVIOUS
      <4> HIDE DEF Upto
      <4> QED BY <4>1, <4>3, <4>4, <4>5
    <3>2. /\ IsFiniteSet(Upto(k + 1)) /\ Upto(k + 1) \in SUBSET S /\ Upto(k) \in SUBSET S
          /\ IsFiniteSet(Upto(k))
      <4> HIDE DEF Upto
      <4> QED BY <1>5
    <3> HIDE DEF Upto
    <3>3. \A j \in Upto(k + 1) : credit[j] \in Int
      BY <1>9, <3>2
    <3>4. Sum(k + 1) = credit[k] + Sum(k) /\ Sum(k) \in Int
      BY <3>1, <3>2, <3>3, SumOf, SumType
    <3>5. b(k + 1) = Greater(n(k), b(k))
      <4>1. /\ Best(Upto(k + 1)) \in {Attack_(j).result : j \in Upto(k + 1)}
            /\ \A j \in Upto(k + 1) : n(j) <= b(k + 1)
        BY <1>3, <3>1, <3>2, BestOfSome
      <4>2. n(k) \in 0..3 /\ b(k) \in 0..3 /\ b(k + 1) \in 0..3
        BY <1>6, <1>7, <2>2, <3>2
      <4>3. CASE Upto(k) = {}
        <5>1. b(k) = 0
          BY <4>3, BestOfNone
        <5>2. b(k + 1) = n(k)
          BY <3>1, <4>1, <4>3
        <5> QED BY <4>2, <5>1, <5>2 DEF Greater
      <4>4. CASE Upto(k) # {}
        <5>1. /\ Best(Upto(k)) \in {Attack_(j).result : j \in Upto(k)}
              /\ \A j \in Upto(k) : n(j) <= b(k)
          BY <1>3, <3>2, <4>4, BestOfSome
        <5>2. b(k) <= b(k + 1) /\ n(k) <= b(k + 1)
          BY <3>1, <4>1, <5>1
        <5>3. b(k + 1) = n(k) \/ b(k + 1) <= b(k)
          BY <3>1, <4>1, <5>1
        <5> HIDE DEF n, b
        <5> QED BY <4>2, <5>2, <5>3 DEF Greater
      <4> QED BY <4>3, <4>4
    <3>6. Wasted(k + 1) <=> Wasted(k) \/ (Unpaid(k) /\ Took(k))
      <4> HIDE DEF Took
      <4>1. \A j : j \in Upto(k + 1) <=> j \in Upto(k) \/ j = k
        BY <3>1
      <4> QED BY <4>1
    <3>7. /\ n(k) \in 0..3 /\ b(k) \in 0..3
          /\ Paid(0, b(k)) \in Nat /\ Paid(b(k), n(k)) \in Nat
          /\ Paid(0, b(k)) + Paid(b(k), n(k)) = Paid(0, b(k + 1))
      <4>1. n(k) \in 0..3 /\ b(k) \in 0..3
        BY <1>6, <1>7, <2>2, <3>2
      <4>2. 0 \in 0..3
        OBVIOUS
      <4> HIDE DEF n, b
      <4> QED BY <3>5, <4>1, <4>2, PaidForNew, PaidAddUp
    <3>8. /\ credit[k] \in Int
          /\ IF Unpaid(k) /\ Took(k) THEN credit[k] < Paid(b(k), n(k))
             ELSE credit[k] = Paid(b(k), n(k))
      BY <1>9, <2>2
    <3>9. IF Wasted(k) THEN Sum(k) < Paid(0, b(k)) ELSE Sum(k) = Paid(0, b(k))
      BY <1>11
    <3> DEFINE full == Paid(0, b(k + 1))
               all == Sum(k + 1)
               before == Sum(k)
               due == Paid(0, b(k))
               gain == Paid(b(k), n(k))
               one == credit[k]
    <3>10. /\ all = one + before /\ before \in Int /\ one \in Int
           /\ due \in Nat /\ gain \in Nat /\ due + gain = full
      BY <3>4, <3>7, <3>8
    <3> HIDE DEF full, all, before, due, gain, one
    <3>11. /\ before < due /\ one <= gain => all < full
           /\ before <= due /\ one < gain => all < full
           /\ before = due /\ one = gain => all = full
      BY <3>10
    <3>12. /\ IF Unpaid(k) /\ Took(k) THEN one < gain ELSE one = gain
           /\ IF Wasted(k) THEN before < due ELSE before = due
      BY <3>8, <3>9 DEF before, due, gain, one
    <3> HIDE DEF Wasted, Took
    <3>13. one <= gain /\ before <= due
      BY <3>10, <3>12
    <3>14. IF Wasted(k + 1) THEN all < full ELSE all = full
      BY <3>6, <3>11, <3>12, <3>13
    <3>15. IF Wasted(k + 1) THEN Sum(k + 1) < Paid(0, b(k + 1)) ELSE Sum(k + 1) = Paid(0, b(k + 1))
      BY <3>14 DEF all, full
    <3> HIDE DEF Sum, b
    <3> QED BY <3>15
  <2> QED BY <2>1, <2>2
<1>12. Len(stored) + 1 \in Done
  <2> HIDE DEF Done
  <2>1. Nat \subseteq Done
    BY <1>10, <1>11, AllNaturals
  <2> QED BY <1>1, <2>1
<1>13. Upto(Len(stored) + 1) = S
  <2>1. \A j \in S : j < Len(stored) + 1
    BY <1>1, <1>2
  <2> QED BY <2>1
<1>14. IF \E i \in S : Unpaid(i) /\ Took(i) THEN SumFunctionOnSet(credit, S) < Paid(0, Best(S).stars)
       ELSE SumFunctionOnSet(credit, S) = Paid(0, Best(S).stars)
  <2> HIDE DEF Upto, Took
  <2> QED BY <1>12, <1>13
<1>15. SumFunction(credit) = SumFunctionOnSet(credit, S)
  BY DEF SumFunction, credit
<1>16. Best(S) \in AllResults
  BY <1>6
<1> QED BY <1>14, <1>15, <1>16 DEF S, credit

\* However the attacks on a base are stored, judged and listed, they are
\* credited each of its stars in full once, unless an unpaid attack used one
\* up, for any lineup, enemies and results.
THEOREM StarsPaidOnce == RankingSpec => []StarsCreditedOnce
<1>1. ASSUME RankingTyped PROVE StarsCreditedOnce
  <2> SUFFICES ASSUME NEW c \in Cycles, NEW t,
                      t \in {Attack_(i).target : i \in Counted(c)}
               PROVE  LET paid  == SumFunction([i \in On(c, t) |-> Credited(c, i)])
                          worth == Gain(0, t, NoCode, NoResult, Best(On(c, t)))
                          Took(i) == /\ Attack_(i).result.stars > 0
                                     /\ \A j \in On(c, t) :
                                          j < i => Attack_(j).result.stars < Attack_(i).result.stars
                      IN IF \E i \in On(c, t) : Unpaid(i) /\ Took(i) THEN paid < worth
                         ELSE paid = worth
    BY DEF StarsCreditedOnce
  <2>1. Best(On(c, t)) \in AllResults
    BY <1>1, CreditsAddUp
  <2>2. /\ NoCode # ClaimedTarget /\ NoCode \notin {TooLow, AboveSelf}
        /\ NoResult \in AllResults /\ NoResult.stars = 0
    BY DEF NoCode, ClaimedTarget, TooLow, AboveSelf, NoResult, AllResults
  <2>3. Gain(0, t, NoCode, NoResult, Best(On(c, t))) = Paid(0, Best(On(c, t)).stars)
    BY <2>1, <2>2, GainPaid
  <2> QED BY <1>1, <2>3, CreditsAddUp
<1> QED BY <1>1, RankingType, PTL

-----------------------------------------------------------------------------
(* The decisions as the evaluator computes them: loops over lists.          *)

\* A loop over n elements that computes a value from the one before has one.
LoopSolved(f, n, base, step) ==
  f = [i \in 0..n |-> IF i = 0 THEN base ELSE step[<<f[i - 1], i>>]]

\* Such a loop runs to its end, whatever its step computes.
LEMMA LoopExists ==
  ASSUME NEW n \in Nat, NEW A, NEW base \in A, NEW step \in [A \X (1..n) -> A]
  PROVE  \E f \in [0..n -> A] : LoopSolved(f, n, base, step)
<1> DEFINE Value(f, i) == IF i = 0 THEN base ELSE step[<<f[i - 1], i>>]
           Done == {k \in Nat : \E f \in [0..n -> A] : \A i \in 0..n : i <= k => f[i] = Value(f, i)}
<1>1. 0 \in Done
  <2> DEFINE f == [i \in 0..n |-> base]
  <2>1. f \in [0..n -> A] /\ \A i \in 0..n : i <= 0 => f[i] = Value(f, i)
    OBVIOUS
  <2> QED BY <2>1
<1>2. ASSUME NEW k \in Nat, k \in Done PROVE k + 1 \in Done
  <2>1. PICK f \in [0..n -> A] : \A i \in 0..n : i <= k => f[i] = Value(f, i)
    BY <1>2
  <2> DEFINE g == [i \in 0..n |-> Value(f, i)]
  <2>2. \A i \in 0..n : Value(f, i) \in A
    <3> SUFFICES ASSUME NEW i \in 0..n PROVE Value(f, i) \in A
      OBVIOUS
    <3>1. CASE i # 0
      <4>1. i - 1 \in 0..n /\ i \in 1..n
        BY <3>1
      <4>2. f[i - 1] \in A
        BY <4>1
      <4> QED BY <3>1, <4>1, <4>2
    <3> QED BY <3>1
  <2>3. g \in [0..n -> A]
    BY <2>2
  <2>4. \A i \in 0..n : i <= k => g[i] = f[i]
    BY <2>1
  <2>5. ASSUME NEW i \in 0..n, i <= k + 1 PROVE g[i] = Value(g, i)
    <3>1. CASE i # 0
      <4>1. i - 1 \in 0..n /\ i - 1 <= k
        BY <2>5, <3>1
      <4>2. g[i - 1] = f[i - 1]
        BY <2>4, <4>1
      <4>3. g[i] = Value(f, i)
        OBVIOUS
      <4> HIDE DEF g
      <4> QED BY <3>1, <4>2, <4>3
    <3> QED BY <3>1
  <2> HIDE DEF g, Value
  <2>6. \E h \in [0..n -> A] : \A i \in 0..n : i <= k + 1 => h[i] = Value(h, i)
    BY <2>3, <2>5
  <2> QED BY <2>6
<1> HIDE DEF Done
<1>3. n \in Done
  BY <1>1, <1>2, AllNaturals
<1>4. PICK f \in [0..n -> A] : \A i \in 0..n : i <= n => f[i] = Value(f, i)
  BY <1>3 DEF Done
<1>5. f = [i \in 0..n |-> Value(f, i)]
  BY <1>4
<1> QED BY <1>5 DEF LoopSolved

\* How many elements of S have a smaller key.
Rank(S, key, x) == Cardinality({y \in S : key[y] < key[x]})

\* The ranks are the numbers below the size of S, in the order of the keys.
LEMMA Ranks ==
  ASSUME NEW S, IsFiniteSet(S), NEW key, \A x \in S : key[x] \in Int,
         \A x, y \in S : key[x] = key[y] => x = y
  PROVE  /\ \A x \in S : Rank(S, key, x) \in 0..(Cardinality(S) - 1)
         /\ \A x, y \in S : Rank(S, key, x) < Rank(S, key, y) <=> key[x] < key[y]
         /\ \A r \in 0..(Cardinality(S) - 1) : \E x \in S : Rank(S, key, x) = r
<1> DEFINE Below(x) == {y \in S : key[y] < key[x]}
           rank == [x \in S |-> Rank(S, key, x)]
           n == Cardinality(S)
<1>1. n \in Nat /\ \A T \in SUBSET S : IsFiniteSet(T) /\ Cardinality(T) \in Nat
  BY FS_Subset, FS_CardinalityType
<1>2. \A x \in S : Rank(S, key, x) = Cardinality(Below(x))
  BY DEF Rank
<1>3. \A T \in SUBSET S : T # S => Cardinality(T) < n
  <2> SUFFICES ASSUME NEW T \in SUBSET S, T # S PROVE Cardinality(T) < n
    OBVIOUS
  <2>1. Cardinality(T) <= Cardinality(S) /\ Cardinality(S) # Cardinality(T)
    BY FS_Subset
  <2> QED BY <1>1, <2>1
<1>4. \A x \in S : Rank(S, key, x) \in 0..(n - 1)
  <2> SUFFICES ASSUME NEW x \in S PROVE Rank(S, key, x) \in 0..(n - 1)
    OBVIOUS
  <2>1. Below(x) \in SUBSET S /\ Below(x) # S
    <3>1. x \notin Below(x)
      OBVIOUS
    <3> QED BY <3>1
  <2> HIDE DEF Below, n
  <2>2. Cardinality(Below(x)) < n /\ Cardinality(Below(x)) \in Nat
    BY <1>1, <1>3, <2>1
  <2> QED BY <1>1, <1>2, <2>2
<1>5. ASSUME NEW x \in S, NEW y \in S, key[x] < key[y] PROVE Rank(S, key, x) < Rank(S, key, y)
  <2>1. Below(x) \in SUBSET Below(y) /\ Below(y) \in SUBSET S
    BY <1>5
  <2>2. x \in Below(y) /\ x \notin Below(x)
    BY <1>5
  <2> HIDE DEF Below
  <2>3. /\ Cardinality(Below(x)) <= Cardinality(Below(y))
        /\ Cardinality(Below(y)) # Cardinality(Below(x))
    BY <1>1, <2>1, <2>2, FS_Subset
  <2>4. Cardinality(Below(x)) \in Nat /\ Cardinality(Below(y)) \in Nat
    BY <1>1, <2>1
  <2> QED BY <1>2, <2>3, <2>4
<1>6. \A x, y \in S : Rank(S, key, x) < Rank(S, key, y) <=> key[x] < key[y]
  <2> SUFFICES ASSUME NEW x \in S, NEW y \in S
               PROVE  Rank(S, key, x) < Rank(S, key, y) <=> key[x] < key[y]
    OBVIOUS
  <2>1. Rank(S, key, x) \in Int /\ Rank(S, key, y) \in Int
    BY <1>4
  <2>2. CASE key[x] < key[y]
    BY <1>5, <2>2
  <2>3. CASE key[y] < key[x]
    BY <1>5, <2>1, <2>3
  <2>4. CASE key[x] = key[y]
    BY <2>1, <2>4
  <2> QED BY <2>2, <2>3, <2>4
<1> HIDE DEF n
<1>7. rank \in [S -> 0..(n - 1)] /\ \A x \in S : rank[x] = Rank(S, key, x)
  BY <1>4
<1> HIDE DEF rank
<1>8. \A x, y \in S : rank[x] = rank[y] => x = y
  <2> SUFFICES ASSUME NEW x \in S, NEW y \in S, rank[x] = rank[y] PROVE x = y
    OBVIOUS
  <2>1. rank[x] \in Int
    BY <1>7
  <2>2. ~(rank[x] < rank[y]) /\ ~(rank[y] < rank[x])
    BY <2>1
  <2>3. ~(key[x] < key[y]) /\ ~(key[y] < key[x])
    BY <1>6, <1>7, <2>2
  <2> QED BY <2>3
<1>9. rank \in Injection(S, 0..(n - 1))
  BY <1>7, <1>8 DEF Injection, IsInjective
<1>10. IsFiniteSet(0..(n - 1)) /\ Cardinality(0..(n - 1)) = n
  <2> DEFINE m == n - 1
  <2>1. m \in Int /\ 0 \in Int /\ m + 1 = n /\ (0 > m => n = 0)
    BY <1>1
  <2> HIDE DEF m
  <2>2. IsFiniteSet(0..m) /\ Cardinality(0..m) = IF 0 > m THEN 0 ELSE m - 0 + 1
    BY <2>1, FS_Interval
  <2>3. IsFiniteSet(0..m) /\ Cardinality(0..m) = n
    BY <2>1, <2>2
  <2> QED BY <2>3 DEF m
<1>11. rank \in Surjection(S, 0..(n - 1))
  BY <1>9, <1>10, FS_Injection DEF n
<1>12. \A r \in 0..(n - 1) : \E x \in S : rank[x] = r
  BY <1>11 DEF Surjection
<1> QED BY <1>4, <1>6, <1>7, <1>12 DEF n

\* A sequence lists a set in the order of a key.
Lists(q, S, key) ==
  /\ q \in [1..Cardinality(S) -> S] /\ Len(q) = Cardinality(S) /\ Len(q) \in Nat
  /\ \A x \in S : \E i \in 1..Len(q) : q[i] = x
  /\ \A i, j \in 1..Len(q) : i < j <=> key[q[i]] < key[q[j]]

\* An element chosen by how many lie before it is the one of that rank.
LEMMA ChosenByRank ==
  ASSUME NEW S, IsFiniteSet(S), NEW key, \A x \in S : key[x] \in Int,
         \A x, y \in S : key[x] = key[y] => x = y,
         NEW q, q \in [1..Cardinality(S) -> S],
         \A i \in 1..Cardinality(S) : Rank(S, key, q[i]) = i - 1
  PROVE  Lists(q, S, key)
<1> DEFINE n == Cardinality(S)
<1>1. n \in Nat
  BY FS_CardinalityType
<1>2. \A i \in 1..n : q[i] \in S /\ Rank(S, key, q[i]) = i - 1
  OBVIOUS
<1>3. Len(q) = n
  BY <1>1, LenProperties
<1>4. ASSUME NEW x \in S PROVE \E i \in 1..n : q[i] = x
  <2> DEFINE i == Rank(S, key, x) + 1
  <2>1. Rank(S, key, x) \in 0..(n - 1)
    BY Ranks
  <2>2. i \in 1..n /\ i - 1 = Rank(S, key, x) /\ Rank(S, key, x) \in Int
    <3> DEFINE r == Rank(S, key, x)
    <3> HIDE DEF n, r
    <3>1. r \in 0..(n - 1)
      BY <2>1 DEF r
    <3>2. r + 1 \in 1..n /\ (r + 1) - 1 = r /\ r \in Int
      BY <1>1, <3>1
    <3> QED BY <3>2 DEF r
  <2> HIDE DEF i
  <2>3. q[i] \in S /\ Rank(S, key, q[i]) = Rank(S, key, x)
    BY <1>2, <2>2
  <2>4. ~(key[x] < key[q[i]]) /\ ~(key[q[i]] < key[x])
    BY <2>2, <2>3, Ranks
  <2>5. key[x] \in Int /\ key[q[i]] \in Int
    BY <2>3
  <2>6. key[q[i]] = key[x]
    BY <2>4, <2>5
  <2>7. q[i] = x
    BY <2>3, <2>6
  <2> QED BY <2>2, <2>7
<1>5. \A i, j \in 1..n : i < j <=> key[q[i]] < key[q[j]]
  <2> SUFFICES ASSUME NEW i \in 1..n, NEW j \in 1..n PROVE i < j <=> key[q[i]] < key[q[j]]
    OBVIOUS
  <2>1. Rank(S, key, q[i]) = i - 1 /\ Rank(S, key, q[j]) = j - 1
    BY <1>2
  <2>2. i \in Int /\ j \in Int
    BY <1>1
  <2>3. i < j <=> Rank(S, key, q[i]) < Rank(S, key, q[j])
    BY <2>1, <2>2
  <2> QED BY <1>2, <2>3, Ranks
<1> QED BY <1>1, <1>3, <1>4, <1>5 DEF Lists

\* The attacks of a war, sorted by their number.
Numbers(W) == [b \in W |-> b.order]

\* InOrder lists the attacks by their numbers.
LEMMA InOrderLists ==
  ASSUME NEW W, IsFiniteSet(W), DistinctOrders(W), \A b \in W : b.order \in Int
  PROVE  Lists(InOrder(W), W, Numbers(W))
<1> DEFINE n == Cardinality(W)
           key == Numbers(W)
<1>1. /\ \A x \in W : key[x] = x.order /\ key[x] \in Int
      /\ \A x, y \in W : key[x] = key[y] => x = y
  BY DEF Numbers, DistinctOrders
<1>2. \A x \in W : Rank(W, key, x) = Cardinality({b \in W : b.order < x.order})
  <2> SUFFICES ASSUME NEW x \in W
               PROVE  Rank(W, key, x) = Cardinality({b \in W : b.order < x.order})
    OBVIOUS
  <2>1. {b \in W : key[b] < key[x]} = {b \in W : b.order < x.order}
    BY <1>1
  <2> QED BY <2>1 DEF Rank
<1>3. n \in Nat
  BY FS_CardinalityType
<1>4. InOrder(W) = [i \in 1..n |-> CHOOSE x \in W : Cardinality({b \in W : b.order < x.order}) = i - 1]
  BY DEF InOrder, Sorted
<1> HIDE DEF key
<1>5. ASSUME NEW i \in 1..n PROVE InOrder(W)[i] \in W /\ Rank(W, key, InOrder(W)[i]) = i - 1
  <2>1. i - 1 \in 0..(n - 1)
    BY <1>3
  <2>2. \E x \in W : Rank(W, key, x) = i - 1
    BY <1>1, <2>1, Ranks
  <2>3. \E x \in W : Cardinality({b \in W : b.order < x.order}) = i - 1
    BY <1>2, <2>2
  <2> QED BY <1>2, <1>4, <2>3
<1>6. InOrder(W) \in [1..n -> W]
  BY <1>4, <1>5
<1>7. Lists(InOrder(W), W, key)
  BY <1>1, <1>5, <1>6, ChosenByRank
<1> QED BY <1>7 DEF key

\* The places of a chain, from the player's own towards its end.
LEMMA ChainLists ==
  ASSUME NEW S, IsFiniteSet(S), S \subseteq Int
  PROVE  /\ Lists(Sorted(S, LAMBDA t : t), S, [t \in S |-> t])
         /\ Lists(Sorted(S, LAMBDA t : -t), S, [t \in S |-> -t])
<1> DEFINE n == Cardinality(S)
           up == [t \in S |-> t]
           down == [t \in S |-> -t]
           upwards == Sorted(S, LAMBDA t : t)
           downwards == Sorted(S, LAMBDA t : -t)
<1>1. /\ \A x \in S : up[x] \in Int /\ down[x] \in Int
      /\ \A x, y \in S : up[x] = up[y] => x = y
      /\ \A x, y \in S : down[x] = down[y] => x = y
  OBVIOUS
<1>2. n \in Nat
  BY FS_CardinalityType
<1>3. \A x \in S : Rank(S, up, x) = Cardinality({y \in S : y < x})
  <2> SUFFICES ASSUME NEW x \in S PROVE Rank(S, up, x) = Cardinality({y \in S : y < x})
    OBVIOUS
  <2>1. {y \in S : up[y] < up[x]} = {y \in S : y < x}
    OBVIOUS
  <2> QED BY <2>1 DEF Rank
<1>4. \A x \in S : Rank(S, down, x) = Cardinality({y \in S : -y < -x})
  <2> SUFFICES ASSUME NEW x \in S PROVE Rank(S, down, x) = Cardinality({y \in S : -y < -x})
    OBVIOUS
  <2>1. {y \in S : down[y] < down[x]} = {y \in S : -y < -x}
    OBVIOUS
  <2> QED BY <2>1 DEF Rank
<1>5. upwards = [i \in 1..n |-> CHOOSE x \in S : Cardinality({y \in S : y < x}) = i - 1]
  BY DEF Sorted
<1>6. downwards = [i \in 1..n |-> CHOOSE x \in S : Cardinality({y \in S : -y < -x}) = i - 1]
  BY DEF Sorted
<1> HIDE DEF up, down, upwards, downwards
<1>7. ASSUME NEW i \in 1..n PROVE upwards[i] \in S /\ Rank(S, up, upwards[i]) = i - 1
  <2>1. i - 1 \in 0..(n - 1)
    BY <1>2
  <2>2. \E x \in S : Rank(S, up, x) = i - 1
    BY <1>1, <2>1, Ranks
  <2>3. \E x \in S : Cardinality({y \in S : y < x}) = i - 1
    BY <1>3, <2>2
  <2> QED BY <1>3, <1>5, <2>3
<1>8. ASSUME NEW i \in 1..n PROVE downwards[i] \in S /\ Rank(S, down, downwards[i]) = i - 1
  <2>1. i - 1 \in 0..(n - 1)
    BY <1>2
  <2>2. \E x \in S : Rank(S, down, x) = i - 1
    BY <1>1, <2>1, Ranks
  <2>3. \E x \in S : Cardinality({y \in S : -y < -x}) = i - 1
    BY <1>4, <2>2
  <2> QED BY <1>4, <1>6, <2>3
<1>9. upwards \in [1..n -> S] /\ downwards \in [1..n -> S]
  BY <1>5, <1>6, <1>7, <1>8
<1>10. Lists(upwards, S, up) /\ Lists(downwards, S, down)
  BY <1>1, <1>7, <1>8, <1>9, ChosenByRank
<1> QED BY <1>10 DEF up, down, upwards, downwards

\* The loop of triples_before, and what it has collected after i attacks.
TriplesLoop(q) == CHOOSE f : f = [i \in 0..Len(q) |->
  IF i = 0 THEN {}
  ELSE IF q[i].stars = 3 THEN f[i - 1] \cup {q[i].target} ELSE f[i - 1]]

\* The bases with three stars among the first i attacks of a list.
Tripled(q, i) == {b.target : b \in {c \in {q[j] : j \in 1..i} : c.stars = 3}}

\* The loop over the attacks collects just these.
LEMMA TriplesCollected ==
  ASSUME NEW q, Len(q) \in Nat
  PROVE  \A i \in 0..Len(q) : TriplesLoop(q)[i] = Tripled(q, i)
<1> DEFINE n == Len(q)
           targets == {q[j].target : j \in 1..n}
           step == [p \in (SUBSET targets) \X (1..n) |->
                      IF q[p[2]].stars = 3 THEN p[1] \cup {q[p[2]].target} ELSE p[1]]
           Eq(f) == f = [i \in 0..n |-> IF i = 0 THEN {}
                          ELSE IF q[i].stars = 3 THEN f[i - 1] \cup {q[i].target} ELSE f[i - 1]]
<1>1. step \in [(SUBSET targets) \X (1..n) -> SUBSET targets]
  OBVIOUS
<1>2. PICK f \in [0..n -> SUBSET targets] : LoopSolved(f, n, {}, step)
  <2>1. n \in Nat /\ {} \in SUBSET targets
    OBVIOUS
  <2> HIDE DEF n, step, targets
  <2> QED BY <1>1, <2>1, LoopExists
<1>3. ASSUME NEW i \in 0..n
      PROVE  f[i] = IF i = 0 THEN {}
                    ELSE IF q[i].stars = 3 THEN f[i - 1] \cup {q[i].target} ELSE f[i - 1]
  <2>1. CASE i = 0
    BY <1>2, <2>1 DEF LoopSolved
  <2>2. CASE i # 0
    <3>1. i \in 1..n /\ i - 1 \in 0..n
      BY <2>2
    <3>2. f[i] = step[<<f[i - 1], i>>]
      BY <1>2, <2>2 DEF LoopSolved
    <3>3. f[i - 1] \in SUBSET targets
      BY <3>1
    <3>4. <<f[i - 1], i>> \in (SUBSET targets) \X (1..n)
      BY <3>1, <3>3
    <3>5. step[<<f[i - 1], i>>] = IF q[i].stars = 3 THEN f[i - 1] \cup {q[i].target} ELSE f[i - 1]
      BY <3>4
    <3> QED BY <2>2, <3>2, <3>5
  <2> QED BY <2>1, <2>2
<1>4. Eq(f)
  <2>1. \A i \in 0..n : f[i] = IF i = 0 THEN {}
                    ELSE IF q[i].stars = 3 THEN f[i - 1] \cup {q[i].target} ELSE f[i - 1]
    BY <1>3
  <2> HIDE DEF n, step, targets
  <2> QED BY <1>2, <2>1
<1>5. Eq(TriplesLoop(q))
  BY <1>4 DEF TriplesLoop
<1> DEFINE g == TriplesLoop(q)
<1>6. \A i \in 0..n : g[i] = IF i = 0 THEN {}
                ELSE IF q[i].stars = 3 THEN g[i - 1] \cup {q[i].target} ELSE g[i - 1]
  BY <1>5
<1> HIDE DEF g, Eq
<1> DEFINE Done == {i \in Nat : i <= n => g[i] = Tripled(q, i)}
<1>7. 0 \in Done
  <2>0. 0 \in 0..n
    OBVIOUS
  <2> HIDE DEF n
  <2>1. g[0] = {}
    BY <1>6, <2>0
  <2>2. Tripled(q, 0) = {}
    BY DEF Tripled
  <2> QED BY <2>1, <2>2
<1>8. ASSUME NEW i \in Nat, i \in Done PROVE i + 1 \in Done
  <2>1. CASE i + 1 <= n
    <3> DEFINE k == i + 1
    <3>1. k \in 0..n /\ k # 0 /\ k - 1 = i /\ g[i] = Tripled(q, i)
      BY <1>8, <2>1
    <3>2. \A j : j \in 1..k <=> j \in 1..i \/ j = k
      OBVIOUS
    <3> HIDE DEF k
    <3>3. g[k] = IF q[k].stars = 3 THEN g[i] \cup {q[k].target} ELSE g[i]
      BY <1>6, <3>1
    <3>4. {q[j] : j \in 1..k} = {q[j] : j \in 1..i} \cup {q[k]}
      BY <3>2
    <3>5. Tripled(q, k) = IF q[k].stars = 3 THEN Tripled(q, i) \cup {q[k].target} ELSE Tripled(q, i)
      BY <3>4 DEF Tripled
    <3>6. g[k] = Tripled(q, k)
      BY <3>1, <3>3, <3>5
    <3> QED BY <3>6 DEF k
  <2> QED BY <2>1
<1> HIDE DEF Done
<1>9. \A i \in Nat : i \in Done
  BY <1>7, <1>8, AllNaturals
<1>10. \A i \in 0..n : g[i] = Tripled(q, i)
  BY <1>9 DEF Done
<1> QED BY <1>10 DEF g

\* What the loop noted before an attack is what TriplesBefore says of it.
LEMMA TriplesAgree ==
  ASSUME NEW W, IsFiniteSet(W), DistinctOrders(W), \A b \in W : b.order \in Int, NEW a \in W
  PROVE  TriplesByLoop(InOrder(W))[a] = TriplesBefore(W, a)
<1> DEFINE q == InOrder(W)
           n == Len(q)
           at == CHOOSE i \in DOMAIN q : q[i] = a
<1>1. /\ q \in [1..n -> W] /\ n \in Nat
      /\ \A x \in W : \E i \in 1..n : q[i] = x
      /\ \A i, j \in 1..n : i < j <=> q[i].order < q[j].order
  <2>1. Lists(q, W, Numbers(W))
    BY InOrderLists
  <2> HIDE DEF q
  <2>2. /\ q \in [1..n -> W] /\ n \in Nat
        /\ \A x \in W : \E i \in 1..n : q[i] = x
        /\ \A i, j \in 1..n : i < j <=> Numbers(W)[q[i]] < Numbers(W)[q[j]]
    BY <2>1 DEF Lists
  <2>3. \A i \in 1..n : Numbers(W)[q[i]] = q[i].order
    BY <2>2 DEF Numbers
  <2> QED BY <2>2, <2>3
<1>2. TriplesByLoop(q) = [b \in ToSet(q) |-> TriplesLoop(q)[(CHOOSE i \in DOMAIN q : q[i] = b) - 1]]
  BY DEF TriplesByLoop, TriplesLoop
<1> HIDE DEF q
<1>3. a \in ToSet(q)
  BY <1>1 DEF ToSet
<1>4. at \in 1..n /\ q[at] = a
  BY <1>1
<1>5. TriplesByLoop(q)[a] = TriplesLoop(q)[at - 1]
  BY <1>2, <1>3
<1> HIDE DEF at, n
<1>6. TriplesLoop(q)[at - 1] = Tripled(q, at - 1)
  <2>1. at - 1 \in 0..n
    BY <1>1, <1>4
  <2> QED BY <1>1, <2>1, TriplesCollected DEF n
<1>7. {q[j] : j \in 1..(at - 1)} = {c \in W : c.order < a.order}
  <2>1. ASSUME NEW j \in 1..(at - 1) PROVE q[j] \in W /\ q[j].order < a.order
    <3>1. j \in 1..n /\ j < at
      BY <1>1, <1>4
    <3> QED BY <1>1, <1>4, <3>1
  <2>2. ASSUME NEW c \in W, c.order < a.order PROVE \E j \in 1..(at - 1) : q[j] = c
    <3>1. PICK j \in 1..n : q[j] = c
      BY <1>1
    <3>2. j < at
      BY <1>1, <1>4, <2>2, <3>1
    <3>3. j \in 1..(at - 1)
      BY <1>1, <1>4, <3>2
    <3> QED BY <3>1, <3>3
  <2> QED BY <2>1, <2>2
<1>8. Tripled(q, at - 1) = TriplesBefore(W, a)
  BY <1>7 DEF Tripled, TriplesBefore
<1> QED BY <1>5, <1>6, <1>8 DEF q

\* The walk along a chain, and what it has allowed after i places.
WalkLoop(q, tripled, own) == CHOOSE f : f = [i \in 0..Len(q) |->
  IF i = 0 THEN [allowed |-> {}, stopped |-> FALSE]
  ELSE IF f[i - 1].stopped \/ q[i] \in tripled THEN f[i - 1]
  ELSE [allowed |-> f[i - 1].allowed \cup {q[i]}, stopped |-> q[i] \notin own]]

\* A walk that passed its first i bases: none stopped it.
Passed(q, tripled, own, i) == \A k \in 1..i : q[k] \in tripled \cup own
\* What a walk allows of its first i bases.
Met(q, tripled, own, i) ==
  {q[j] : j \in {k \in 1..i : q[k] \notin tripled /\ Passed(q, tripled, own, k - 1)}}

\* The loop of a walk collects just these.
LEMMA WalkCollected ==
  ASSUME NEW q, Len(q) \in Nat, NEW tripled, NEW own
  PROVE  \A i \in 0..Len(q) : WalkLoop(q, tripled, own)[i].allowed = Met(q, tripled, own, i)
<1> DEFINE n == Len(q)
           places == {q[j] : j \in 1..n}
           states == [allowed : SUBSET places, stopped : BOOLEAN]
           base == [allowed |-> {}, stopped |-> FALSE]
           After(p, i) == IF p.stopped \/ q[i] \in tripled THEN p
                          ELSE [allowed |-> p.allowed \cup {q[i]}, stopped |-> q[i] \notin own]
           step == [p \in states \X (1..n) |-> After(p[1], p[2])]
           Eq(f) == f = [i \in 0..n |-> IF i = 0 THEN base ELSE After(f[i - 1], i)]
<1>1. base \in states /\ \A p \in states, i \in 1..n : After(p, i) \in states
  <2>1. ASSUME NEW p \in states, NEW i \in 1..n PROVE After(p, i) \in states
    <3>1. p.allowed \in SUBSET places /\ q[i] \in places
      OBVIOUS
    <3> HIDE DEF places
    <3>2. [allowed |-> p.allowed \cup {q[i]}, stopped |-> q[i] \notin own] \in states
      BY <3>1
    <3> QED BY <3>2
  <2>2. base \in states
    OBVIOUS
  <2> QED BY <2>1, <2>2
<1>2. PICK f \in [0..n -> states] : LoopSolved(f, n, base, step)
  <2> HIDE DEF After, base, states
  <2>1. step \in [states \X (1..n) -> states] /\ n \in Nat
    BY <1>1
  <2> HIDE DEF n, step
  <2> QED BY <1>1, <2>1, LoopExists
<1>3. ASSUME NEW i \in 0..n
      PROVE  f[i] = IF i = 0 THEN base ELSE After(f[i - 1], i)
  <2> HIDE DEF After, base, states
  <2>1. CASE i = 0
    BY <1>2, <2>1 DEF LoopSolved
  <2>2. CASE i # 0
    <3>1. i \in 1..n /\ i - 1 \in 0..n
      BY <2>2
    <3>2. f[i] = step[<<f[i - 1], i>>]
      BY <1>2, <2>2 DEF LoopSolved
    <3>3. f[i - 1] \in states
      BY <3>1
    <3>4. step[<<f[i - 1], i>>] = After(f[i - 1], i)
      BY <3>1, <3>3
    <3> QED BY <2>2, <3>2, <3>4
  <2> QED BY <2>1, <2>2
<1>4. Eq(f)
  <2>1. \A i \in 0..n : f[i] = IF i = 0 THEN base ELSE After(f[i - 1], i)
    BY <1>3
  <2> HIDE DEF n, step, base, After, states
  <2> QED BY <1>2, <2>1
<1>5. Eq(WalkLoop(q, tripled, own))
  BY <1>4 DEF WalkLoop
<1> DEFINE g == WalkLoop(q, tripled, own)
<1>6. \A i \in 0..n : g[i] = IF i = 0 THEN base ELSE After(g[i - 1], i)
  <2> HIDE DEF base, After
  <2> QED BY <1>5
<1> HIDE DEF g, Eq
<1> DEFINE Known(i) == /\ g[i].allowed = Met(q, tripled, own, i)
                       /\ g[i].stopped <=> ~Passed(q, tripled, own, i)
           Done == {i \in Nat : i <= n => Known(i)}
<1>7. 0 \in Done
  <2>0. 0 \in 0..n
    OBVIOUS
  <2> HIDE DEF n
  <2>1. g[0] = [allowed |-> {}, stopped |-> FALSE]
    BY <1>6, <2>0
  <2>2. Met(q, tripled, own, 0) = {} /\ Passed(q, tripled, own, 0)
    BY DEF Met, Passed
  <2>3. Known(0)
    BY <2>1, <2>2
  <2> QED BY <2>3
<1>8. ASSUME NEW i \in Nat, i \in Done PROVE i + 1 \in Done
  <2>1. CASE i + 1 <= n
    <3> DEFINE k == i + 1
    <3>1. k \in 0..n /\ k # 0 /\ k - 1 = i /\ Known(i) /\ i \in Nat
      BY <1>8, <2>1
    <3>2. \A j : j \in 1..k <=> j \in 1..i \/ j = k
      OBVIOUS
    <3> HIDE DEF k
    <3>3. g[k] = After(g[i], k)
      <4> HIDE DEF After, base, Known, n
      <4> QED BY <1>6, <3>1
    <3>4. Passed(q, tripled, own, k) <=> Passed(q, tripled, own, i) /\ q[k] \in tripled \cup own
      BY <3>2 DEF Passed
    <3>5. Met(q, tripled, own, k) =
            Met(q, tripled, own, i) \cup
              (IF q[k] \notin tripled /\ Passed(q, tripled, own, i) THEN {q[k]} ELSE {})
      <4> DEFINE Here(j) == q[j] \notin tripled /\ Passed(q, tripled, own, j - 1)
      <4>1. Here(k) <=> q[k] \notin tripled /\ Passed(q, tripled, own, i)
        BY <3>1
      <4> HIDE DEF Here
      <4>2. {q[j] : j \in {l \in 1..k : Here(l)}} =
              {q[j] : j \in {l \in 1..i : Here(l)}} \cup (IF Here(k) THEN {q[k]} ELSE {})
        BY <3>2
      <4>3. Met(q, tripled, own, k) = {q[j] : j \in {l \in 1..k : Here(l)}}
        BY DEF Met, Here
      <4>4. Met(q, tripled, own, i) = {q[j] : j \in {l \in 1..i : Here(l)}}
        BY DEF Met, Here
      <4> QED BY <4>1, <4>2, <4>3, <4>4
    <3>6. g[i].allowed = Met(q, tripled, own, i) /\ (g[i].stopped <=> ~Passed(q, tripled, own, i))
      BY <3>1
    <3>7. CASE g[i].stopped \/ q[k] \in tripled
      <4>1. g[k] = g[i]
        BY <3>3, <3>7
      <4>2. Met(q, tripled, own, k) = Met(q, tripled, own, i)
        BY <3>5, <3>6, <3>7
      <4>3. Passed(q, tripled, own, k) <=> Passed(q, tripled, own, i)
        BY <3>4, <3>6, <3>7
      <4> QED BY <3>6, <4>1, <4>2, <4>3 DEF k
    <3>8. CASE ~g[i].stopped /\ q[k] \notin tripled
      <4>1. g[k] = [allowed |-> g[i].allowed \cup {q[k]}, stopped |-> q[k] \notin own]
        BY <3>3, <3>8
      <4>2. g[k].allowed = g[i].allowed \cup {q[k]} /\ (g[k].stopped <=> q[k] \notin own)
        BY <4>1
      <4>3. Met(q, tripled, own, k) = Met(q, tripled, own, i) \cup {q[k]}
        BY <3>5, <3>6, <3>8
      <4>4. Passed(q, tripled, own, k) <=> q[k] \in own
        BY <3>4, <3>6, <3>8
      <4> QED BY <3>6, <4>2, <4>3, <4>4 DEF k
    <3> QED BY <3>7, <3>8
  <2> QED BY <2>1
<1> HIDE DEF Done
<1>9. \A i \in Nat : i \in Done
  BY <1>7, <1>8, AllNaturals
<1>10. \A i \in 0..n : Known(i)
  BY <1>9 DEF Done
<1>11. \A i \in 0..n : g[i].allowed = Met(q, tripled, own, i)
  BY <1>10
<1> QED BY <1>11 DEF g

\* Walking along a list of S allows what is not tripled and can be reached
\* through places that are tripled or bridged.
LEMMA WalkAllows ==
  ASSUME NEW S, NEW key, \A x \in S : key[x] \in Int, NEW q, Lists(q, S, key),
         NEW tripled, NEW own
  PROVE  Walk(q, tripled, own) =
           {t \in S : /\ t \notin tripled
                      /\ \A u \in S : key[u] < key[t] => u \in tripled \cup own}
<1> DEFINE n == Len(q)
<1>1. /\ q \in [1..n -> S] /\ n \in Nat
      /\ \A x \in S : \E i \in 1..n : q[i] = x
      /\ \A i, j \in 1..n : i < j <=> key[q[i]] < key[q[j]]
  BY DEF Lists
<1>2. Walk(q, tripled, own) = WalkLoop(q, tripled, own)[n].allowed
  BY DEF Walk, WalkLoop
<1>3. Walk(q, tripled, own) = Met(q, tripled, own, n)
  <2>1. n \in 0..n
    BY <1>1
  <2> QED BY <1>1, <1>2, <2>1, WalkCollected
<1> HIDE DEF n
<1>4. ASSUME NEW i \in 1..n
      PROVE  Passed(q, tripled, own, i - 1) <=>
               \A u \in S : key[u] < key[q[i]] => u \in tripled \cup own
  <2>1. ASSUME Passed(q, tripled, own, i - 1), NEW u \in S, key[u] < key[q[i]]
        PROVE  u \in tripled \cup own
    <3>1. PICK j \in 1..n : q[j] = u
      BY <1>1
    <3>2. j \in 1..(i - 1)
      BY <1>1, <2>1, <3>1
    <3> QED BY <2>1, <3>1, <3>2 DEF Passed
  <2>2. ASSUME \A u \in S : key[u] < key[q[i]] => u \in tripled \cup own
        PROVE  Passed(q, tripled, own, i - 1)
    <3>1. ASSUME NEW k \in 1..(i - 1) PROVE q[k] \in tripled \cup own
      <4>1. k \in 1..n /\ k < i
        BY <1>1
      <4>2. q[k] \in S /\ key[q[k]] < key[q[i]]
        BY <1>1, <4>1
      <4> QED BY <2>2, <4>2
    <3> QED BY <3>1 DEF Passed
  <2> QED BY <2>1, <2>2
<1>5. ASSUME NEW t PROVE t \in Met(q, tripled, own, n) <=>
        \E i \in 1..n : t = q[i] /\ q[i] \notin tripled /\ Passed(q, tripled, own, i - 1)
  BY DEF Met
<1>6. ASSUME NEW t PROVE t \in Met(q, tripled, own, n) <=>
        t \in S /\ t \notin tripled /\ \A u \in S : key[u] < key[t] => u \in tripled \cup own
  <2>1. ASSUME t \in S, t \notin tripled, \A u \in S : key[u] < key[t] => u \in tripled \cup own
        PROVE  t \in Met(q, tripled, own, n)
    <3>1. PICK i \in 1..n : q[i] = t
      BY <1>1, <2>1
    <3>2. Passed(q, tripled, own, i - 1)
      BY <1>4, <2>1, <3>1
    <3> QED BY <1>5, <2>1, <3>1, <3>2
  <2>2. ASSUME t \in Met(q, tripled, own, n)
        PROVE  t \in S /\ t \notin tripled /\ \A u \in S : key[u] < key[t] => u \in tripled \cup own
    <3>1. PICK i \in 1..n : t = q[i] /\ q[i] \notin tripled /\ Passed(q, tripled, own, i - 1)
      BY <1>5, <2>2
    <3>2. q[i] \in S
      BY <1>1
    <3>3. \A u \in S : key[u] < key[q[i]] => u \in tripled \cup own
      BY <1>4, <3>1
    <3> QED BY <3>1, <3>2, <3>3
  <2> QED BY <2>1, <2>2
<1> QED BY <1>3, <1>6

\* The sorted attacks are those that were sorted.
LEMMA InOrderHas ==
  ASSUME NEW W, IsFiniteSet(W), DistinctOrders(W), \A b \in W : b.order \in Int
  PROVE  /\ ToSet(InOrder(W)) = W
         /\ Len(InOrder(W)) = Cardinality(W) /\ DOMAIN InOrder(W) = 1..Len(InOrder(W))
<1>1. Lists(InOrder(W), W, Numbers(W))
  BY InOrderLists
<1> DEFINE q == InOrder(W)
<1> HIDE DEF q
<1>2. /\ q \in [1..Len(q) -> W] /\ Len(q) = Cardinality(W)
      /\ \A x \in W : \E i \in 1..Len(q) : q[i] = x
  BY <1>1 DEF Lists, q
<1>3. ToSet(q) = W
  BY <1>2 DEF ToSet
<1> QED BY <1>2, <1>3 DEF q

\* A player's place is that of the first of the sorted attacks.
LEMMA FirstPlace ==
  ASSUME NEW own, IsFiniteSet(own), DistinctOrders(own), \A b \in own : b.order \in Int, own # {}
  PROVE  InOrder(own)[1].position = PlaceOf(own) /\ InOrder(own)[1] \in own
<1> DEFINE q == InOrder(own)
           n == Len(q)
<1>1. Lists(q, own, Numbers(own))
  BY InOrderLists
<1> HIDE DEF q
<1>2. /\ q \in [1..n -> own] /\ n \in Nat
      /\ \A x \in own : \E i \in 1..n : q[i] = x
      /\ \A i, j \in 1..n : i < j <=> Numbers(own)[q[i]] < Numbers(own)[q[j]]
  BY <1>1 DEF Lists
<1>3. 1 \in 1..n
  BY <1>2
<1>4. q[1] \in own
  BY <1>2, <1>3
<1>5. \A b \in own : q[1].order <= b.order
  <2> SUFFICES ASSUME NEW b \in own PROVE q[1].order <= b.order
    OBVIOUS
  <2>1. PICK i \in 1..n : q[i] = b
    BY <1>2
  <2>2. ~(i < 1)
    BY <1>2
  <2>3. ~(Numbers(own)[q[i]] < Numbers(own)[q[1]])
    BY <1>2, <1>3, <2>2
  <2>4. ~(b.order < q[1].order)
    BY <1>4, <2>1, <2>3 DEF Numbers
  <2> QED BY <1>4, <2>4
<1>6. \A b \in own : (\A c \in own : b.order <= c.order) => b = q[1]
  <2> SUFFICES ASSUME NEW b \in own, \A c \in own : b.order <= c.order PROVE b = q[1]
    OBVIOUS
  <2>1. b.order = q[1].order
    BY <1>4, <1>5
  <2> QED BY <1>4, <2>1 DEF DistinctOrders
<1>7. (CHOOSE b \in own : \A c \in own : b.order <= c.order) = q[1]
  BY <1>4, <1>5, <1>6
<1> QED BY <1>4, <1>7 DEF PlaceOf, q

\* The two walks of the source reach what Reached says.
LEMMA WalksReach ==
  ASSUME NEW w, IsFiniteSet(w.roster), w.roster \subseteq Int, NEW place \in Int,
         NEW tripled, NEW own, NEW upwards, NEW downwards,
         LET above == {t \in w.roster : t < place - 1}
         IN  Lists(upwards, above, [t \in above |-> -t]),
         LET below == {t \in w.roster : t > place + 3}
         IN  Lists(downwards, below, [t \in below |-> t])
  PROVE  Reached(w, place, tripled, own) =
           Walk(upwards, tripled, own) \cup Walk(downwards, tripled, own)
<1> DEFINE above == {t \in w.roster : t < place - 1}
           below == {t \in w.roster : t > place + 3}
           up == [t \in above |-> -t]
           down == [t \in below |-> t]
           Clear(t) == \A u \in w.roster : MetBefore(place, u, t) => u \in tripled \cup own
<1>1. \A t \in w.roster : t \in Int
  OBVIOUS
<1>2. Lists(upwards, above, up) /\ Lists(downwards, below, down)
  OBVIOUS
<1>3. Walk(upwards, tripled, own) =
        {t \in above : t \notin tripled /\ \A u \in above : up[u] < up[t] => u \in tripled \cup own}
  <2>1. \A x \in above : up[x] \in Int
    BY <1>1
  <2>2. Lists(upwards, above, up)
    BY <1>2
  <2> HIDE DEF above, up
  <2> QED BY ONLY <2>1, <2>2, WalkAllows
<1>4. Walk(downwards, tripled, own) =
        {t \in below : t \notin tripled /\ \A u \in below : down[u] < down[t] => u \in tripled \cup own}
  <2>1. \A x \in below : down[x] \in Int
    BY <1>1
  <2>2. Lists(downwards, below, down)
    BY <1>2
  <2> HIDE DEF below, down
  <2> QED BY ONLY <2>1, <2>2, WalkAllows
<1>5. ASSUME NEW t \in above
      PROVE  (\A u \in above : up[u] < up[t] => u \in tripled \cup own) <=> Clear(t)
  <2>1. \A u \in w.roster : MetBefore(place, u, t) <=> u \in above /\ t < u
    BY <1>1 DEF MetBefore
  <2>2. \A u \in above : up[u] < up[t] <=> t < u
    BY <1>1
  <2> HIDE DEF up
  <2>3. (\A u \in above : up[u] < up[t] => u \in tripled \cup own) <=>
        (\A u \in w.roster : u \in above /\ t < u => u \in tripled \cup own)
    BY <2>2
  <2> QED BY <2>1, <2>3
<1>6. ASSUME NEW t \in below
      PROVE  (\A u \in below : down[u] < down[t] => u \in tripled \cup own) <=> Clear(t)
  <2>1. \A u \in w.roster : MetBefore(place, u, t) <=> u \in below /\ u < t
    BY <1>1 DEF MetBefore
  <2>2. \A u \in below : down[u] < down[t] <=> u < t
    OBVIOUS
  <2> HIDE DEF down
  <2>3. (\A u \in below : down[u] < down[t] => u \in tripled \cup own) <=>
        (\A u \in w.roster : u \in below /\ u < t => u \in tripled \cup own)
    BY <2>2
  <2> QED BY <2>1, <2>3
<1>7. w.roster \ Base(w, place) = above \cup below
  BY <1>1 DEF Base
<1>8. Reached(w, place, tripled, own) =
        {t \in w.roster \ Base(w, place) : t \notin tripled /\ Clear(t)}
  BY DEF Reached
<1> HIDE DEF above, below, up, down, Clear
<1>9. Reached(w, place, tripled, own) =
        {t \in above : t \notin tripled /\ Clear(t)} \cup {t \in below : t \notin tripled /\ Clear(t)}
  BY <1>7, <1>8
<1>10. Walk(upwards, tripled, own) = {t \in above : t \notin tripled /\ Clear(t)}
  BY <1>3, <1>5
<1>11. Walk(downwards, tripled, own) = {t \in below : t \notin tripled /\ Clear(t)}
  BY <1>4, <1>6
<1> QED BY <1>9, <1>10, <1>11

\* The decision of the loops is the one of ViolationRules, for any war, any
\* attacks with numbers of their own, at any time.
LEMMA LoopsDecide ==
  ASSUME NEW w, IsFiniteSet(w.roster), w.roster \subseteq Int, w.start \in Int,
         NEW fought, IsFiniteSet(fought), DistinctOrders(fought),
         \A b \in fought : b.order \in Int /\ b.position \in Int /\ b.seen \in Int,
         NEW at, NEW a \in fought
  PROVE  LoopDecision(w, fought, at, a) = Decide(w, fought, at, a)
<1>0. w.start + Window \in Int /\ a.seen \in Int
  <2>1. Window \in Int
    BY BoundsReachTheWindow
  <2>2. a.seen \in Int
    OBVIOUS
  <2>3. w.start + Window \in Int
    BY <2>1
  <2> QED BY <2>2, <2>3
<1> DEFINE known    == InWindow(w, fought)
           window   == InOrder({b \in fought : b.seen <= w.start + Window})
           before   == TriplesByLoop(window)
           mine     == InOrder({b \in ToSet(window) : b.attacker = a.attacker})
           place    == mine[1].position
           base     == {t \in w.roster : t \in (place - 1)..(place + 3)}
           outer    == {b \in ToSet(mine) : /\ b.target \notin base
                                            /\ base # {}
                                            /\ base \subseteq before[b]}
           above    == Sorted({t \in w.roster : t < place - 1}, LAMBDA t : -t)
           below    == Sorted({t \in w.roster : t > place + 3}, LAMBDA t : t)
           bridges  == {b.target : b \in {c \in outer : c.stars = 3}}
           open     == Walk(above, before[a], bridges) \cup Walk(below, before[a], bridges)
           settled  == \/ \E i \in DOMAIN mine : mine[i].order > a.order
                       \/ w.quota # NoQuota /\ Len(mine) >= w.quota
                       \/ at >= w.start + Window
                       \/ w.ended
           own      == ByPlayer(known, a.attacker)
           external == {b \in own : IsExternal(w, known, PlaceOf(own), b)}
           tripled   == TriplesBefore(known, a)
<1>1. LoopDecision(w, fought, at, a) =
        IF ~w.timed \/ a.seen > w.start + Window THEN Allowed
        ELSE IF a.target \in base THEN Allowed
        ELSE IF a \notin outer THEN [code |-> CodeFor(a), final |-> TRUE]
        ELSE IF a.target \in before[a] \/ a.target \in open THEN Allowed
        ELSE [code |-> CodeFor(a), final |-> settled]
  BY DEF LoopDecision, CodeFor
<1>2. Decide(w, fought, at, a) =
        IF ~w.timed \/ a \notin known \/ a.target \in Base(w, PlaceOf(own)) THEN Allowed
        ELSE IF a \notin external THEN [code |-> CodeFor(a), final |-> TRUE]
        ELSE IF a.target \in tripled \cup Reached(w, PlaceOf(own), tripled, Bridges(external))
        THEN Allowed
        ELSE [code |-> CodeFor(a), final |-> IsFinal(w, own, at, a)]
  BY DEF Decide
<1> HIDE DEF before, settled, outer, base, place, open, external, tripled, own, above, below
<1>3. CASE ~w.timed \/ a.seen > w.start + Window
  <2>1. a.seen > w.start + Window => a \notin known
    <3> DEFINE until == w.start + Window
    <3>1. a \in known => a.seen <= until
      BY DEF InWindow
    <3>2. until \in Int
      BY <1>0
    <3> HIDE DEF until, known
    <3>3. a.seen > until => a \notin known
      BY <1>0, <3>1, <3>2
    <3> QED BY <3>3 DEF until
  <2> HIDE DEF known
  <2>2. LoopDecision(w, fought, at, a) = Allowed
    BY <1>1, <1>3
  <2>3. Decide(w, fought, at, a) = Allowed
    BY <1>2, <1>3, <2>1
  <2> QED BY <2>2, <2>3
<1>4. CASE w.timed /\ ~(a.seen > w.start + Window)
  <2>1. a \in known /\ known \in SUBSET fought
    <3> DEFINE until == w.start + Window
    <3>1. until \in Int /\ a.seen \in Int /\ ~(a.seen > until)
      BY <1>0, <1>4
    <3>2. known = {b \in fought : b.seen <= until}
      BY DEF InWindow
    <3> HIDE DEF until, known
    <3>3. a.seen <= until
      BY <3>1
    <3> QED BY <3>2, <3>3
  <2>2. IsFiniteSet(known) /\ DistinctOrders(known)
    BY <2>1, FS_Subset DEF DistinctOrders
  <2>3. \A b \in known : b.order \in Int /\ b.position \in Int
    BY <2>1
  <2>4. window = InOrder(known)
    BY DEF InWindow
  <2> HIDE DEF known, window
  <2>5. \A b \in known : before[b] = TriplesBefore(known, b)
    BY <2>2, <2>3, <2>4, TriplesAgree DEF before
  <2>6. ToSet(window) = known
    BY <2>2, <2>3, <2>4, InOrderHas
  <2>7. mine = InOrder(own)
    BY <2>6 DEF own, ByPlayer
  <2>8. /\ own \in SUBSET known /\ a \in own /\ IsFiniteSet(own) /\ DistinctOrders(own)
        /\ \A b \in own : b.order \in Int
    BY <2>1, <2>2, <2>3, FS_Subset DEF own, ByPlayer, DistinctOrders
  <2> HIDE DEF mine
  <2>9. place = PlaceOf(own) /\ place \in Int
    <3>1. mine[1].position = PlaceOf(own) /\ mine[1] \in own
      BY <2>7, <2>8, FirstPlace
    <3> QED BY <2>3, <2>8, <3>1 DEF place
  <2>10. base = Base(w, place)
    BY <2>9 DEF base, Base
  <2>11. ToSet(mine) = own /\ Len(mine) = Cardinality(own) /\ DOMAIN mine = 1..Len(mine)
    BY <2>7, <2>8, InOrderHas
  <2>12. outer = external
    BY <2>5, <2>8, <2>9, <2>10, <2>11 DEF outer, external, IsExternal
  <2>13. before[a] = tripled
    BY <2>1, <2>5 DEF tripled
  <2>14. open = Reached(w, place, tripled, Bridges(external))
    <3>1. bridges = Bridges(external)
      BY <2>12 DEF Bridges
    <3> HIDE DEF bridges
    <3>2. open = Walk(above, tripled, Bridges(external)) \cup Walk(below, tripled, Bridges(external))
      BY <2>13, <3>1 DEF open
    <3>3. Reached(w, place, tripled, Bridges(external)) =
            Walk(above, tripled, Bridges(external)) \cup Walk(below, tripled, Bridges(external))
      <4> DEFINE higher == {t \in w.roster : t < place - 1}
                 lower == {t \in w.roster : t > place + 3}
                 bridged == Bridges(external)
                 up == [t \in higher |-> -t]
                 down == [t \in lower |-> t]
      <4>1. IsFiniteSet(higher) /\ higher \subseteq Int /\ IsFiniteSet(lower) /\ lower \subseteq Int
        BY FS_Subset
      <4>2. Lists(above, higher, up) /\ Lists(below, lower, down)
        <5> HIDE DEF higher, lower
        <5> QED BY <4>1, ChainLists DEF above, below, higher, lower
      <4> HIDE DEF bridges, bridged
      <4>3. Reached(w, place, tripled, bridged) = Walk(above, tripled, bridged) \cup Walk(below, tripled, bridged)
        BY <2>9, <4>2, WalksReach
      <4> QED BY <4>3 DEF bridged
    <3> QED BY <3>2, <3>3
  <2>15. settled = IsFinal(w, own, at, a)
    <3>1. (\E i \in DOMAIN mine : mine[i].order > a.order) <=> \E b \in own : b.order > a.order
      BY <2>11 DEF ToSet
    <3> QED BY <2>11, <3>1 DEF settled, IsFinal
  <2>16. [code |-> CodeFor(a), final |-> settled] = [code |-> CodeFor(a), final |-> IsFinal(w, own, at, a)]
    BY <2>15
  <2> HIDE DEF bridges
  <2>17. LoopDecision(w, fought, at, a) =
           IF a.target \in base THEN Allowed
           ELSE IF a \notin outer THEN [code |-> CodeFor(a), final |-> TRUE]
           ELSE IF a.target \in before[a] \/ a.target \in open THEN Allowed
           ELSE [code |-> CodeFor(a), final |-> settled]
    BY <1>1, <1>4
  <2>18. Decide(w, fought, at, a) =
           IF a.target \in Base(w, PlaceOf(own)) THEN Allowed
           ELSE IF a \notin external THEN [code |-> CodeFor(a), final |-> TRUE]
           ELSE IF a.target \in tripled \cup Reached(w, PlaceOf(own), tripled, Bridges(external))
           THEN Allowed
           ELSE [code |-> CodeFor(a), final |-> IsFinal(w, own, at, a)]
    BY <1>2, <1>4, <2>1
  <2>19. Base(w, PlaceOf(own)) = base /\ Reached(w, PlaceOf(own), tripled, Bridges(external)) = open
    BY <2>9, <2>10, <2>14
  <2> QED BY <2>12, <2>13, <2>16, <2>17, <2>18, <2>19
<1> QED BY <1>3, <1>4

\* Attackers have a place in the war.
PlacesKnown == \A b \in attacks : b.position \in Int

\* No step changes that.
LEMMA PlacesStep == ASSUME PlacesKnown, [Next]_vars PROVE PlacesKnown'
<1>1. ASSUME NEW p \in Fighters(war), NEW t \in war.roster, NEW s \in StarsOf(p), Fight(p, t, s)
      PROVE  PlacesKnown'
  <2>1. p \in Int
    BY DEF Fighters
  <2> QED BY <1>1, <2>1 DEF Fight, PlacesKnown
<1>2. CASE UNCHANGED attacks
  BY <1>2 DEF PlacesKnown
<1> QED BY <1>1, <1>2 DEF Next, EndWar, Poll, vars

\* The loops of evaluate_war_attack_violations and the definitions of
\* ViolationRules decide every attack in the same way, whatever was fought and
\* whenever it is looked at.
THEOREM LoopsAgree == Spec => []AgreesWithLoops
<1>1. Init => PlacesKnown
  BY DEF Init, PlacesKnown
<1>2. Spec => []PlacesKnown
  BY <1>1, PlacesStep, PTL DEF Spec
<1>3. Spec => []PollsInv
  BY PollsBegin, PollsStep, PTL DEF Spec
<1>4. PollsInv /\ PlacesKnown => AgreesWithLoops
  <2> SUFFICES ASSUME PollsInv, PlacesKnown, NEW a \in attacks
               PROVE  Decide(war, attacks, clock, a) = LoopDecision(war, attacks, clock, a)
    BY DEF AgreesWithLoops
  <2>1. AttacksTyped
    BY DEF PollsInv
  <2>2. war.start \in Int /\ war.roster \in Rosters
    BY <2>1 DEF AttacksTyped
  <2>3. war.roster \subseteq Int /\ IsFiniteSet(war.roster)
    <3>1. \A r \in Rosters : r \in SUBSET (1..7)
      BY DEF Rosters
    <3>2. war.roster \in SUBSET (1..7)
      BY <2>2, <3>1
    <3>3. IsFiniteSet(1..7)
      <4> DEFINE first == 1
                 end == 7
      <4>1. first \in Int /\ end \in Int
        OBVIOUS
      <4> HIDE DEF first, end
      <4>2. IsFiniteSet(first..end)
        BY <4>1, FS_Interval
      <4> QED BY <4>2 DEF first, end
    <3> HIDE DEF Rosters
    <3> QED BY <3>2, <3>3, FS_Subset
  <2>4. IsFiniteSet(attacks) /\ DistinctOrders(attacks)
    BY <2>1 DEF AttacksTyped
  <2>5. \A b \in attacks : b.order \in Int /\ b.position \in Int /\ b.seen \in Int
    BY <2>1 DEF AttacksTyped, DistinctOrders, PlacesKnown
  <2> QED BY <2>2, <2>3, <2>4, <2>5, LoopsDecide
<1> QED BY <1>2, <1>3, <1>4, PTL
=============================================================================
