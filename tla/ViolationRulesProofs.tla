------------------------- MODULE ViolationRulesProofs -------------------------
(***************************************************************************)
(* What holds of a decision on an attack in every war, whoever fights it:  *)
(* the facts that the proofs about the poll (WarSyncProofs) and about the  *)
(* decisions of successive polls (WarScoresProofs) rest on.                *)
(***************************************************************************)
EXTENDS ViolationRules, FiniteSetTheorems, TLAPS

\* Whatever war, attacks and time it is given, the evaluation answers with a
\* decision: a positional code or none, final or pending
\* (evaluate_war_attack_violations).
LEMMA DecideShape ==
  ASSUME NEW war, NEW attacks, NEW at, NEW a
  PROVE  Decide(war, attacks, at, a) \in Decisions
<1>1. CodeFor(a) \in PositionalCodes
  BY DEF CodeFor, PositionalCodes
<1>2. \A own : IsFinal(war, own, at, a) \in BOOLEAN
  BY DEF IsFinal
<1> QED BY <1>1, <1>2 DEF Decide, Allowed, Decisions

\* A set of numbers that is not empty has a least one.
LEMMA LeastNatural ==
  ASSUME NEW T \in SUBSET Nat, T # {}
  PROVE  \E x \in T : \A y \in T : x <= y
<1> DEFINE R == OpToRel(<, Nat)
<1>1. \A x, y \in Nat : y < x => <<y, x>> \in R
  BY DEF OpToRel
<1>2. IsWellFoundedOn(R, Nat)
  BY NatLessThanWellFounded
<1> HIDE DEF R
<1>3. PICK x \in T : \A y \in T : <<y, x>> \notin R
  BY <1>2, WFMin
<1> QED
  <2>1. ASSUME NEW y \in T PROVE x <= y
    <3>1. ~(y < x)
      BY <1>1, <1>3
    <3> QED BY <3>1
  <2> QED BY <2>1

\* The attacks of a war have each an order of its own.
DistinctOrders(attacks) ==
  /\ \A b \in attacks : b.order \in Nat
  /\ \A b, c \in attacks : b.order = c.order => b = c

\* The place of a member is that of the first attack, so later ones do not move it.
LEMMA PlaceStands ==
  ASSUME NEW own, NEW more, own \subseteq more, own # {}, DistinctOrders(more),
         \A b \in own, c \in more \ own : b.order < c.order
  PROVE  PlaceOf(own) = PlaceOf(more)
<1> DEFINE orders == {b.order : b \in own}
<1>1. orders \in SUBSET Nat /\ orders # {}
  BY DEF DistinctOrders
<1>2. PICK o \in orders : \A p \in orders : o <= p
  <2> HIDE DEF orders
  <2> QED BY <1>1, LeastNatural
<1>3. PICK m \in own : \A b \in own : m.order <= b.order
  BY <1>2
<1>4. \A b \in more : m.order <= b.order
  BY <1>3 DEF DistinctOrders
<1>5. m = CHOOSE a \in own : \A b \in own : a.order <= b.order
  BY <1>3 DEF DistinctOrders
<1>6. m = CHOOSE a \in more : \A b \in more : a.order <= b.order
  BY <1>3, <1>4 DEF DistinctOrders
<1> QED BY <1>5, <1>6 DEF PlaceOf

\* No triple before an attack appears later: attacks are seen in their order.
LEMMA TriplesStand ==
  ASSUME NEW judged, NEW more, judged \subseteq more, DistinctOrders(more),
         \A b \in judged, c \in more \ judged : b.order < c.order,
         NEW a \in judged
  PROVE  TriplesBefore(judged, a) = TriplesBefore(more, a)
<1>1. \A c \in more : c.order < a.order => c \in judged
  BY DEF DistinctOrders
<1> QED BY <1>1 DEF TriplesBefore

\* A decision once final stands when attacks made later are added, time passes
\* or the war ends.  A permission stands since later attacks of the member only
\* open more targets.  A violation stands since the member's place, what was
\* tripled before the attack and, for an attack that left a closed base, the
\* member's own attacks are settled by then.  With more than two attacks per
\* member this would be false, since evaluate_war_attack_violations calls an
\* attack final once a second follows.
LEMMA DecisionStands ==
  ASSUME NEW war, NEW later, NEW A, NEW B, NEW at \in Int, NEW at2 \in Int, NEW a \in A,
         Window \in Int, war.start \in Int, war.timed = later.timed, war.start = later.start,
         war.roster = later.roster, war.quota = later.quota,
         war.ended => later.ended /\ A = B,
         at <= at2, A \subseteq B, IsFiniteSet(B), DistinctOrders(B),
         \A b \in B : b.seen \in Int,
         \A b \in A, c \in B \ A : b.order < c.order,
         at >= war.start + Window => \A c \in B \ A : c.seen > war.start + Window,
         \/ war.quota = NoQuota
         \/ war.quota \in Nat /\ Cardinality(ByPlayer(B, a.attacker)) <= war.quota,
         Cardinality(ByPlayer(B, a.attacker)) <= 2,
         Decide(war, A, at, a).final
  PROVE  Decide(later, B, at2, a) = Decide(war, A, at, a)
<1> DEFINE judged  == InWindow(war, A)
           judged2 == InWindow(later, B)
           own     == ByPlayer(judged, a.attacker)
           own2    == ByPlayer(judged2, a.attacker)
           place   == PlaceOf(own)
           place2  == PlaceOf(own2)
           external  == {b \in own : IsExternal(war, judged, place, b)}
           external2 == {b \in own2 : IsExternal(later, judged2, place2, b)}
           closed  == TriplesBefore(judged, a)
           closed2 == TriplesBefore(judged2, a)
<1>1. /\ judged = judged2 \cap A /\ judged \subseteq judged2 /\ judged2 \subseteq B
      /\ DistinctOrders(judged2)
      /\ \A b \in judged, c \in judged2 \ judged : b.order < c.order
  BY DEF InWindow, DistinctOrders
<1>2. CASE ~war.timed \/ a \notin judged
  BY <1>1, <1>2 DEF Decide
<1>3. ASSUME a \in judged
      PROVE  /\ a \in own /\ own \subseteq own2 /\ own = own2 \cap A
             /\ place2 = place
  <2>2. a \in own /\ own \subseteq own2 /\ own = own2 \cap A
    BY <1>1, <1>3 DEF ByPlayer
  <2>1. DistinctOrders(own2) /\ \A b \in own, c \in own2 \ own : b.order < c.order
    BY <1>1, <2>2 DEF ByPlayer, DistinctOrders
  <2> HIDE DEF own, own2
  <2> QED BY <2>1, <2>2, PlaceStands
<1>5. \A b \in judged : TriplesBefore(judged, b) = TriplesBefore(judged2, b)
  <2> HIDE DEF judged, judged2
  <2> QED BY <1>1, TriplesStand
<1>6. (a \in judged => closed2 = closed) /\ \A p : Base(later, p) = Base(war, p)
  BY <1>5 DEF Base
<1>7. CASE war.timed /\ a \in judged
  <2>1. a \in own /\ own \subseteq own2 /\ own = own2 \cap A /\ place2 = place
    BY <1>3, <1>7
  <2>2. \A b \in own : IsExternal(later, judged2, place2, b) <=> IsExternal(war, judged, place, b)
    <3>1. \A b \in own : TriplesBefore(judged, b) = TriplesBefore(judged2, b)
      BY <1>5 DEF ByPlayer
    <3> HIDE DEF judged, judged2, own, place, place2
    <3> QED BY <1>6, <2>1, <3>1 DEF IsExternal
  <2>3. external \subseteq external2 /\ (a \in external2 => a \in external)
    BY <2>1, <2>2
  <2>4. CASE a.target \in Base(war, place)
    BY <1>1, <1>6, <1>7, <2>1, <2>4 DEF Decide
  <2>5. CASE a.target \notin Base(war, place) /\ a \notin external
    <3>1. Decide(war, A, at, a) = [code |-> CodeFor(a), final |-> TRUE]
      BY <1>7, <2>5 DEF Decide
    <3>2. Decide(later, B, at2, a) = [code |-> CodeFor(a), final |-> TRUE]
      BY <1>1, <1>6, <1>7, <2>1, <2>3, <2>5 DEF Decide
    <3> QED BY <3>1, <3>2
  <2>6. CASE a.target \notin Base(war, place) /\ a \in external
    <3> DEFINE open  == closed \cup Reached(war, place, closed, Bridges(external))
               open2 == closed2 \cup Reached(later, place2, closed2, Bridges(external2))
    <3>1. /\ Decide(war, A, at, a) =
               IF a.target \in open THEN Allowed
               ELSE [code |-> CodeFor(a), final |-> IsFinal(war, own, at, a)]
          /\ Decide(later, B, at2, a) =
               IF a.target \in open2 THEN Allowed
               ELSE [code |-> CodeFor(a), final |-> IsFinal(later, own2, at2, a)]
      BY <1>1, <1>6, <1>7, <2>1, <2>3, <2>6 DEF Decide
    <3>2. open \subseteq open2
      <4>1. Bridges(external) \subseteq Bridges(external2)
        BY <2>3 DEF Bridges
      <4>2. closed2 = closed /\ place2 = place /\ Base(later, place2) = Base(war, place)
        BY <1>6, <1>7, <2>1
      <4> HIDE DEF external, external2, closed, closed2, place, place2
      <4> QED BY <4>1, <4>2 DEF Reached
    <3>3. CASE a.target \in open
      BY <3>1, <3>2, <3>3
    <3>4. CASE a.target \notin open
      <4>1. IsFinal(war, own, at, a)
        BY <3>1, <3>4
      <4>2. own2 = own
        <5>1. IsFiniteSet(own2) /\ Cardinality(own2) <= 2
              /\ (war.quota # NoQuota => war.quota \in Nat /\ Cardinality(own2) <= war.quota)
          <6>1. own2 \in SUBSET ByPlayer(B, a.attacker) /\ ByPlayer(B, a.attacker) \in SUBSET B
            BY <1>1 DEF ByPlayer
          <6>2. /\ IsFiniteSet(ByPlayer(B, a.attacker)) /\ IsFiniteSet(own2)
                /\ Cardinality(own2) <= Cardinality(ByPlayer(B, a.attacker))
            BY <6>1, FS_Subset
          <6> QED BY <6>2, FS_CardinalityType
        <5>2. /\ own \in SUBSET own2 /\ IsFiniteSet(own)
              /\ Cardinality(own) \in Nat /\ Cardinality(own2) \in Nat
              /\ Cardinality(own) <= Cardinality(own2)
              /\ Cardinality(own2) = Cardinality(own) => own2 = own
          BY <2>1, <5>1, FS_Subset, FS_CardinalityType
        <5>3. CASE \E b \in own : b.order > a.order
          <6>1. PICK b \in own : b.order > a.order
            BY <5>3
          <6>2. b # a /\ {a, b} \in SUBSET own
            BY <1>1, <2>1, <6>1 DEF DistinctOrders, ByPlayer
          <6>3. Cardinality({a, b}) = 2
            <7>1. IsFiniteSet({a}) /\ Cardinality({a}) = 1 /\ b \notin {a}
              BY <6>2, FS_Singleton
            <7>2. Cardinality({a} \cup {b})
                    = IF b \in {a} THEN Cardinality({a}) ELSE Cardinality({a}) + 1
              BY <7>1, FS_AddElement, Zenon
            <7>3. {a} \cup {b} = {a, b}
              OBVIOUS
            <7> QED BY <7>1, <7>2, <7>3
          <6>4. Cardinality(own) >= 2
            BY <5>2, <6>2, <6>3, FS_Subset
          <6> QED BY <5>1, <5>2, <6>4
        <5>4. CASE war.quota # NoQuota /\ Cardinality(own) >= war.quota
          BY <5>1, <5>2, <5>4
        <5>5. CASE at >= war.start + Window
          BY <1>1, <2>1, <5>5 DEF InWindow, ByPlayer
        <5>6. CASE war.ended
          BY <1>1, <2>1, <5>6 DEF ByPlayer
        <5> HIDE DEF own, own2
        <5> QED BY <4>1, <5>3, <5>4, <5>5, <5>6 DEF IsFinal
      <4>3. external2 = external
        BY <2>2, <4>2
      <4>4. open2 = open
        BY <1>6, <1>7, <2>1, <4>3 DEF Reached
      <4>5. IsFinal(later, own2, at2, a) = TRUE /\ IsFinal(war, own, at, a) = TRUE
        BY <4>1, <4>2 DEF IsFinal
      <4> HIDE DEF open, open2
      <4> QED BY <3>1, <3>4, <4>4, <4>5
    <3> QED BY <3>3, <3>4
  <2> QED BY <2>4, <2>5, <2>6
<1> QED BY <1>2, <1>7

=============================================================================
