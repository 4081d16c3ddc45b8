--------------------------- MODULE ViolationRules ---------------------------
(***************************************************************************)
(* The positional rules of a regular clan war, as computed by              *)
(* evaluate_war_attack_violations (app/domain/violation_rules.py).  The    *)
(* function is pure: it maps the attacks known of one war to a decision    *)
(* per attack.                                                             *)
(*                                                                         *)
(* An attack is a record                                                   *)
(*   order    - the API's global ordinal of the attack in its war; unique  *)
(*              in a war, so that the key (order, id) is the order alone   *)
(*   attacker - the player,   position - the attacker's place on the map   *)
(*   target   - the defender's place on the map                            *)
(*   stars    - 0..3                                                       *)
(*   seen     - observed_at, the time of the poll that first saw it        *)
(* A war is a record                                                       *)
(*   timed  - the start time is known and the war is not a league war      *)
(*   start  - start time,     roster - the enemy's places on the map       *)
(*   quota  - attacks per member, or NoQuota when the payload has none     *)
(*   ended  - the war is over                                              *)
(* The reason text is a function of the code and is left out.              *)
(***************************************************************************)
EXTENDS Integers, FiniteSets

CONSTANTS Window,   \* TWELVE_HOURS
          NoQuota   \* stands for attacks_per_member = None

AboveSelf == "above_self"
TooLow    == "too_low"
NoCode    == "none"
PositionalCodes == {AboveSelf, TooLow}

\* ViolationDecision: violated is code # NoCode.
Decisions == [code : PositionalCodes \cup {NoCode}, final : BOOLEAN]
Allowed   == [code |-> NoCode, final |-> TRUE]
Violated(d) == d.code # NoCode

-----------------------------------------------------------------------------
(* Mutated forms of the definitions below: what a plausible slip in the     *)
(* code would compute.  Used to see that the properties can fail.           *)

MutantTriplesBefore(attacks, a) ==      \* any triple counts, earlier or later
  {b.target : b \in {c \in attacks : c.stars = 3}}

MutantIsFinal(war, own, at, a) ==       \* every decision is final at once
  TRUE

MutantOnlyByAttacks(war, own, at, a) == \* neither the clock nor the end settles
  \/ \E b \in own : b.order > a.order
  \/ war.quota # NoQuota /\ Cardinality(own) >= war.quota

-----------------------------------------------------------------------------
(* Attacks after the first twelve hours are not judged and open nothing.    *)
InWindow(war, attacks) == {a \in attacks : a.seen <= war.start + Window}

(* Targets tripled by anyone strictly before the attack.                    *)
TriplesBefore(attacks, a) ==
  {b.target : b \in {c \in attacks : c.order < a.order /\ c.stars = 3}}

ByPlayer(attacks, p) == {a \in attacks : a.attacker = p}

(* A player's place is that of the first attack in the window.              *)
PlaceOf(own) == (CHOOSE a \in own : \A b \in own : a.order <= b.order).position

Base(war, place) == {t \in war.roster : place - 1 <= t /\ t <= place + 3}

(* An attack is external when it leaves a base that is completely closed.   *)
IsExternal(war, attacks, place, a) ==
  LET base == Base(war, place)
  IN  /\ a.target \notin base
      /\ base # {}
      /\ base \subseteq TriplesBefore(attacks, a)

(* Targets the player's own external attacks tripled, at any time.          *)
Bridges(own) == {b.target : b \in {c \in own : c.stars = 3}}

(* The chain above runs away from the player upwards, the one below         *)
(* downwards; u is met before t on the chain of t.                          *)
MetBefore(place, u, t) ==
  \/ t < u /\ u < place - 1
  \/ place + 3 < u /\ u < t

(* A target is reached when it is still open and everything met before it   *)
(* on its chain was tripled before the attack or is bridged by the player.  *)
Reached(war, place, closed, bridged) ==
  {t \in war.roster \ Base(war, place) :
     /\ t \notin closed
     /\ \A u \in war.roster : MetBefore(place, u, t) => u \in closed \cup bridged}

CodeFor(a) == IF a.target < a.position THEN AboveSelf ELSE TooLow

(* A violation that a later attack of the same player could still legalize  *)
(* stays pending.                                                           *)
IsFinal(war, own, at, a) ==
  \/ \E b \in own : b.order > a.order
  \/ war.quota # NoQuota /\ Cardinality(own) >= war.quota
  \/ at >= war.start + Window
  \/ war.ended

(* The decision on attack a of the war, evaluated at time at.               *)
Decide(war, attacks, at, a) ==
  LET judged   == InWindow(war, attacks)
      own      == ByPlayer(judged, a.attacker)
      place    == PlaceOf(own)
      external == {b \in own : IsExternal(war, judged, place, b)}
      closed   == TriplesBefore(judged, a)
  IN  IF ~war.timed \/ a \notin judged \/ a.target \in Base(war, place) THEN Allowed
      ELSE IF a \notin external THEN [code |-> CodeFor(a), final |-> TRUE]
      ELSE IF a.target \in closed \cup Reached(war, place, closed, Bridges(external))
      THEN Allowed
      ELSE [code |-> CodeFor(a), final |-> IsFinal(war, own, at, a)]
=============================================================================
