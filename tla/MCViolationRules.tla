-------------------------- MODULE MCViolationRules --------------------------
(***************************************************************************)
(* Model checking of ViolationRules.  A war is fought attack by attack and *)
(* looked at by polls; after every poll the decisions are recomputed from  *)
(* scratch.  The closed forms of ViolationRules are compared with the      *)
(* loops of the source, and the decisions of successive polls with each    *)
(* other.                                                                  *)
(***************************************************************************)
EXTENDS ViolationRules, Sequences, SequencesExt

CONSTANTS MaxAttacks,   \* bound: attacks fought in a behaviour
          LastPoll      \* bound: time of the last poll; beyond start + Window

\* Rosters in which two places close a base after two triples and a chain of
\* two targets remains, above the player in one and below in the other.
Rosters == {{2, 3, 4, 5}, {1, 2, 6, 7}}
Wars ==
  {[timed |-> TRUE, start |-> 0, roster |-> r, quota |-> 2, ended |-> FALSE] : r \in Rosters}
  \cup {[timed |-> b, start |-> 0, roster |-> {2, 3, 4, 5},
         quota |-> NoQuota, ended |-> FALSE] : b \in BOOLEAN}

\* Who fights, by place.  One of the two always triples.  A war whose start
\* is not known judges nobody, and one fighter is enough to see that.
Fighters(w) == IF ~w.timed THEN {5} ELSE IF 6 \in w.roster THEN {1, 2} ELSE {4, 5}
StarsOf(p)  == IF p \in {1, 4} THEN {3} ELSE {2, 3}

VARIABLES war, attacks, clock, judged
vars == <<war, attacks, clock, judged>>

ASSUME BoundsReachTheWindow == Window \in Nat /\ LastPoll \in Nat /\ LastPoll > Window

Init ==
  /\ war \in Wars
  /\ attacks = {}
  /\ clock = 0
  /\ judged = << >>

\* A member attacks a base for the first time; the poll at time clock sees it.
Fight(p, t, s) ==
  /\ Cardinality(attacks) < MaxAttacks
  /\ clock <= LastPoll
  /\ ~war.ended
  /\ Cardinality(ByPlayer(attacks, p)) < 2
  /\ \A a \in ByPlayer(attacks, p) : a.target # t
  /\ attacks' = attacks \cup
       {[order |-> Cardinality(attacks) + 1, attacker |-> p, position |-> p,
         target |-> t, stars |-> s, seen |-> clock]}
  /\ UNCHANGED <<war, clock, judged>>

EndWar ==
  /\ ~war.ended
  /\ attacks # {}
  /\ war' = [war EXCEPT !.ended = TRUE]
  /\ UNCHANGED <<attacks, clock, judged>>

Attack(n) == CHOOSE a \in attacks : a.order = n

Poll ==
  /\ clock <= LastPoll
  /\ judged' = [n \in 1..Cardinality(attacks) |-> Decide(war, attacks, clock, Attack(n))]
  /\ clock' = clock + 1
  /\ UNCHANGED <<war, attacks>>

Next ==
  \/ \E p \in Fighters(war), t \in war.roster : \E s \in StarsOf(p) : Fight(p, t, s)
  \/ EndWar
  \/ Poll

Spec == Init /\ [][Next]_vars

-----------------------------------------------------------------------------
(* The loops of the source, in their order.                                 *)

\* sorted(S, key=Key), no two having the same key: at place i the one before
\* which there are i - 1.
Sorted(S, Key(_)) ==
  [i \in 1..Cardinality(S) |->
     CHOOSE x \in S : Cardinality({y \in S : Key(y) < Key(x)}) = i - 1]

InOrder(S) == Sorted(S, LAMBDA a : a.order)

\* for target in chain: skip what was tripled, add, stop at the first target
\* the player did not triple.
Walk(chain, tripled, own) ==
  LET after[i \in 0..Len(chain)] ==
        IF i = 0 THEN [allowed |-> {}, stopped |-> FALSE]
        ELSE IF after[i - 1].stopped \/ chain[i] \in tripled THEN after[i - 1]
        ELSE [allowed |-> after[i - 1].allowed \cup {chain[i]},
              stopped |-> chain[i] \notin own]
  IN  after[Len(chain)].allowed

\* triples_before: one pass over the attacks in the window.
TriplesByLoop(window) ==
  LET tripled[i \in 0..Len(window)] ==
        IF i = 0 THEN {}
        ELSE IF window[i].stars = 3 THEN tripled[i - 1] \cup {window[i].target}
        ELSE tripled[i - 1]
  IN  [a \in ToSet(window) |-> tripled[(CHOOSE i \in DOMAIN window : window[i] = a) - 1]]

LoopDecision(w, as, at, a) ==
  LET window == InOrder({b \in as : b.seen <= w.start + Window})
      before == TriplesByLoop(window)
      mine   == InOrder({b \in ToSet(window) : b.attacker = a.attacker})
      place  == mine[1].position
      base   == {t \in w.roster : t \in (place - 1)..(place + 3)}
      outer  == {b \in ToSet(mine) : /\ b.target \notin base
                                     /\ base # {}
                                     /\ base \subseteq before[b]}
      above  == Sorted({t \in w.roster : t < place - 1}, LAMBDA t : -t)
      below  == Sorted({t \in w.roster : t > place + 3}, LAMBDA t : t)
      own    == {b.target : b \in {c \in outer : c.stars = 3}}
      open   == Walk(above, before[a], own) \cup Walk(below, before[a], own)
      code   == IF a.target < a.position THEN AboveSelf ELSE TooLow
  IN  IF ~w.timed \/ a.seen > w.start + Window THEN Allowed
      ELSE IF a.target \in base THEN Allowed
      ELSE IF a \notin outer THEN [code |-> code, final |-> TRUE]
      ELSE IF a.target \in before[a] \/ a.target \in open THEN Allowed
      ELSE [code  |-> code,
            final |-> \/ \E i \in DOMAIN mine : mine[i].order > a.order
                      \/ w.quota # NoQuota /\ Len(mine) >= w.quota
                      \/ at >= w.start + Window
                      \/ w.ended]

-----------------------------------------------------------------------------
(* Properties                                                               *)

\* The set definitions of ViolationRules compute what the loops of
\* evaluate_war_attack_violations compute, for every attack known so far,
\* whenever they are evaluated.
AgreesWithLoops ==
  \A a \in attacks : Decide(war, attacks, clock, a) = LoopDecision(war, attacks, clock, a)

\* A decision reported as final is never revised by a later poll: neither a
\* permission nor a final violation changes once more attacks are known.
\* Administrators are told of a violation when it becomes final, so this is
\* what keeps an announced violation from being withdrawn.
SettledStands ==
  [][\A n \in DOMAIN judged : judged[n].final => judged'[n] = judged[n]]_vars
=============================================================================
