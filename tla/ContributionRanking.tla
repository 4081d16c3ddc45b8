------------------------- MODULE ContributionRanking -------------------------
(***************************************************************************)
(* The ranking of the players' contributions over a war                    *)
(* (build_contribution_calculation in app/services/dev_contribution.py),   *)
(* recomputed whenever somebody asks for it, while polls store what has    *)
(* been fought, verdicts on attacks change, players leave and return, and  *)
(* the end of a league season closes the cycle.                            *)
(*                                                                         *)
(* The polls stamp the attacks with the time they first see them, member   *)
(* by member; a cycle takes the attacks by that time, but the war by its   *)
(* start.  Players are named by their places on the map.                   *)
(***************************************************************************)
EXTENDS ContributionScore, Sequences, SequencesExt, FiniteSetsExt

CONSTANTS Lineup,     \* places of the clan's members in the war
          Enemies,    \* places of the enemy's
          Results,    \* results of an attack
          Limits      \* bounds: attacks, changes of a verdict, moves

ASSUME ContributionRankingAssumption ==
  /\ Lineup \subseteq Nat \ {0} /\ Enemies \subseteq Nat \ {0}
  /\ Results \subseteq AllResults
  /\ Limits \subseteq [fights : Nat, verdicts : Nat, moves : Nat]

VARIABLES
  league,  \* a league war, or a regular one
  battle,  \* the attacks of the game, in their order
  stored,  \* numbers of the attacks stored, in the order of observed_at
  verdict, \* the code stored with each attack
  over,    \* the war has ended
  cut,     \* attacks stored before the cycle ended, or Open
  present, \* who is in the clan now
  limit    \* what is left of the bounds

rankingVars == <<league, battle, stored, verdict, over, cut, present, limit>>

Open   == -1
Quota  == IF league THEN 1 ELSE 2
Made(p) == {n \in 1..Len(battle) : battle[n].player = p}

RankingInit ==
  /\ league \in BOOLEAN
  /\ battle = << >> /\ stored = << >> /\ verdict = << >>
  /\ over = FALSE /\ cut = Open
  /\ present = Lineup
  /\ limit \in Limits

-----------------------------------------------------------------------------
\* A member of the lineup attacks, in the clan or not, a base he had not.
Strike == \E p \in Lineup, t \in Enemies, r \in Results :
  /\ ~over /\ limit.fights > 0 /\ limit' = [limit EXCEPT !.fights = @ - 1]
  /\ Cardinality(Made(p)) < Quota
  /\ \A n \in Made(p) : battle[n].target # t
  /\ battle' = Append(battle, [player |-> p, target |-> t, result |-> r])
  /\ UNCHANGED <<league, stored, verdict, over, cut, present>>

\* Verdicts that a war of this kind may give: a positional one outside the
\* base by the poll, a claimed target by an administrator.
Codes(n) ==
  LET a == [target |-> battle[n].target, position |-> battle[n].player]
  IN IF league THEN {NoCode}
     ELSE {NoCode, ClaimedTarget}
          \cup (IF a.target \in (a.position - 1)..(a.position + 3) THEN {} ELSE {CodeFor(a)})

\* One poll stores what is new, member after member.
Look ==
  LET new == 1..Len(battle) \ ToSet(stored)
      First(m, n) == \/ battle[m].player < battle[n].player
                     \/ battle[m].player = battle[n].player /\ m < n
  IN /\ new # {}
     /\ \E found \in SetToSeqs(new) :
          /\ \A i, j \in DOMAIN found : i < j => First(found[i], found[j])
          /\ stored' = stored \o found
     /\ verdict' \in [ToSet(stored') -> {NoCode, ClaimedTarget, AboveSelf, TooLow}]
     /\ \A n \in ToSet(stored') :
          IF n \in new THEN verdict'[n] \in Codes(n) \ {ClaimedTarget}
                       ELSE verdict'[n] = verdict[n]
     /\ UNCHANGED <<league, battle, over, cut, present, limit>>

\* A later poll or an administrator judges an attack anew.
Judge == \E n \in ToSet(stored) : \E c \in Codes(n) \ {verdict[n]} :
  /\ limit.verdicts > 0 /\ limit' = [limit EXCEPT !.verdicts = @ - 1]
  /\ verdict' = [verdict EXCEPT ![n] = c]
  /\ UNCHANGED <<league, battle, stored, over, cut, present>>

Leave == \E p \in present :
  /\ limit.moves > 0 /\ limit' = [limit EXCEPT !.moves = @ - 1]
  /\ present' = present \ {p}
  /\ UNCHANGED <<league, battle, stored, verdict, over, cut>>

Return == \E p \in Lineup \ present :
  /\ limit.moves > 0 /\ limit' = [limit EXCEPT !.moves = @ - 1]
  /\ present' = present \cup {p}
  /\ UNCHANGED <<league, battle, stored, verdict, over, cut>>

\* The war ends; the last one of a league season ends the cycle, which the
\* next poll records with the end of the war as its boundary.
EndOfWar ==
  /\ ~over /\ over' = TRUE
  /\ cut' \in IF league THEN {Open, Len(stored)} ELSE {Open}
  /\ UNCHANGED <<league, battle, stored, verdict, present, limit>>

RankingNext ==
  \/ Strike \/ Look \/ Judge \/ Leave \/ Return \/ EndOfWar

RankingSpec == RankingInit /\ [][RankingNext]_rankingVars

-----------------------------------------------------------------------------
(* The ranking.  Once the cycle has ended, that of the new cycle is the     *)
(* current one, and the ended one lists who was in the clan during it.      *)
Cycles == IF cut = Open THEN {"current"} ELSE {"current", "ended"}

\* Positions in stored; the current ranking leaves out attacks of players who
\* are not in the clan now.
InCycle(c) == IF cut = Open THEN 1..Len(stored)
              ELSE IF c = "ended" THEN 1..cut
              ELSE (cut + 1)..Len(stored)
Listed(c) == IF c = "ended" THEN Lineup ELSE present
Attack_(i) == battle[stored[i]]
Counted(c) == {i \in InCycle(c) : Attack_(i).player \in Listed(c)}

On(c, t)   == {i \in Counted(c) : Attack_(i).target = t}
By(c, p)   == {i \in Counted(c) : Attack_(i).player = p}

MutantBefore(c, i) ==  \* by the player, not the time  \* mutated
  {j \in On(c, Attack_(i).target) :
     Attack_(j).player < Attack_(i).player}
MutantBeforeUnclaimed(c, i) ==  \* a claimed target is forgotten  \* mutated
  {j \in On(c, Attack_(i).target) : j < i /\ verdict[stored[j]] # ClaimedTarget}
Before(c, i) == {j \in On(c, Attack_(i).target) : j < i}

\* Stars first, then destruction.
Best(S) ==
  LET found  == {Attack_(j).result : j \in S}
      Worse(x, y) == x.stars < y.stars \/ (x.stars = y.stars /\ x.destruction <= y.destruction)
  IN IF S = {} THEN NoResult ELSE CHOOSE y \in found : \A x \in found : Worse(x, y)

Score(c, i) ==
  LET a == Attack_(i)
  IN AttackScore(league, a.player, a.target, verdict[stored[i]], Best(Before(c, i)), a.result)

MutantUsed(c, p) ==  \* claimed targets are not counted  \* mutated
  Cardinality({i \in By(c, p) : verdict[stored[i]] # ClaimedTarget})
Used(c, p) == Cardinality(By(c, p))

\* Bases nobody who is listed attacked.
Left(c) == {t \in Enemies : On(c, t) = {}}

\* The war is one of the cycle in which it began.
Fine(c, p) ==
  IF ~over \/ (c = "current" /\ cut # Open) THEN 0
  ELSE IF league THEN LeagueFine(Used(c, p), Left(c))
  ELSE RegularFine(Used(c, p), p, Left(c))

-----------------------------------------------------------------------------
\* A score a player was shown stands: a poll that finds more attacks changes
\* no earlier attack's score and adds no fine; only a new verdict, a member
\* leaving or returning, or the end of the war or the cycle does.
ScoresStand ==
  [][(/\ stored' # stored
      /\ cut' = cut /\ present' = present /\ over' = over
      /\ \A n \in ToSet(stored) : verdict'[n] = verdict[n])
     => \A c \in Cycles :
          /\ \A i \in Counted(c) : Score(c, i)' = Score(c, i)
          /\ \A p \in Listed(c) : Fine(c, p)' >= Fine(c, p)]_rankingVars

\* What the stars of an attack are credited over the half that they are worth
\* on a base that is taken: the same attack's score with the best result found
\* less its score there.  Destruction is left out, which counts in full again
\* on a base of which nobody took a star.
Taken == [stars |-> 3, destruction |-> 100]
Gain(place, target, code, best, r) ==
  LET bare == [r EXCEPT !.destruction = 0]
  IN AttackScore(league, place, target, code, best, bare)
       - AttackScore(league, place, target, code, Taken, bare)

Credited(c, i) ==
  LET a == Attack_(i)
  IN Gain(a.player, a.target, verdict[stored[i]], Best(Before(c, i)), a.result)

\* The attacks whose stars are not paid, or not with the bonus for three: on a
\* claimed target, and in a regular war too low or above the player.
Unpaid(i) == \/ verdict[stored[i]] = ClaimedTarget
             \/ ~league /\ verdict[stored[i]] \in {TooLow, AboveSelf}

\* Each star of a base is paid in full once, to whoever takes it first.  What
\* the listed attacks on a base are credited for being first, in whatever
\* order the polls saw them, adds up to what their best result is credited to
\* one player alone.  The exception: an unpaid attack that took a star nobody
\* had taken before it uses it up, for the next one finds it taken, and all
\* the attacks together are credited less.
StarsCreditedOnce ==
  \A c \in Cycles : \A t \in {Attack_(i).target : i \in Counted(c)} :
    LET paid  == SumFunction([i \in On(c, t) |-> Credited(c, i)])
        worth == Gain(0, t, NoCode, NoResult, Best(On(c, t)))
        Took(i) == /\ Attack_(i).result.stars > 0
                   /\ \A j \in On(c, t) :
                        j < i => Attack_(j).result.stars < Attack_(i).result.stars
    IN IF \E i \in On(c, t) : Unpaid(i) /\ Took(i) THEN paid < worth ELSE paid = worth

\* Whoever is fined for attacks he did not make has an attack left, or made
\* one that no poll had seen when the cycle ended or that none has seen yet.
FinedOnlyIfUnused ==
  \A c \in Cycles : \A p \in Listed(c) :
    Fine(c, p) # 0 =>
      \/ Cardinality(Made(p)) < Quota
      \/ \E n \in Made(p) : n \notin {stored[i] : i \in InCycle(c)}
=============================================================================
