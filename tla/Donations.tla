------------------------------ MODULE Donations ------------------------------
(***************************************************************************)
(* What a player has donated in a cycle, reckoned from snapshots of the    *)
(* game's own counter (app/services/donations.py).  The counter falls to   *)
(* zero when the game's season ends, which is not when a cycle ends; a     *)
(* snapshot is taken when a sync of the clan sees the player, so any       *)
(* number of donations, and whole seasons, may pass between two.           *)
(***************************************************************************)
EXTENDS Integers, Sequences, SequencesExt

CONSTANTS Gifts,        \* troops given at once
          MaxGiven,     \* bound: troops given
          MaxSnapshots, \* bound: snapshots taken
          MaxSeasons    \* bound: seasons of the game ended

ASSUME DonationsAssumption ==
  /\ Gifts \subseteq Nat \ {0} /\ MaxGiven \in Nat
  /\ MaxSnapshots \in Nat /\ MaxSeasons \in Nat

VARIABLES
  shown,     \* the game's counter
  given,     \* all the player ever gave: what the bot cannot see
  seasons,   \* seasons ended
  snapshots, \* player_donation_snapshots: the counter and, as history, given
  cycles     \* for every cycle, the snapshots taken before it began

donationVars == <<shown, given, seasons, snapshots, cycles>>

DonationsInit ==
  /\ shown \in {0} \cup Gifts /\ given = shown
  /\ seasons = 0 /\ snapshots = << >> /\ cycles = <<0>>

Give == \E g \in Gifts :
  /\ given + g <= MaxGiven
  /\ shown' = shown + g /\ given' = given + g
  /\ UNCHANGED <<seasons, snapshots, cycles>>

EndSeason ==
  /\ seasons < MaxSeasons /\ seasons' = seasons + 1
  /\ shown' = 0
  /\ UNCHANGED <<given, snapshots, cycles>>

Snapshot ==
  /\ Len(snapshots) < MaxSnapshots
  /\ snapshots' = Append(snapshots, [donations |-> shown, given |-> given])
  /\ UNCHANGED <<shown, given, seasons, cycles>>

\* A new boundary; cycles without a snapshot are left out.
BeginCycle ==
  /\ Last(cycles) < Len(snapshots)
  /\ cycles' = Append(cycles, Len(snapshots))
  /\ UNCHANGED <<shown, given, seasons, snapshots>>

DonationsNext == Give \/ EndSeason \/ Snapshot \/ BeginCycle

DonationsSpec == DonationsInit /\ [][DonationsNext]_donationVars

-----------------------------------------------------------------------------
\* The snapshots of cycle k, and the last one before it.
FirstOf(k) == IF cycles[k] = 0 THEN 1 ELSE cycles[k]
LastOf(k)  == IF k < Len(cycles) THEN cycles[k + 1] ELSE Len(snapshots)

\* A counter that has fallen began anew.
MutantStep(before, after) ==  \* the counter may only have been read wrong  \* mutated
  IF after >= before THEN after - before ELSE before - after
Step(before, after) == IF after >= before THEN after - before ELSE after

Donated(k) ==
  SumFunction([i \in FirstOf(k)..(LastOf(k) - 1) |->
                 Step(snapshots[i].donations, snapshots[i + 1].donations)])

\* Over all the cycles nothing is counted that was not given, and nothing
\* twice: however seasons, snapshots and cycles interleave, the cycles up to
\* now add up to no more than was given between the first snapshot and the
\* last.
NothingCountedTwice ==
  snapshots # << >> =>
    SumFunction([k \in DOMAIN cycles |-> Donated(k)])
      <= Last(snapshots).given - snapshots[1].given
=============================================================================
