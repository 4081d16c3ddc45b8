------------------------------- MODULE MCCycle -------------------------------
(***************************************************************************)
(* Sections that share no state, about the violations of a cycle: the      *)
(* counter of a player's active violations over a season of two rounds,    *)
(* with two reductions at once, or with a raid weekend, a row that an      *)
(* earlier version may have left and one reduction at a time; and the      *)
(* recalculation of two wars.  A behaviour works in one of them and leaves *)
(* the others where they began.                                            *)
(***************************************************************************)
EXTENDS ViolationCounter, MCRecalculation, TLC
CONSTANTS p, t1, t2, Sections

VARIABLE section

MCRoundEnd == <<1, 2>>
MCWeekendEnd == <<2>>

CycleInit ==
  /\ section \in Sections
  /\ CounterInit /\ Init
  /\ section # "raids" => resets = {}
  /\ section # "recalculation" => /\ table = CHOOSE rows \in InitialRows : TRUE
                                  /\ judged = CHOOSE js \in InitialJudged : TRUE
                                  /\ incomplete = {}

CycleNext ==
  \/ section = "rounds" /\ CounterNext /\ raids' = {} /\ UNCHANGED <<section, vars>>
  \/ section = "raids" /\ CounterNext /\ Cardinality(Writing') <= 1
     /\ UNCHANGED <<section, vars>>
  \/ section = "recalculation" /\ Next /\ UNCHANGED <<section, counterVars>>

CycleSpec == CycleInit /\ [][CycleNext]_<<section, counterVars, vars>>

Interchangeable == Permutations({t1, t2})
=============================================================================
