----------------------------- MODULE MCWarSync -----------------------------
(***************************************************************************)
(* Values for the constants of WarSync.                                    *)
(***************************************************************************)
EXTENDS WarSync

FullRoster == {2, 3, 5}
FullView   == {FullRoster}
\* The API may also serve a roster that lacks the upper places.
AnyView    == {FullRoster, {5}}

\* The member at place 5 leaves the open base {5} at once, or attacks it.
FewMoves == {[attacker |-> 5, target |-> 2, stars |-> 3],
             [attacker |-> 5, target |-> 5, stars |-> 3]}

\* The member at place 4 closes the base {5} of place 5, whose member may
\* then jump over target 3 and bridge the gap afterwards, or fail to.
ChainMoves ==
  {[attacker |-> 4, target |-> 5, stars |-> 3],
   [attacker |-> 5, target |-> 2, stars |-> 3],
   [attacker |-> 5, target |-> 3, stars |-> 2],
   [attacker |-> 5, target |-> 3, stars |-> 3]}
====
