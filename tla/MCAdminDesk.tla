----------------------------- MODULE MCAdminDesk -----------------------------
(***************************************************************************)
(* Two sections of the administrators' desk that share no state: manual    *)
(* points and account links.  Their interleavings show nothing that each   *)
(* does not show alone, so a behaviour works in one of them and leaves the *)
(* other where it began.                                                   *)
(***************************************************************************)
EXTENDS ManualPoints, AccountLinks, TLC
CONSTANTS p, q, t1, t2, u1, u2, s1, s2, Sections

VARIABLE section

\* Two dialogues in a settled clan, or one while players come and go.
MCBudgets ==
  {[clan |-> 2, shown |-> 2, moves |-> 0, cycles |-> 0, presses |-> 2, forms |-> {"menu", "panel"}]}
  \cup [clan : {1}, shown : {1}, moves : {2}, cycles : {2}, presses : {1},
        forms : {{"menu"}, {"panel"}}]

DeskInit ==
  /\ section \in Sections
  /\ PointsInit /\ LinksInit
  /\ section # "links" => members = {}
  /\ section # "points" => budget.forms = {"menu"}

DeskNext ==
  \/ section = "points" /\ PointsNext /\ UNCHANGED <<section, linksVars>>
  \/ section = "links" /\ LinksNext /\ UNCHANGED <<section, pointsVars>>

deskVars == <<section, pointsVars, linksVars>>
DeskSpec == DeskInit /\ [][DeskNext]_deskVars

Interchangeable == Permutations({p, q}) \cup Permutations({s1, s2})
                   \cup Permutations({t1, t2}) \cup Permutations({u1, u2})
=============================================================================
