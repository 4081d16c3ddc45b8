----------------------------- MODULE MCWarScores -----------------------------
(***************************************************************************)
(* Sections of what the bot makes of a player's deeds: the verdicts of the *)
(* positional rules, the ranking's scores, which take verdicts as they     *)
(* come, the donations, and the dialogues in which an administrator asks   *)
(* for reports on them, with lists and with the panel.  A behaviour        *)
(* belongs to one section and leaves the others where they began.          *)
(***************************************************************************)
EXTENDS MCViolationRules, ContributionRanking, Donations, ReportDialogs

CONSTANTS Sections, p, q

VARIABLE section

MCResults == {[stars |-> 0, destruction |-> 40], [stars |-> 2, destruction |-> 60],
              [stars |-> 3, destruction |-> 100]}

\* Three attacks on which nothing changes, or two on which something does.
MCLimits == {[fights |-> 3, verdicts |-> 0, moves |-> 0],
             [fights |-> 2, verdicts |-> 1, moves |-> 2]}

MCOrders == {<<>>, <<p, q>>, <<q, p>>}

ScoresInit ==
  /\ section \in Sections
  /\ Init /\ RankingInit /\ DonationsInit /\ DialogsInit
  /\ section # "verdicts" => war.timed /\ war.quota = NoQuota
  /\ section # "scores" => ~league /\ limit.fights = 3
  /\ section # "donations" => shown = 0
  /\ section \notin {"lists", "panel"} => order = <<>>
  /\ section # "panel" => closed = 0

ScoresNext ==
  \/ section = "verdicts" /\ Next /\ UNCHANGED <<section, rankingVars, donationVars, dialogVars>>
  \/ section = "scores" /\ RankingNext /\ UNCHANGED <<section, vars, donationVars, dialogVars>>
  \/ section = "donations" /\ DonationsNext /\ UNCHANGED <<section, vars, rankingVars, dialogVars>>
  \/ section = "lists" /\ NumberedNext /\ UNCHANGED <<section, vars, rankingVars, donationVars>>
  \/ section = "panel" /\ PanelNext /\ UNCHANGED <<section, vars, rankingVars, donationVars>>

ScoresSpec ==
  ScoresInit /\ [][ScoresNext]_<<section, vars, rankingVars, donationVars, dialogVars>>
=============================================================================
