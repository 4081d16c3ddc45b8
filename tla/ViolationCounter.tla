-------------------------- MODULE ViolationCounter --------------------------
(***************************************************************************)
(* The active counter of violations: how many violations of the current    *)
(* cycle a player has that no administrator has struck off                 *)
(* (app/services/active_violation_counter.py), and the administrator's     *)
(* dialogues that strike some off (app/bot/handlers/admin.py) or take that *)
(* back (app/bot/handlers/admin_panel.py).  The violations and the cycle   *)
(* are those of LeagueCycle, whose polls go on meanwhile.                  *)
(*                                                                         *)
(* A reduction reads the cycle and the counter, awaits the database, and   *)
(* adds its row.  Rows belong to a cycle by the day it began.  One         *)
(* administrator: a second message of his runs as concurrently as another  *)
(* administrator's.                                                        *)
(***************************************************************************)
EXTENDS LeagueCycle
LOCAL INSTANCE FiniteSetsExt

CONSTANTS Amounts,   \* what a reduction may strike off
          Tasks,     \* bound: reductions at work at once
          MaxResets, \* bound: row numbers of violation_counter_resets
          LegacyDays \* days of rows that an earlier version may have left

ASSUME ViolationCounterAssumption ==
  /\ Amounts \subseteq Nat \ {0} /\ MaxResets \in Nat /\ LegacyDays \subseteq Days

VARIABLES
  resets,  \* violation_counter_resets; amount 0 strikes off all until then
  wizard,  \* the dialogue: its step and data
  buttons, \* row numbers on the buttons of the list of reductions
  tasks,   \* reductions between their reading and their commit
  stale    \* history: tasks since whose reading something has changed

deskVars == <<wizard, buttons, tasks>>
notLeague == <<resets, deskVars>>
counterVars == <<leagueVars, resets, deskVars, stale>>

Closed == [step |-> "none"]
NoTask == [stage |-> "none"]

-----------------------------------------------------------------------------
\* current_cycle: from the last boundary that has passed, until now.
CycleStart == IF boundary <= today THEN boundary ELSE 0

\* The days of a player's violations in the current cycle; one on the day of
\* the boundary belongs to the cycle that ends and to the one that begins.
EventsSince(p, start, after) ==
    Cardinality({m \in missed : m[2] = p /\ RoundEnd[m[1]] \in start..today /\ RoundEnd[m[1]] > after})
  + Cardinality({v \in raids : v[2] = p /\ WeekendEnd[v[1]] \in start..today /\ WeekendEnd[v[1]] > after})

ResetsOf(p, start) == {r \in resets : r.tag = p /\ r.start = start}
\* The last row of the earlier version, older than any of this one.
Legacy(p, start) ==
  LET days == {r.at : r \in {q \in ResetsOf(p, start) : q.amount = 0}}
  IN IF days = {} THEN -1 ELSE CHOOSE d \in days : \A e \in days : e <= d
Total(rows) == MapThenSumSet(LAMBDA r : r.amount, rows)
Balance(p, start) ==
  EventsSince(p, start, Legacy(p, start))
  - Total({r \in ResetsOf(p, start) : r.at >= Legacy(p, start)})
Count(p, start) == IF Balance(p, start) < 0 THEN 0 ELSE Balance(p, start)

CounterInit ==
  /\ LeagueInit
  /\ resets \in {{}} \cup {{[id |-> 1, tag |-> p, start |-> 0, amount |-> 0, at |-> d]} :
                            p \in Members, d \in LegacyDays}
  /\ wizard = Closed /\ buttons = {}
  /\ tasks = [t \in Tasks |-> NoTask] /\ stale = {}

Writing == {t \in Tasks : tasks[t].stage = "write"}

\* The polls.
LeaguePoll ==
  /\ LeagueNext
  /\ stale' = IF UNCHANGED <<missed, raids, boundary>> THEN stale ELSE Writing
  /\ UNCHANGED notLeague

-----------------------------------------------------------------------------
(* The dialogue.                                                           *)
Say(next) == wizard' = next /\ UNCHANGED <<leagueVars, resets, buttons, tasks, stale>>

Counts == [p \in Members |-> Count(p, CycleStart)]
Listing == IF \A p \in Members : Counts[p] = 0 THEN Closed
           ELSE [step |-> "player", counts |-> Counts]

\* Begun from the menu or the panel; with nobody to list, nothing begins.
List == Listing # Closed /\ Say(Listing)

Choose == /\ wizard.step = "player"
          /\ \E p \in Members :
               /\ wizard.counts[p] > 0
               /\ Say([step |-> "amount", tag |-> p, active |-> wizard.counts[p]])

\* From the amounts back to a new list, from the list out.
GoBack == \/ wizard.step = "player" /\ Say(Closed)
          \/ wizard.step = "amount" /\ Say(Listing)

\* reduce_for_player up to its decision, which the counter of that moment
\* takes, whatever the list had shown.
MutantOwed(p) == wizard.active  \* mutated
Owed(p) == Count(p, CycleStart)
StrikeOff(t) ==
  /\ wizard.step = "amount" /\ tasks[t] = NoTask
  /\ \E n \in Amounts :
       /\ n <= wizard.active
       /\ IF n <= Owed(wizard.tag)
          THEN /\ tasks' = [tasks EXCEPT ![t] = [stage |-> "write", tag |-> wizard.tag,
                                                 start |-> CycleStart, amount |-> n]]
               /\ UNCHANGED wizard
          ELSE wizard' = Closed /\ UNCHANGED tasks
  /\ UNCHANGED <<leagueVars, resets, buttons, stale>>

NextId == 1 + Max({0} \cup {r.id : r \in resets})

WriteReset(t) ==
  /\ tasks[t].stage = "write" /\ NextId <= MaxResets
  /\ resets' = resets \cup {[id |-> NextId, tag |-> tasks[t].tag, start |-> tasks[t].start,
                             amount |-> tasks[t].amount, at |-> today]}
  /\ tasks' = [tasks EXCEPT ![t] = [stage |-> "clear"]]
  /\ stale' = Writing \ {t}
  /\ UNCHANGED <<leagueVars, wizard, buttons>>

\* The dialogue is cleared after the commit, or after a failure.
Clear(t) ==
  /\ tasks[t] # NoTask
  /\ tasks' = [tasks EXCEPT ![t] = NoTask]
  /\ wizard' = Closed
  /\ stale' = stale \ {t}
  /\ UNCHANGED <<leagueVars, resets, buttons>>

-----------------------------------------------------------------------------
(* Taking a reduction back: a list of this cycle's, and a row number.      *)
ShowReductions ==
  /\ buttons' = {r.id : r \in {q \in resets : q.start = CycleStart /\ q.amount > 0}}
  /\ buttons' # {}
  /\ UNCHANGED <<leagueVars, resets, wizard, tasks, stale>>

Restore == \E i \in buttons :
  /\ resets' = {r \in resets : r.id # i \/ r.amount = 0}
  /\ stale' = IF resets' = resets THEN stale ELSE Writing
  /\ UNCHANGED <<leagueVars, wizard, buttons, tasks>>

\* The process restarts.
Restart ==
  /\ wizard' = Closed /\ tasks' = [t \in Tasks |-> NoTask] /\ stale' = {}
  /\ UNCHANGED <<leagueVars, resets, buttons>>

CounterNext ==
  \/ LeaguePoll
  \/ List \/ Choose \/ GoBack
  \/ \E t \in Tasks : StrikeOff(t) \/ WriteReset(t) \/ Clear(t)
  \/ ShowReductions \/ Restore \/ Restart

CounterSpec == CounterInit /\ [][CounterNext]_counterVars

-----------------------------------------------------------------------------
\* A reduction never strikes off more than the player has in the current
\* cycle, unless between its reading and its commit another reduction, a
\* return of one or a poll changed the counter or began a new cycle.
OverspentOnlyWhenStale ==
  [][\A t \in Tasks : (tasks[t].stage = "write" /\ tasks'[t].stage = "clear")
       => \/ t \in stale
          \/ /\ tasks[t].start = CycleStart
             /\ tasks[t].amount <= Count(tasks[t].tag, CycleStart)]_counterVars
=============================================================================
