--------------------------- MODULE Recalculation ---------------------------
(***************************************************************************)
(* The table of violations of the current cycle's regular wars under all   *)
(* its writers:                                                            *)
(*   - recalculations started by administrators (recalculate_current_cycle *)
(*     in app/services/violation_recalculation.py), one transaction over   *)
(*     all wars, which locks the database only from its first write on;    *)
(*   - the poll, which reconciles the war it fetched under the lock;       *)
(*   - administrators who flag an attack, and who take a manual violation  *)
(*     away by the number a keyboard shows.                                *)
(* Violations are rows with a number of their own; the database gives a    *)
(* new row the largest number in use plus one, so numbers are used again.  *)
(*                                                                         *)
(* What the rules decide of an attack is data here: ViolationRules says    *)
(* how it is computed, and that a final decision stands.                   *)
(***************************************************************************)
EXTENDS Integers, FiniteSets

CONSTANTS Recalcs,      \* recalculations that may run at the same time
          Panels,       \* keyboards that offer manual violations
          Wars,         \* the wars of the cycle by start time, 1..k
          Attacks,      \* their attacks by (war, order), 1..n
          WarOf,        \* [Attacks -> Wars]
          Polled,       \* wars that the poll still fetches
          InitialRows,  \* what the table may hold at first, e.g. from
                        \* releases with other rules: sets of rows
          InitialJudged,\* what the rules may say at first: [Attacks -> Decisions]
          InitialGaps,  \* which wars may have an incomplete roster
          MaxId,        \* bound: the largest row number
          MaxEdits,     \* bound: changes made by administrators
          Nobody

AboveSelf == "above_self"
TooLow    == "too_low"
PositionalCodes == {AboveSelf, TooLow}
ClaimedTarget == "claimed_target"
Codes == PositionalCodes \cup {ClaimedTarget}
Ids == 1..MaxId
Rows == [id : Ids, attack : Attacks, code : Codes, manual : BOOLEAN]

NoCode == "none"
Decisions == [code : PositionalCodes \cup {NoCode}, final : BOOLEAN]
Allowed == [code |-> NoCode, final |-> TRUE]
Recorded(d) == d.code # NoCode /\ d.final

ASSUME RecalculationAssumption ==
  /\ Wars = 1..Cardinality(Wars) /\ IsFiniteSet(Wars) /\ Polled \subseteq Wars
  /\ Attacks \subseteq Nat /\ IsFiniteSet(Attacks)
  /\ WarOf \in [Attacks -> Wars]
  /\ \A t \in InitialRows :  \* the primary key, and attack_id is unique
       /\ t \subseteq Rows
       /\ \A v, x \in t : v.attack = x.attack \/ v.id = x.id => v = x
  /\ InitialJudged \subseteq [Attacks -> Decisions]
  /\ InitialGaps \subseteq SUBSET Wars
  /\ MaxId \in Nat /\ MaxEdits \in Nat
  /\ Nobody \notin Recalcs

VARIABLES
  table,      \* the committed rows
  judged,     \* what the rules say of each attack now
  incomplete, \* wars whose saved enemy roster is not as large as the war
  lock,       \* the recalculation that has written, or Nobody
  work,       \* the rows as that recalculation sees them
  job,        \* the state of each recalculation
  shown,      \* the rows each keyboard was made from
  disturbed,  \* history: the data changed while the recalculation ran
  edits       \* bound: changes made by administrators so far

vars == <<table, judged, incomplete, lock, work, job, shown, disturbed, edits>>

Idle == [step |-> "idle", war |-> 1, loaded |-> {}, view |-> [n \in Attacks |-> Allowed],
         seen |-> {}]

-----------------------------------------------------------------------------
AttacksOf(w) == {n \in Attacks : WarOf[n] = w}
RowsOf(w, t) == {v \in t : v.attack \in AttacksOf(w)}
LastId(t) == IF t = {} THEN 0 ELSE CHOOSE i \in {v.id : v \in t} : \A v \in t : v.id <= i
Current(r) == IF lock = r THEN work ELSE table

(* INSERTs in the order of the attacks.                                     *)
Inserted(ns, code, manual, t) ==
  {[id |-> LastId(t) + Cardinality({m \in ns : m <= n}), attack |-> n,
    code |-> code[n], manual |-> manual] : n \in ns}

Protected(v) == v.manual \/ v.code \notin PositionalCodes

(* What reconcile_war does, from the rows it has in memory and its          *)
(* decisions: attacks that get a row, rows it rewrites, rows it deletes.    *)
ToInsert(w, seen, view) ==
  {n \in AttacksOf(w) : Recorded(view[n]) /\ ~\E v \in seen : v.attack = n}
ToUpdate(seen, view) ==
  {v \in seen : ~Protected(v) /\ Recorded(view[v.attack]) /\ v.code # view[v.attack].code}
MutantToDelete(seen, view) ==  \* mutated form: pending violations stay
  {v \in seen : ~Protected(v) /\ view[v.attack] = Allowed}
ToDelete(seen, view) ==
  {v \in seen : ~Protected(v) /\ ~Recorded(view[v.attack])}

(* The flush addresses rows by their number.  An attack that has a row by   *)
(* now, or a row to rewrite that is gone, makes it fail.                    *)
MutantConflict(ins, upd, t) == FALSE  \* mutated form: attack_id not unique
Conflict(ins, upd, t) ==
  \/ \E n \in ins, v \in t : v.attack = n
  \/ \E u \in upd : u.id \notin {v.id : v \in t}

Flushed(ins, upd, del, view, t) ==
  LET rewritten(v) == IF \E u \in upd : u.id = v.id
                      THEN [v EXCEPT !.code = view[(CHOOSE u \in upd : u.id = v.id).attack].code]
                      ELSE v
  IN  {rewritten(v) : v \in {x \in t : x.id \notin {d.id : d \in del}}}
        \cup Inserted(ins, [n \in Attacks |-> view[n].code], FALSE, t)

-----------------------------------------------------------------------------
Init ==
  /\ table \in InitialRows
  /\ judged \in InitialJudged
  /\ incomplete \in InitialGaps
  /\ lock = Nobody
  /\ work = {}
  /\ job = [r \in Recalcs |-> Idle]
  /\ shown = [p \in Panels |-> {}]
  /\ disturbed = [r \in Recalcs |-> FALSE]
  /\ edits = 0

(* The wars of the cycle are loaded with their attacks and violations.      *)
Start(r) ==
  /\ job[r].step = "idle"
  /\ job' = [job EXCEPT ![r] = [Idle EXCEPT !.step = "reading", !.loaded = table, !.view = judged]]
  /\ UNCHANGED <<table, judged, incomplete, lock, work, shown, edits>>

(* The violations of the next war are read again, but a row whose number    *)
(* was loaded at the start keeps the contents it had then: the session      *)
(* does not refresh objects it holds.                                       *)
InMemory(r, v) ==
  IF \E l \in job[r].loaded : l.id = v.id
  THEN CHOOSE l \in job[r].loaded : l.id = v.id
  ELSE v

ReadWar(r) ==
  /\ job[r].step = "reading"
  /\ job[r].war \in Wars \ incomplete
  /\ job' = [job EXCEPT ![r].step = "deciding",
                        ![r].seen = {InMemory(r, v) : v \in RowsOf(job[r].war, Current(r))}]
  /\ UNCHANGED <<table, judged, incomplete, lock, work, shown, edits>>

Plan(r) == [ins |-> ToInsert(job[r].war, job[r].seen, job[r].view),
            upd |-> ToUpdate(job[r].seen, job[r].view),
            del |-> ToDelete(job[r].seen, job[r].view)]
Writes(p) == p.ins # {} \/ p.upd # {} \/ p.del # {}

WriteNothing(r) ==
  /\ job[r].step = "deciding"
  /\ ~Writes(Plan(r))
  /\ job' = [job EXCEPT ![r].step = "reading", ![r].war = @ + 1, ![r].seen = {}]
  /\ UNCHANGED <<table, judged, incomplete, lock, work, shown, edits>>

Write(r) ==
  /\ job[r].step = "deciding"
  /\ Writes(Plan(r))
  /\ lock \in {r, Nobody}
  /\ ~Conflict(Plan(r).ins, Plan(r).upd, Current(r))
  /\ LastId(Current(r)) + Cardinality(Plan(r).ins) <= MaxId
  /\ lock' = r
  /\ work' = Flushed(Plan(r).ins, Plan(r).upd, Plan(r).del, job[r].view, Current(r))
  /\ job' = [job EXCEPT ![r].step = "reading", ![r].war = @ + 1, ![r].seen = {}]
  /\ UNCHANGED <<table, judged, incomplete, shown, edits>>

Commit(r) ==
  /\ job[r].step = "reading"
  /\ job[r].war \notin Wars
  /\ table' = Current(r)
  /\ job' = [job EXCEPT ![r] = Idle]
  /\ lock' = IF lock = r THEN Nobody ELSE lock
  /\ work' = IF lock = r THEN {} ELSE work
  /\ UNCHANGED <<judged, incomplete, shown, edits>>

(* The handler rolls back on any exception: an incomplete roster (raised    *)
(* when its war is reached, after earlier wars were written), a conflict,   *)
(* the lock not free for five seconds, or another failure at an await.      *)
MutantAfterFailure(r) == Current(r)   \* mutated form: committed all the same
AfterFailure(r) == table

Fail(r) ==
  /\ job[r].step # "idle"
  /\ table' = AfterFailure(r)
  /\ job' = [job EXCEPT ![r] = Idle]
  /\ lock' = IF lock = r THEN Nobody ELSE lock
  /\ work' = IF lock = r THEN {} ELSE work
  /\ UNCHANGED <<judged, incomplete, shown, edits>>

-----------------------------------------------------------------------------
(* The other writers: short transactions, or transactions under the lock.   *)

(* The poll reconciles a war and commits.                                   *)
Poll(w) ==
  LET seen == RowsOf(w, table)
      ins  == ToInsert(w, seen, judged)
  IN  /\ lock = Nobody
      /\ LastId(table) + Cardinality(ins) <= MaxId
      /\ table' = Flushed(ins, ToUpdate(seen, judged), ToDelete(seen, judged), judged, table)
      /\ UNCHANGED <<judged, incomplete, lock, work, job, shown, edits>>

(* A pending decision becomes final, or the attack is allowed after all.    *)
Settle(n) ==
  /\ judged[n].code # NoCode /\ ~judged[n].final
  /\ judged' \in {[judged EXCEPT ![n].final = TRUE], [judged EXCEPT ![n] = Allowed]}
  /\ UNCHANGED <<table, incomplete, lock, work, job, shown, edits>>

(* apply_claimed_target_violation: the row of the attack is rewritten, or   *)
(* one is added.                                                            *)
Flag(n) ==
  /\ lock = Nobody
  /\ edits < MaxEdits
  /\ edits' = edits + 1
  /\ IF \E v \in table : v.attack = n
     THEN table' = {IF v.attack = n THEN [v EXCEPT !.code = ClaimedTarget, !.manual = TRUE]
                    ELSE v : v \in table}
     ELSE /\ LastId(table) < MaxId
          /\ table' = table \cup Inserted({n}, [m \in {n} |-> ClaimedTarget], TRUE, table)
  /\ UNCHANGED <<judged, incomplete, lock, work, job, shown>>

(* remove_manual_violations: a keyboard of the manual rows.                 *)
Show(p) ==
  /\ shown' = [shown EXCEPT ![p] = {v \in table : v.manual}]
  /\ UNCHANGED <<table, judged, incomplete, lock, work, job, edits>>

(* remove_manual_violation_callback: DELETE ... WHERE id AND is_manual.     *)
Remove(p, v) ==
  /\ v \in shown[p]
  /\ lock = Nobody
  /\ edits < MaxEdits
  /\ edits' = edits + 1
  /\ table' = {x \in table : ~(x.id = v.id /\ x.manual)}
  /\ shown' = [shown EXCEPT ![p] = {}]
  /\ UNCHANGED <<judged, incomplete, lock, work, job>>

-----------------------------------------------------------------------------
RecalcStep(r) ==
  \/ Start(r)
  \/ ReadWar(r)
  \/ WriteNothing(r)
  \/ Write(r)
  \/ Commit(r)
  \/ Fail(r)

(* A recalculation is disturbed by what others change before it ends.       *)
Watch ==
  disturbed' = [r \in Recalcs |->
                  /\ job[r].step # "idle"
                  /\ \/ disturbed[r]
                     \/ judged' # judged
                     \/ table' # table /\ job'[r].step # "idle"]

Next ==
  /\ \/ \E r \in Recalcs : RecalcStep(r)
     \/ \E w \in Polled : Poll(w)
     \/ \E n \in Attacks : Settle(n)
     \/ \E n \in Attacks : Flag(n)
     \/ \E p \in Panels : Show(p)
     \/ \E p \in Panels : \E v \in shown[p] : Remove(p, v)
  /\ Watch

Spec == Init /\ [][Next]_vars

-----------------------------------------------------------------------------
(* Properties                                                               *)

Jobs == [step : {"idle", "reading", "deciding"}, war : 1..(Cardinality(Wars) + 1),
         loaded : SUBSET Rows, view : [Attacks -> Decisions], seen : SUBSET Rows]

TypeOK ==
  /\ table \subseteq Rows /\ work \subseteq Rows
  /\ judged \in [Attacks -> Decisions]
  /\ incomplete \subseteq Wars
  /\ lock \in Recalcs \cup {Nobody}
  /\ job \in [Recalcs -> Jobs]
  /\ shown \in [Panels -> SUBSET Rows]
  /\ disturbed \in [Recalcs -> BOOLEAN]
  /\ edits \in 0..MaxEdits

\* No interleaving of recalculations, polls and administrators gives an
\* attack two violations, in the tables or in a transaction: the constraint
\* on attack_id turns the race into a failed recalculation.
OneViolationPerAttack ==
  \A t \in {table, work} :
    \A v, x \in t : v.attack = x.attack \/ v.id = x.id => v = x

\* A recalculation that nothing disturbs leaves exactly what the rules say:
\* for every attack the administrators have not flagged, an automatic row
\* with the rules' code if the decision is final, and no row otherwise; and
\* the rows they have flagged as they were.
ExactIfUndisturbed ==
  [][\A r \in Recalcs :
       (Commit(r) /\ ~disturbed[r]) =>
         \A n \in Attacks :
           LET before == {v \in table : v.attack = n}
               after  == {v \in table' : v.attack = n}
           IN  IF \E v \in before : Protected(v)
               THEN after = before
               ELSE {[code |-> v.code, manual |-> v.manual] : v \in after} =
                      IF Recorded(judged[n])
                      THEN {[code |-> judged[n].code, manual |-> FALSE]} ELSE {}]_vars

\* An incomplete roster in any war stops the whole recalculation: what was
\* written for earlier wars does not reach the database.
IncompleteStopsAll ==
  [][\A r \in Recalcs :
       job[r].step # "idle" /\ job'[r].step = "idle" /\ incomplete # {} => table' = table]_vars

-----------------------------------------------------------------------------
(* What the repository says and the code does not do.                       *)

\* admin.py:91 promises that a recalculation changes no manual violation.
\* A flag set on an attack after the recalculation loaded its violation is
\* overwritten or deleted by the flush (violation_recalculation.py:105-151).
RecalculationKeepsManual ==
  [][\A r \in Recalcs :
       job[r].step # "idle" /\ job'[r].step = "idle" =>
         \A v \in table : v.manual => v \in table']_vars

\* admin_panel.py:724 asks whether to take the selected violation away.  The
\* button holds the row number only, and the number may belong to another
\* attack's violation by then (admin_panel.py:732-736).
RemovesWhatWasShown ==
  [][\A p \in Panels, v \in Rows :
       v \in shown[p] /\ shown'[p] = {} =>
         \A x \in table \ table' : \E y \in shown[p] : x.attack = y.attack]_vars
=============================================================================
