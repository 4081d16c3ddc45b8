--------------------------- MODULE WarSyncProofs ---------------------------
(***************************************************************************)
(* Theorems about WarSync, for every value of its constants: any number of *)
(* administrators, attacks, rosters, failed polls and lost marks.          *)
(***************************************************************************)
EXTENDS WarSync, ViolationRulesProofs, FiniteSetTheorems, TLAPS

-----------------------------------------------------------------------------
(* The rules.                                                               *)

\* Reconciliation gives an attack a row of the table, and leaves a manual
\* row as it is (reconcile_war).
LEMMA ReconcileRow ==
  ASSUME NEW row \in Rows, NEW d \in Decisions
  PROVE  /\ Reconcile(row, d) \in Rows
         /\ row.manual => Reconcile(row, d) = row
  BY DEF Reconcile, Reconciled, Protected, Rows, NoRow, Decisions

\* Storing and reconciling a war keeps the shape of the tables and the marks;
\* what the two passes make of each column (_persist_war).
LEMMA StoredShape ==
  ASSUME TypeOK
  PROVE  /\ Stored \in Tables /\ ReconciledTables \in Tables
         /\ Stored.seen = [n \in Orders |-> IF db.seen[n] = Unseen /\ Visible(n) THEN now
                                            ELSE db.seen[n]]
         /\ Stored.roster = snap.roster /\ Stored.ended = snap.ended
         /\ ReconciledTables.seen = Stored.seen /\ ReconciledTables.roster = Stored.roster
         /\ ReconciledTables.ended = Stored.ended /\ ReconciledTables.marks = db.marks
         /\ \A n \in Orders :
              ReconciledTables.rows[n] = IF n \in StoredOrders(Stored)
                                         THEN Reconcile(db.rows[n], DecisionOf(Stored, n, now))
                                         ELSE db.rows[n]
<1>1. /\ db \in Tables /\ now \in Times
      /\ snap.roster \in SUBSET Roster /\ snap.ended \in BOOLEAN
  BY DEF TypeOK
<1> DEFINE seen == [n \in Orders |-> IF db.seen[n] = Unseen /\ Visible(n) THEN now
                                    ELSE db.seen[n]]
           rows == [n \in Orders |->
                      IF n \in StoredOrders(Stored)
                      THEN Reconcile(db.rows[n], DecisionOf(Stored, n, now))
                      ELSE db.rows[n]]
<1>2. seen \in [Orders -> Times \cup {Unseen}]
  BY <1>1 DEF Tables
<1>3. Stored = [db EXCEPT !.seen = seen, !.roster = snap.roster, !.ended = snap.ended]
  BY Zenon DEF Stored
<1>5. ReconciledTables = [Stored EXCEPT !.rows = rows]
  BY Zenon DEF ReconciledTables
<1>7. \A n \in Orders : rows[n] = IF n \in StoredOrders(Stored)
                                  THEN Reconcile(db.rows[n], DecisionOf(Stored, n, now))
                                  ELSE db.rows[n]
  OBVIOUS
<1>8. seen = [n \in Orders |-> IF db.seen[n] = Unseen /\ Visible(n) THEN now
                              ELSE db.seen[n]]
  OBVIOUS
<1> HIDE DEF seen, rows
<1>4. Stored = [seen |-> seen, rows |-> db.rows, marks |-> db.marks,
                roster |-> snap.roster, ended |-> snap.ended]
  BY <1>1, <1>3 DEF Tables
<1>6. ReconciledTables = [seen |-> seen, rows |-> rows, marks |-> db.marks,
                          roster |-> snap.roster, ended |-> snap.ended]
  BY <1>4, <1>5
<1>9. Stored \in Tables
  BY <1>1, <1>2, <1>4 DEF Tables
<1>10. /\ Stored.seen = seen /\ Stored.roster = snap.roster /\ Stored.ended = snap.ended
       /\ ReconciledTables.seen = seen /\ ReconciledTables.roster = snap.roster
       /\ ReconciledTables.ended = snap.ended /\ ReconciledTables.marks = db.marks
       /\ ReconciledTables.rows = rows
  BY <1>4, <1>6
<1>11. ASSUME NEW n \in Orders PROVE rows[n] \in Rows
  <2>1. db.rows[n] \in Rows
    BY <1>1 DEF Tables
  <2>2. DecisionOf(Stored, n, now) \in Decisions
    BY DecideShape, Zenon DEF DecisionOf
  <2> HIDE DEF rows
  <2>3. Reconcile(db.rows[n], DecisionOf(Stored, n, now)) \in Rows
    BY <2>1, <2>2, ReconcileRow
  <2> QED  BY <1>7, <2>1, <2>3
<1>12. rows \in [Orders -> Rows]
  BY <1>11 DEF rows
<1>13. ReconciledTables \in Tables
  BY <1>1, <1>2, <1>6, <1>12 DEF Tables
<1> QED  BY <1>7, <1>8, <1>9, <1>10, <1>13

\* Reconciliation leaves the marks and the manual rows as they are.
LEMMA ReconciledTablesProps ==
  ASSUME TypeOK
  PROVE  /\ ReconciledTables \in Tables
         /\ ReconciledTables.marks = db.marks
         /\ \A n \in Orders : db.rows[n].manual => ReconciledTables.rows[n] = db.rows[n]
BY StoredShape DEF Reconcile, Protected

-----------------------------------------------------------------------------
(* Type correctness.                                                        *)

\* The administrators' keys and the empty tables have the shape of the code.
LEMMA EmptyTables == Empty \in Tables
BY DEF Empty, Tables, NoRow, Rows, Times

\* The state of the poll and the tables keep their shape.
LEMMA TypeInit == Init => TypeOK
<1> SUFFICES ASSUME Init PROVE TypeOK
  OBVIOUS
<1>1. battle \in Seq(Moves) /\ Len(battle) <= MaxAttacks
  BY WarSyncAssumption DEF Init
<1>2. now \in Times /\ aborts \in 0..MaxAborts
  BY WarSyncAssumption DEF Init, Times
<1>3. db \in Tables /\ tx \in Tables
  BY EmptyTables DEF Init
<1>4. snap \in [size : 0..MaxAttacks, ended : BOOLEAN, roster : SUBSET Roster]
  BY WarSyncAssumption DEF Init, NoSnap
<1> QED  BY <1>1, <1>2, <1>3, <1>4 DEF Init, TypeOK

\* Every step keeps the types.
LEMMA TypeStep == TypeOK /\ [Next]_vars => TypeOK'
<1> SUFFICES ASSUME TypeOK, [Next]_vars PROVE TypeOK'
  OBVIOUS
<1> USE WarSyncAssumption DEF TypeOK
<1>1. ASSUME NEW m \in Moves, Fight(m) PROVE TypeOK'
  <2>1. battle' \in Seq(Moves) /\ Len(battle') <= MaxAttacks
    BY <1>1 DEF Fight
  <2> QED  BY <1>1, <2>1 DEF Fight, poll
<1>2. CASE Tick
  BY <1>2 DEF Tick, poll, Times
<1>3. ASSUME NEW view \in RosterViews, Fetch(view) PROVE TypeOK'
  <2>1. snap' \in [size : 0..MaxAttacks, ended : BOOLEAN, roster : SUBSET Roster]
    <3>1. Len(battle) \in 0..MaxAttacks /\ view \in SUBSET Roster /\ (now >= WarEnd) \in BOOLEAN
      BY <1>3
    <3> QED  BY <1>3, <3>1 DEF Fetch
  <2> QED  BY <1>3, <2>1 DEF Fetch, game
<1>4. CASE Persist
  <2>1. tx' = ReconciledTables /\ queue' = Messages(Created(ReconciledTables))
    BY <1>4 DEF Persist
  <2>2. queue' \subseteq Orders \X Admins
    BY <2>1 DEF Messages, Created
  <2> QED  BY <1>4, <2>1, <2>2, ReconciledTablesProps DEF Persist, game
<1>5. ASSUME NEW n \in Orders, NEW a \in Admins, Skip(n, a) PROVE TypeOK'
  BY <1>5 DEF Skip, game
<1>6. ASSUME NEW n \in Orders, NEW a \in Admins, Deliver(n, a) PROVE TypeOK'
  <2>1. tx' \in Tables
    BY <1>6 DEF Deliver, Tables
  <2>2. inbox' \in [Admins \X Orders -> Nat]
    BY <1>6 DEF Deliver
  <2> QED  BY <1>6, <2>1, <2>2 DEF Deliver, game
<1>7. ASSUME NEW n \in Orders, NEW a \in Admins, NEW arrived \in BOOLEAN,
             SendRaises(n, a, arrived)
      PROVE TypeOK'
  <2>1. inbox' \in [Admins \X Orders -> Nat] /\ lost' \in [Admins \X Orders -> Nat]
    BY <1>7 DEF SendRaises
  <2> QED  BY <1>7, <2>1 DEF SendRaises, game
<1>8. CASE Commit
  <2>1. tx' \in Tables /\ snap' = NoSnap
    BY <1>8, EmptyTables DEF Commit
  <2> QED  BY <1>8, <2>1 DEF Commit, game, NoSnap
<1>9. CASE Abort
  <2>1. tx' \in Tables /\ snap' = NoSnap
    BY <1>9, EmptyTables DEF Abort
  <2>2. lost' \in [Admins \X Orders -> Nat]
    BY <1>9 DEF Abort
  <2> QED  BY <1>9, <2>1, <2>2 DEF Abort, game, NoSnap, CommittedByAbort
<1>10. ASSUME NEW n \in Orders, FlagClaimed(n) PROVE TypeOK'
  <2>1. db' \in Tables
    BY <1>10 DEF FlagClaimed, Tables, ManualRow, Rows
  <2> QED  BY <1>10, <2>1 DEF FlagClaimed, game, poll
<1>11. ASSUME NEW n \in Orders, RemoveManual(n) PROVE TypeOK'
  <2>1. db' \in Tables
    BY <1>11 DEF RemoveManual, Tables, NoRow, Rows
  <2> QED  BY <1>11, <2>1 DEF RemoveManual, game, poll
<1>12. CASE UNCHANGED vars
  BY <1>12 DEF vars, poll
<1> QED
  BY <1>1, <1>2, <1>3, <1>4, <1>5, <1>6, <1>7, <1>8, <1>9, <1>10, <1>11, <1>12 DEF Next

\* The tables, the poll and the counters always have the shape that the code
\* and the database schema give them.
THEOREM TypeCorrect == Spec => []TypeOK
BY TypeInit, TypeStep, PTL DEF Spec

-----------------------------------------------------------------------------
(* The inductive invariant: the shape of the state, what a poll in progress *)
(* has done so far, and the account of the deliveries.                      *)

IInv == TypeOK /\ WorkInProgress /\ DeliveriesAccounted

\* It holds of an empty database, ...
LEMMA IInvInit == Init => IInv
<1> SUFFICES ASSUME Init PROVE IInv
  OBVIOUS
<1>1. TypeOK
  BY TypeInit
<1>2. WorkInProgress
  BY DEF Init, WorkInProgress
<1>3. DeliveriesAccounted
  BY DEF Init, DeliveriesAccounted, Marks, Empty
<1> QED  BY <1>1, <1>2, <1>3 DEF IInv

\* What the poll's own steps make of its transaction.
LEMMA WorkStep == TypeOK /\ WorkInProgress /\ [Next]_vars => WorkInProgress'
<1> SUFFICES ASSUME TypeOK, WorkInProgress, [Next]_vars PROVE WorkInProgress'
  OBVIOUS
<1> USE DEF WorkInProgress
<1>1. CASE \E m \in Moves : Fight(m)
  BY <1>1 DEF Fight, poll
<1>2. CASE Tick
  BY <1>2 DEF Tick, poll
<1>3. CASE \E view \in RosterViews : Fetch(view)
  BY <1>3 DEF Fetch
<1>4. CASE Persist
  <2>1. /\ pc' = "writing" /\ db' = db /\ tx' = ReconciledTables
        /\ queue' = Created(ReconciledTables) \X Admins
    BY <1>4 DEF Persist, Messages
  <2>2. db.marks \subseteq tx'.marks
    BY <2>1, ReconciledTablesProps
  <2>3. \A n \in Orders : db.rows[n].manual => tx'.rows[n] = db.rows[n]
    BY <2>1, ReconciledTablesProps
  <2>4. ASSUME NEW n \in Orders, db.rows[n] = NoRow, tx'.rows[n] # NoRow, NEW a \in Admins
        PROVE  <<n, a>> \in queue'
    BY <2>1, <2>4 DEF Created
  <2> QED  BY <2>1, <2>2, <2>3, <2>4
<1>5. ASSUME NEW n \in Orders, NEW a \in Admins, Skip(n, a) PROVE WorkInProgress'
  BY <1>5 DEF Skip, WasSent
<1>6. ASSUME NEW n \in Orders, NEW a \in Admins, Deliver(n, a) PROVE WorkInProgress'
  <2>1. tx'.rows = tx.rows /\ tx'.marks = tx.marks \cup {<<a, n>>}
    BY <1>6 DEF Deliver, TypeOK, Tables
  <2> QED  BY <1>6, <2>1 DEF Deliver
<1>7. ASSUME NEW n \in Orders, NEW a \in Admins, NEW arrived \in BOOLEAN,
             SendRaises(n, a, arrived)
      PROVE WorkInProgress'
  BY <1>7 DEF SendRaises
<1>8. CASE Commit
  BY <1>8 DEF Commit
<1>9. CASE Abort
  BY <1>9 DEF Abort
<1>10. CASE \E n \in Orders : FlagClaimed(n)
  BY <1>10 DEF FlagClaimed, Unlocked, poll
<1>11. CASE \E n \in Orders : RemoveManual(n)
  BY <1>11 DEF RemoveManual, Unlocked, poll
<1>12. CASE UNCHANGED vars
  BY <1>12 DEF vars, poll
<1> QED
  BY <1>1, <1>2, <1>3, <1>4, <1>5, <1>6, <1>7, <1>8, <1>9, <1>10, <1>11, <1>12 DEF Next

\* Every step keeps the account: a delivery comes with its mark or with a
\* loss, and a rolled back mark is a loss.
LEMMA AccountStep ==
  TypeOK /\ WorkInProgress /\ DeliveriesAccounted /\ [Next]_vars => DeliveriesAccounted'
<1> SUFFICES ASSUME TypeOK, WorkInProgress, DeliveriesAccounted, [Next]_vars,
                    NEW m \in Admins \X Orders
             PROVE  inbox'[m] = lost'[m] + (IF m \in Marks' THEN 1 ELSE 0)
  BY DEF DeliveriesAccounted
<1>a. inbox[m] = lost[m] + (IF m \in Marks THEN 1 ELSE 0)
  BY DEF DeliveriesAccounted
<1>b. inbox \in [Admins \X Orders -> Nat] /\ lost \in [Admins \X Orders -> Nat]
  BY DEF TypeOK
<1>1. CASE \E x \in Moves : Fight(x)
  BY <1>1, <1>a DEF Fight, poll, Marks
<1>2. CASE Tick
  BY <1>2, <1>a DEF Tick, poll, Marks
<1>3. CASE \E view \in RosterViews : Fetch(view)
  BY <1>3, <1>a DEF Fetch, Marks
<1>4. CASE Persist
  BY <1>4, <1>a, ReconciledTablesProps DEF Persist, Marks
<1>5. CASE \E n \in Orders, a \in Admins : Skip(n, a)
  BY <1>5, <1>a DEF Skip, Marks
<1>6. ASSUME NEW n \in Orders, NEW a \in Admins, Deliver(n, a)
      PROVE inbox'[m] = lost'[m] + (IF m \in Marks' THEN 1 ELSE 0)
  <2>1. Marks' = Marks \cup {<<a, n>>} /\ <<a, n>> \notin Marks /\ lost' = lost
    BY <1>6 DEF Deliver, WasSent, Marks, TypeOK, Tables
  <2>2. inbox'[m] = IF m = <<a, n>> THEN inbox[m] + 1 ELSE inbox[m]
    BY <1>6, <1>b DEF Deliver
  <2> QED  BY <1>a, <1>b, <2>1, <2>2
<1>7. ASSUME NEW n \in Orders, NEW a \in Admins, NEW arrived \in BOOLEAN,
             SendRaises(n, a, arrived)
      PROVE inbox'[m] = lost'[m] + (IF m \in Marks' THEN 1 ELSE 0)
  <2>1. Marks' = Marks
    BY <1>7 DEF SendRaises, Marks
  <2>2. /\ inbox'[m] = IF m = <<a, n>> /\ arrived THEN inbox[m] + 1 ELSE inbox[m]
        /\ lost'[m] = IF m = <<a, n>> /\ arrived THEN lost[m] + 1 ELSE lost[m]
    BY <1>7, <1>b DEF SendRaises
  <2> QED  BY <1>a, <1>b, <2>1, <2>2
<1>8. CASE Commit
  BY <1>8, <1>a DEF Commit, Marks
<1>9. CASE Abort
  <2>1. lost'[m] = IF pc = "writing" /\ m \in tx.marks \ db.marks THEN lost[m] + 1 ELSE lost[m]
    BY <1>9 DEF Abort
  <2>2. inbox' = inbox /\ Marks' = db.marks
    BY <1>9 DEF Abort, CommittedByAbort, Marks
  <2>3. pc = "writing" => db.marks \subseteq tx.marks
    BY DEF WorkInProgress
  <2> QED  BY <1>a, <1>b, <2>1, <2>2, <2>3 DEF Marks
<1>10. CASE \E n \in Orders : FlagClaimed(n)
  BY <1>10, <1>a DEF FlagClaimed, Unlocked, poll, Marks, TypeOK, Tables
<1>11. CASE \E n \in Orders : RemoveManual(n)
  BY <1>11, <1>a DEF RemoveManual, Unlocked, poll, Marks, TypeOK, Tables
<1>12. CASE UNCHANGED vars
  BY <1>12, <1>a DEF vars, poll, Marks
<1> QED
  BY <1>1, <1>2, <1>3, <1>4, <1>5, <1>6, <1>7, <1>8, <1>9, <1>10, <1>11, <1>12 DEF Next

\* The transaction of a poll in progress extends the committed tables.
THEOREM PollExtendsTables == Spec => []WorkInProgress
<1>1. TypeOK /\ WorkInProgress /\ [Next]_vars => (TypeOK /\ WorkInProgress)'
  BY TypeStep, WorkStep
<1>2. Init => TypeOK /\ WorkInProgress
  BY IInvInit DEF IInv
<1> QED  BY <1>1, <1>2, PTL DEF Spec

\* ... and always.
LEMMA IInvAlways == Spec => []IInv
<1>1. IInv /\ [Next]_vars => IInv'
  BY TypeStep, WorkStep, AccountStep DEF IInv
<1> QED  BY <1>1, IInvInit, PTL DEF Spec

\* The history of notifications accounts for every message delivered: with
\* notify_once an administrator gets a message again only after its mark was
\* lost with a transaction, or after the sender raised.
THEOREM Accounted == Spec => []DeliveriesAccounted
<1>1. IInv => DeliveriesAccounted
  BY DEF IInv
<1> QED  BY <1>1, IInvAlways, PTL

-----------------------------------------------------------------------------
(* Action properties.                                                       *)

\* A message whose mark is committed is never sent again.
THEOREM NeverResent == Spec => NoResendOnceMarked
<1> DEFINE A == \A m \in db.marks : m \in db'.marks /\ inbox'[m] = inbox[m]
<1>1. IInv /\ [Next]_vars => A
  <2> SUFFICES ASSUME TypeOK, WorkInProgress, [Next]_vars, NEW m \in db.marks
               PROVE  m \in db'.marks /\ inbox'[m] = inbox[m]
    BY DEF IInv
  <2>0. m \in Admins \X Orders /\ inbox \in [Admins \X Orders -> Nat]
    BY DEF TypeOK, Tables
  <2>1. CASE pc = "writing"
    <3>1. m \in tx.marks
      BY <2>1 DEF WorkInProgress
    <3>2. ASSUME NEW n \in Orders, NEW a \in Admins, Deliver(n, a)
          PROVE  inbox'[m] = inbox[m] /\ db' = db
      BY <3>1, <3>2, <2>0 DEF Deliver, WasSent
    <3>3. ASSUME NEW n \in Orders, NEW a \in Admins, NEW arrived \in BOOLEAN,
                 SendRaises(n, a, arrived)
          PROVE  inbox'[m] = inbox[m] /\ db' = db
      BY <3>1, <3>3, <2>0 DEF SendRaises, WasSent
    <3> QED
      BY <2>1, <3>1, <3>2, <3>3 DEF Next, Fight, Tick, Fetch, Persist, Skip, Commit,
         Abort, CommittedByAbort, FlagClaimed, RemoveManual, Unlocked, vars
  <2>2. CASE pc # "writing"
    <3>1. CASE \E n \in Orders : FlagClaimed(n) \/ RemoveManual(n)
      BY <3>1 DEF FlagClaimed, RemoveManual, TypeOK, Tables
    <3> QED
      BY <2>2, <3>1 DEF Next, Fight, Tick, Fetch, Persist, Skip, Deliver, SendRaises,
         Commit, Abort, CommittedByAbort, vars
  <2> QED  BY <2>1, <2>2
<1> QED  BY <1>1, IInvAlways, PTL DEF Spec, NoResendOnceMarked

\* No poll changes a violation that an administrator has set.
THEOREM ManualKept == Spec => ManualRowsKept
<1> DEFINE A == pc # pc' => \A n \in Orders : db.rows[n].manual => db'.rows[n] = db.rows[n]
<1>1. IInv /\ [Next]_vars => A
  BY DEF IInv, WorkInProgress, Next, Fight, Tick, Fetch, Persist, Skip, Deliver, SendRaises,
     Commit, Abort, CommittedByAbort, FlagClaimed, RemoveManual, vars, poll
<1> QED  BY <1>1, IInvAlways, PTL DEF Spec, ManualRowsKept

\* Every violation that a poll records was announced to every administrator,
\* now or before, or the sender raised for him.
THEOREM AllAttempted == Spec => EveryAdminAttempted
<1> DEFINE A == \A n \in Orders :
                  (db.rows[n] = NoRow /\ db'.rows[n] # NoRow /\ ~db'.rows[n].manual) =>
                     \A a \in Admins : <<a, n>> \in db'.marks \cup refused
<1>1. IInv /\ [Next]_vars => A
  <2> SUFFICES ASSUME TypeOK, WorkInProgress, [Next]_vars PROVE A
    BY DEF IInv
  <2>1. CASE Commit
    BY <2>1 DEF Commit, WorkInProgress
  <2>2. ASSUME NEW k \in Orders, FlagClaimed(k) PROVE A
    BY <2>2 DEF FlagClaimed, ManualRow, TypeOK, Tables
  <2>3. ASSUME NEW k \in Orders, RemoveManual(k) PROVE A
    BY <2>3 DEF RemoveManual, TypeOK, Tables
  <2>4. CASE db' = db
    BY <2>4
  <2> QED
    BY <2>1, <2>2, <2>3, <2>4 DEF Next, Fight, Tick, Fetch, Persist, Skip, Deliver,
       SendRaises, Abort, CommittedByAbort, vars
<1> QED  BY <1>1, IInvAlways, PTL DEF Spec, EveryAdminAttempted

-----------------------------------------------------------------------------
(* Standing decisions.  A violation once final is not overturned by what    *)
(* happens later in the war.                                                *)

(* A regular war gives each member two attacks at most, and the poll is     *)
(* served the full enemy roster.                                            *)
RegularWar == RosterViews = {Roster} /\ Quota <= 2

(* No member has attacked more often than allowed.                          *)
QuotaKept == \A p \in Int : Cardinality(AttacksBy(p)) <= Quota

\* No attack has been made at first.
LEMMA QuotaInit == Init => QuotaKept
<1> SUFFICES ASSUME Init, NEW p \in Int PROVE Cardinality(AttacksBy(p)) <= Quota
  BY DEF QuotaKept
<1>1. AttacksBy(p) = {}
  BY DEF Init, AttacksBy
<1> QED  BY <1>1, FS_EmptySet, WarSyncAssumption

\* A member's attacks are finitely many.
LEMMA AttacksByFinite ==
  ASSUME TypeOK, NEW p PROVE IsFiniteSet(AttacksBy(p))
<1>1. AttacksBy(p) \in SUBSET (1..Len(battle)) /\ 1 \in Int /\ Len(battle) \in Int
  BY DEF AttacksBy, TypeOK
<1>2. IsFiniteSet(1..Len(battle))
  BY <1>1, FS_Interval
<1> QED  BY <1>1, <1>2, FS_Subset

\* The game lets a member attack only below the quota.
LEMMA QuotaStep == TypeOK /\ QuotaKept /\ [Next]_vars => QuotaKept'
<1> SUFFICES ASSUME TypeOK, QuotaKept, [Next]_vars, NEW p \in Int
             PROVE  Cardinality(AttacksBy(p)') <= Quota
  BY DEF QuotaKept
<1>1. ASSUME NEW m \in Moves, Fight(m) PROVE Cardinality(AttacksBy(p)') <= Quota
  <2>1. /\ battle \in Seq(Moves) /\ Len(battle) \in Nat /\ battle' = Append(battle, m)
        /\ m.attacker \in Int
    BY <1>1, WarSyncAssumption DEF TypeOK, Fight
  <2>2. AttacksBy(p)' = IF m.attacker = p THEN AttacksBy(p) \cup {Len(battle) + 1} ELSE AttacksBy(p)
    BY <2>1 DEF AttacksBy
  <2>3. IsFiniteSet(AttacksBy(p))
    BY AttacksByFinite
  <2>4. CASE m.attacker = p
    <3>1. Len(battle) + 1 \notin AttacksBy(p)
      BY <2>1 DEF AttacksBy
    <3>2. Cardinality(AttacksBy(p) \cup {Len(battle) + 1}) =
            IF Len(battle) + 1 \in AttacksBy(p) THEN Cardinality(AttacksBy(p))
            ELSE Cardinality(AttacksBy(p)) + 1
      BY <2>3, FS_AddElement, Zenon
    <3>3. Cardinality(AttacksBy(p)) < Quota /\ Cardinality(AttacksBy(p)) \in Nat
      BY <1>1, <2>3, <2>4, FS_CardinalityType DEF Fight
    <3> QED  BY <2>2, <2>4, <3>1, <3>2, <3>3, WarSyncAssumption
  <2> QED  BY <2>2, <2>4 DEF QuotaKept
<1>2. CASE battle' = battle
  BY <1>2 DEF QuotaKept, AttacksBy
<1> QED
  BY <1>1, <1>2 DEF Next, Tick, Fetch, Persist, Skip, Deliver, SendRaises, Commit, Abort,
     FlagClaimed, RemoveManual, vars, game

\* The attacks stored from the war carry their own orders, and no member has
\* more of them than attacks.
LEMMA StoredOnes ==
  ASSUME TypeOK, QuotaKept, NEW d \in Tables, StoredOrders(d) \subseteq 1..Len(battle)
  PROVE  /\ IsFiniteSet(StoredAttacks(d)) /\ DistinctOrders(StoredAttacks(d))
         /\ \A b \in StoredAttacks(d) : b.seen \in Int
         /\ \A p \in Int : Cardinality(ByPlayer(StoredAttacks(d), p)) <= Quota
<1> DEFINE S == StoredAttacks(d)
           f(T) == [b \in T |-> b.order]
<1>0. Len(battle) \in Nat /\ \A n \in 1..Len(battle) : battle[n].attacker \in Int
  BY WarSyncAssumption DEF TypeOK
<1>1. \A b \in S : /\ b.order \in StoredOrders(d) /\ b = AttackOf(d, b.order)
                   /\ b.order \in 1..Len(battle)
                   /\ b.attacker = battle[b.order].attacker
                   /\ b.seen = d.seen[b.order]
  BY DEF StoredAttacks, AttackOf
<1> HIDE DEF S
<1>2. DistinctOrders(S)
  BY <1>0, <1>1 DEF DistinctOrders
<1>3. \A b \in S : b.seen \in Int
  BY <1>1, WarSyncAssumption DEF StoredOrders, Tables, Times
<1>4. ASSUME NEW T \in SUBSET S, NEW U, \A b \in T : b.order \in U
      PROVE  f(T) \in Injection(T, U)
  BY <1>2, <1>4 DEF DistinctOrders, Injection, IsInjective
<1>5. IsFiniteSet(S)
  <2>1. f(S) \in Injection(S, 1..Len(battle))
    BY <1>1, <1>4
  <2> QED  BY <1>0, <2>1, FS_Interval, FS_Injection
<1>6. ASSUME NEW p \in Int PROVE Cardinality(ByPlayer(S, p)) <= Quota
  <2>1. f(ByPlayer(S, p)) \in Injection(ByPlayer(S, p), AttacksBy(p))
    BY <1>1, <1>4 DEF ByPlayer, AttacksBy
  <2>2. IsFiniteSet(AttacksBy(p))
    BY AttacksByFinite
  <2>3. /\ Cardinality(ByPlayer(S, p)) <= Cardinality(AttacksBy(p))
        /\ IsFiniteSet(ByPlayer(S, p))
    BY <2>1, <2>2, FS_Injection
  <2> QED  BY <2>2, <2>3, FS_CardinalityType, WarSyncAssumption DEF QuotaKept
<1> QED  BY <1>2, <1>3, <1>5, <1>6 DEF S

\* The decision depends on the stored attacks, the roster and the end alone.
LEMMA SameDecision ==
  ASSUME NEW d, NEW e, d.seen = e.seen, d.roster = e.roster, d.ended = e.ended
  PROVE  /\ StoredOrders(d) = StoredOrders(e)
         /\ \A n, at : DecisionOf(d, n, at) = DecisionOf(e, n, at)
<1>1. StoredOrders(d) = StoredOrders(e)
  BY DEF StoredOrders
<1>2. \A n : AttackOf(d, n) = AttackOf(e, n)
  BY DEF AttackOf
<1>3. StoredAttacks(d) = StoredAttacks(e) /\ WarOf(d) = WarOf(e)
  BY <1>1, <1>2 DEF StoredAttacks, WarOf
<1> QED  BY <1>1, <1>2, <1>3, Zenon DEF DecisionOf

\* A recorded decision stands when a later poll stores more attacks.
LEMMA DecisionStays ==
  ASSUME TypeOK, QuotaKept, Quota <= 2, NEW d \in Tables, NEW e \in Tables,
         NEW at \in Int, NEW at2 \in Int, at <= at2,
         StoredOrders(d) \subseteq StoredOrders(e), StoredOrders(e) \subseteq 1..Len(battle),
         d.roster = e.roster, d.ended => e.ended /\ StoredOrders(d) = StoredOrders(e),
         \A k \in StoredOrders(d) : e.seen[k] = d.seen[k],
         \A k \in StoredOrders(d), m \in Orders : m < k => m \in StoredOrders(d),
         at >= Window => \A k \in StoredOrders(e) \ StoredOrders(d) : e.seen[k] > Window,
         NEW n \in StoredOrders(d), NEW c \in PositionalCodes,
         DecisionOf(d, n, at) = [code |-> c, final |-> TRUE]
  PROVE  DecisionOf(e, n, at2) = [code |-> c, final |-> TRUE]
<1> DEFINE A == StoredAttacks(d)
           B == StoredAttacks(e)
           a == AttackOf(d, n)
<1>1. \A k \in StoredOrders(d) : AttackOf(e, k) = AttackOf(d, k)
  BY DEF AttackOf
<1>2. a \in A /\ A \subseteq B /\ (StoredOrders(d) = StoredOrders(e) => A = B)
  BY <1>1 DEF StoredAttacks
<1>3. IsFiniteSet(B) /\ DistinctOrders(B) /\ \A b \in B : b.seen \in Int
  BY StoredOnes
<1>4. a.attacker \in Int /\ Cardinality(ByPlayer(B, a.attacker)) <= Quota
  <2>1. n \in 1..Len(battle)
    OBVIOUS
  <2>2. a.attacker \in Int
    BY <2>1, WarSyncAssumption DEF TypeOK, AttackOf
  <2> QED  BY <2>2, StoredOnes
<1>5. Cardinality(ByPlayer(B, a.attacker)) <= 2
  <2>1. IsFiniteSet(ByPlayer(B, a.attacker))
    <3>1. ByPlayer(B, a.attacker) \in SUBSET B
      BY DEF ByPlayer
    <3> QED  BY <1>3, <3>1, FS_Subset
  <2>2. Cardinality(ByPlayer(B, a.attacker)) \in Nat
    BY <2>1, FS_CardinalityType
  <2> QED  BY <1>4, <2>2, WarSyncAssumption
<1>6. \A b \in A, x \in B \ A : b.order < x.order
  <2>1. ASSUME NEW k \in StoredOrders(d), NEW m \in StoredOrders(e) \ StoredOrders(d)
        PROVE  k < m
    <3>1. k \in Int /\ m \in Int /\ m \in Orders /\ ~(m < k) /\ m # k
      BY <2>1 DEF StoredOrders, Orders
    <3> QED  BY <3>1
  <2> QED  BY <1>1, <2>1 DEF StoredAttacks, AttackOf
<1>7. at >= Window => \A x \in B \ A : x.seen > Window
  BY <1>1 DEF StoredAttacks, AttackOf
<1>8. /\ WarOf(d).timed = WarOf(e).timed /\ WarOf(d).start = WarOf(e).start
      /\ WarOf(d).roster = WarOf(e).roster /\ WarOf(d).quota = WarOf(e).quota
      /\ WarOf(d).start = 0 /\ WarOf(d).quota = Quota
      /\ WarOf(d).ended => WarOf(e).ended /\ A = B
  BY <1>2 DEF WarOf
<1>9. Violated(Decide(WarOf(d), A, at, a)) /\ Decide(WarOf(d), A, at, a).final
  BY DEF DecisionOf, Violated, PositionalCodes, AboveSelf, TooLow, NoCode
<1>10. Decide(WarOf(e), B, at2, a) = Decide(WarOf(d), A, at, a)
  <2> DEFINE w == WarOf(d)
             v == WarOf(e)
  <2>0. /\ Window \in Int /\ w.start \in Int /\ w.quota \in Nat
        /\ Window = w.start + Window
    BY <1>8, WarSyncAssumption
  <2> HIDE DEF A, B, a, w, v
  <2>1. Cardinality(ByPlayer(B, a.attacker)) <= w.quota
    BY <1>4, <1>8 DEF w
  <2>2. at >= w.start + Window => \A x \in B \ A : x.seen > w.start + Window
    BY <1>7, <2>0
  <2>3. /\ w.timed = v.timed /\ w.start = v.start /\ w.roster = v.roster
        /\ w.quota = v.quota /\ (w.ended => v.ended /\ A = B)
    BY <1>8 DEF w, v
  <2>4. Violated(Decide(w, A, at, a)) /\ Decide(w, A, at, a).final
    BY <1>9 DEF w
  <2>5. Decide(v, B, at2, a) = Decide(w, A, at, a)
    BY <1>2, <1>3, <1>5, <1>6, <2>0, <2>1, <2>2, <2>3, <2>4, DecisionStands
  <2> QED  BY <2>5 DEF w, v
<1>11. AttackOf(e, n) = a
  BY <1>1
<1> QED  BY <1>10, <1>11 DEF DecisionOf

(* The inductive invariant behind the automatic rows: the tables d, and     *)
(* those of a poll in progress, hold a beginning of the war's attacks, and  *)
(* each automatic row is what the rules said, finally, at the last poll.    *)
Standing(d, n, at) ==
  /\ n \in StoredOrders(d)
  /\ ~d.rows[n].manual
  /\ DecisionOf(d, n, at) = [code |-> d.rows[n].code, final |-> TRUE]

Sound(d, at) ==
  /\ StoredOrders(d) \subseteq 1..Len(battle)
  /\ \A n \in StoredOrders(d), m \in Orders : m < n => m \in StoredOrders(d)
  /\ \A n \in StoredOrders(d) : d.seen[n] <= at
  /\ StoredOrders(d) # {} => d.roster = Roster
  /\ d.ended => now >= WarEnd /\ StoredOrders(d) = 1..Len(battle)
  /\ \A n \in Orders : d.rows[n].code \in PositionalCodes => Standing(d, n, at)

(* What a poll fetched is at least as new as what is stored.                *)
SnapSound ==
  /\ lastPoll <= now
  /\ pc = "fetched" => lastPoll < now \/ now = LastTick
  /\ pc # "idle" =>
       /\ snap.roster = Roster
       /\ snap.size <= Len(battle)
       /\ snap.ended => now >= WarEnd /\ snap.size = Len(battle)
       /\ db.ended => snap.ended
       /\ \A n \in StoredOrders(db) : n <= snap.size

(* A poll in progress adds rows where there were none, and sends and marks  *)
(* messages about those rows only.                                          *)
Fresh(n) == db.rows[n] = NoRow /\ tx.rows[n] # NoRow /\ ~tx.rows[n].manual
Adds == pc = "writing" =>
  /\ \A n \in Orders : tx.rows[n] = db.rows[n] \/ Fresh(n)
  /\ \A m \in tx.marks \ db.marks : Fresh(m[2])
  /\ \A m \in queue : Fresh(m[1])

\* A poll that serves the full roster stores all attacks it fetched.
LEMMA StoredAll ==
  ASSUME TypeOK, Sound(db, lastPoll), SnapSound, pc = "fetched"
  PROVE  /\ StoredOrders(Stored) = 1..snap.size /\ snap.size \in Nat
         /\ StoredOrders(db) \subseteq StoredOrders(Stored)
         /\ \A n \in StoredOrders(db) : Stored.seen[n] = db.seen[n]
         /\ \A n \in StoredOrders(Stored) \ StoredOrders(db) : Stored.seen[n] = now
         /\ \A n \in StoredOrders(Stored) : Stored.seen[n] <= now
<1>1. /\ \A n \in Orders : db.seen[n] \in Times \cup {Unseen}
      /\ now \in Times /\ snap.size \in 0..MaxAttacks /\ Len(battle) \in Nat
      /\ \A n \in 1..Len(battle) : battle[n].target \in Roster
      /\ lastPoll \in Times \cup {Unseen}
  BY WarSyncAssumption DEF TypeOK, Tables
<1>2. \A n \in Orders : Stored.seen[n] = IF db.seen[n] = Unseen /\ Visible(n) THEN now
                                        ELSE db.seen[n]
  BY StoredShape
<1>3. ASSUME NEW n \in Orders PROVE Visible(n) <=> n <= snap.size
  BY <1>1, WarSyncAssumption DEF Visible, SnapSound, Orders
<1>4. /\ \A n \in StoredOrders(db) : n \in Orders /\ n <= snap.size /\ db.seen[n] # Unseen
      /\ \A n \in Orders : n \notin StoredOrders(db) => db.seen[n] = Unseen
  BY DEF StoredOrders, SnapSound
<1>5. now # Unseen /\ now \in Int /\ lastPoll <= now /\ lastPoll \in Int
  BY <1>1, WarSyncAssumption DEF Times, Unseen, SnapSound
<1>6. ASSUME NEW n \in Orders PROVE n \in StoredOrders(Stored) <=> n <= snap.size
  BY <1>2, <1>3, <1>4, <1>5, <1>6 DEF StoredOrders
<1>7. StoredOrders(Stored) = 1..snap.size
  <2>1. 1..snap.size \subseteq Orders /\ StoredOrders(Stored) \subseteq Orders
    BY <1>1, WarSyncAssumption DEF Orders, StoredOrders
  <2>2. \A n \in Orders : n <= snap.size <=> n \in 1..snap.size
    BY <1>1, WarSyncAssumption DEF Orders
  <2> QED  BY <1>6, <2>1, <2>2
<1>8. \A n \in StoredOrders(db) : Stored.seen[n] = db.seen[n] /\ db.seen[n] <= lastPoll
  BY <1>2, <1>4 DEF Sound
<1>9. \A n \in StoredOrders(Stored) \ StoredOrders(db) : Stored.seen[n] = now
  BY <1>2, <1>3, <1>4, <1>6 DEF StoredOrders
<1>10. \A n \in StoredOrders(Stored) : Stored.seen[n] <= now
  <2>1. \A n \in StoredOrders(db) : db.seen[n] \in Int
    BY <1>1, WarSyncAssumption DEF StoredOrders, Times, Unseen
  <2> QED  BY <1>5, <1>8, <1>9, <2>1
<1> QED  BY <1>1, <1>4, <1>6, <1>7, <1>8, <1>9, <1>10

\* When a poll reconciles, the rules still decide a recorded violation as they
\* did at the last poll, on the attacks stored before and on those stored now.
LEMMA StillDecided ==
  ASSUME TypeOK, QuotaKept, Quota <= 2, Sound(db, lastPoll), SnapSound, pc = "fetched",
         NEW n \in Orders, db.rows[n].code \in PositionalCodes
  PROVE  /\ n \in StoredOrders(db) /\ ~db.rows[n].manual
         /\ DecisionOf(Stored, n, now) = [code |-> db.rows[n].code, final |-> TRUE]
         /\ DecisionOf(db, n, now) = [code |-> db.rows[n].code, final |-> TRUE]
<1>1. /\ n \in StoredOrders(db) /\ ~db.rows[n].manual
      /\ DecisionOf(db, n, lastPoll) = [code |-> db.rows[n].code, final |-> TRUE]
  BY DEF Sound, Standing
<1>2. /\ db \in Tables /\ Stored \in Tables /\ lastPoll \in Int /\ now \in Int
      /\ lastPoll <= now /\ Stored.roster = snap.roster /\ Stored.ended = snap.ended
  BY StoredShape, WarSyncAssumption DEF TypeOK, Times, Unseen, SnapSound
<1>3. /\ StoredOrders(db) \subseteq StoredOrders(Stored)
      /\ StoredOrders(db) \subseteq 1..Len(battle)
      /\ StoredOrders(Stored) \subseteq 1..Len(battle)
      /\ \A k \in StoredOrders(db) : Stored.seen[k] = db.seen[k]
      /\ \A k \in StoredOrders(db), m \in Orders : m < k => m \in StoredOrders(db)
  <2>1. snap.size <= Len(battle) /\ snap.size \in Nat /\ Len(battle) \in Nat
    BY StoredAll DEF SnapSound, TypeOK
  <2> QED  BY <2>1, StoredAll DEF Sound
<1>4. db.roster = Stored.roster
  BY <1>1, <1>2 DEF Sound, SnapSound
<1>5. db.ended => Stored.ended /\ StoredOrders(db) = StoredOrders(Stored)
  <2> SUFFICES ASSUME db.ended
               PROVE  Stored.ended /\ StoredOrders(db) = StoredOrders(Stored)
    OBVIOUS
  <2>1. snap.ended /\ snap.size = Len(battle)
    BY DEF SnapSound
  <2>2. StoredOrders(db) = 1..Len(battle)
    BY DEF Sound
  <2> QED  BY <1>2, <2>1, <2>2, StoredAll
<1>6. lastPoll >= Window =>
        \A k \in StoredOrders(Stored) \ StoredOrders(db) : Stored.seen[k] > Window
  <2>1. lastPoll >= Window => now > Window
    BY <1>2, WarSyncAssumption DEF SnapSound
  <2> QED  BY <2>1, StoredAll
<1>7. DecisionOf(Stored, n, now) = [code |-> db.rows[n].code, final |-> TRUE]
  BY <1>1, <1>2, <1>3, <1>4, <1>5, <1>6, DecisionStays
<1>8. DecisionOf(db, n, now) = [code |-> db.rows[n].code, final |-> TRUE]
  <2>1. /\ StoredOrders(db) \subseteq StoredOrders(db)
        /\ StoredOrders(db) \ StoredOrders(db) = {}
        /\ \A k \in StoredOrders(db) : db.seen[k] = db.seen[k]
    OBVIOUS
  <2>2. lastPoll >= Window => \A k \in StoredOrders(db) \ StoredOrders(db) : db.seen[k] > Window
    BY <2>1
  <2> QED  BY <1>1, <1>2, <1>3, <2>1, <2>2, DecisionStays
<1> QED  BY <1>1, <1>7, <1>8

\* A poll leaves the committed tables sound, makes sound ones, and adds rows only.
LEMMA PersistSound ==
  ASSUME TypeOK, QuotaKept, Quota <= 2, Sound(db, lastPoll), SnapSound, pc = "fetched"
  PROVE  /\ Sound(db, now) /\ Sound(ReconciledTables, now)
         /\ \A n \in Orders :
              \/ ReconciledTables.rows[n] = db.rows[n]
              \/ db.rows[n] = NoRow /\ ~ReconciledTables.rows[n].manual
<1> DEFINE R == ReconciledTables
<1>1. /\ now \in Int /\ lastPoll \in Int /\ lastPoll <= now /\ Len(battle) \in Nat
      /\ \A n \in Orders : db.rows[n] \in Rows
      /\ \A n \in StoredOrders(db) : db.seen[n] \in Int
  BY WarSyncAssumption DEF TypeOK, Times, Unseen, SnapSound, Tables, StoredOrders
<1>2. Sound(db, now)
  <2>1. \A n \in StoredOrders(db) : db.seen[n] <= now
    BY <1>1 DEF Sound
  <2>2. \A n \in Orders : db.rows[n].code \in PositionalCodes => Standing(db, n, now)
    BY StillDecided DEF Standing
  <2> QED  BY <2>1, <2>2 DEF Sound
<1>3. /\ R.seen = Stored.seen /\ R.roster = Stored.roster /\ R.ended = Stored.ended
      /\ Stored.roster = snap.roster /\ Stored.ended = snap.ended
      /\ \A n \in Orders :
           R.rows[n] = IF n \in StoredOrders(Stored)
                       THEN Reconcile(db.rows[n], DecisionOf(Stored, n, now))
                       ELSE db.rows[n]
  BY StoredShape
<1> HIDE DEF R
<1>4. /\ StoredOrders(R) = StoredOrders(Stored)
      /\ \A n, at : DecisionOf(R, n, at) = DecisionOf(Stored, n, at)
  BY <1>3, SameDecision
<1>5. ASSUME NEW n \in Orders, n \in StoredOrders(Stored)
      PROVE  /\ R.rows[n] = db.rows[n] \/ (db.rows[n] = NoRow /\ ~R.rows[n].manual)
             /\ R.rows[n].code \in PositionalCodes => Standing(R, n, now)
  <2> DEFINE dec == DecisionOf(Stored, n, now)
  <2>1. /\ R.rows[n] = Reconcile(db.rows[n], dec) /\ db.rows[n] \in Rows
        /\ n \in StoredOrders(R) /\ dec \in Decisions /\ DecisionOf(R, n, now) = dec
    BY <1>1, <1>3, <1>4, <1>5, DecideShape DEF DecisionOf
  <2>2. db.rows[n].code \in PositionalCodes =>
          ~db.rows[n].manual /\ dec = [code |-> db.rows[n].code, final |-> TRUE]
    BY StillDecided
  <2> HIDE DEF dec
  <2>3. CASE Protected(db.rows[n])
    BY <2>1, <2>2, <2>3 DEF Reconcile, Protected
  <2>4. CASE ~Protected(db.rows[n])
    <3>1. ~db.rows[n].manual /\ db.rows[n].code \in PositionalCodes \cup {NoCode}
      BY <2>4 DEF Protected
    <3>2. CASE Violated(dec) /\ dec.final
      <4>1. R.rows[n] = [code |-> dec.code, manual |-> FALSE]
        BY <2>1, <2>4, <3>2 DEF Reconcile, Reconciled
      <4>2. dec = [code |-> dec.code, final |-> TRUE]
        BY <2>1, <3>2 DEF Decisions
      <4>3. db.rows[n].code = NoCode => db.rows[n] = NoRow
        BY <2>1, <3>1 DEF Rows, NoRow
      <4>4. db.rows[n].code \in PositionalCodes => db.rows[n] = [code |-> dec.code, manual |-> FALSE]
        <5>1. db.rows[n] = [code |-> db.rows[n].code, manual |-> FALSE]
          BY <2>1, <3>1 DEF Rows
        <5>2. db.rows[n].code \in PositionalCodes => dec.code = db.rows[n].code
          BY <2>2
        <5> QED  BY <5>1, <5>2
      <4> QED  BY <2>1, <3>1, <4>1, <4>2, <4>3, <4>4 DEF Standing
    <3>3. CASE ~(Violated(dec) /\ dec.final)
      <4>1. db.rows[n].code = NoCode
        BY <2>2, <3>1, <3>3 DEF Violated, PositionalCodes, AboveSelf, TooLow, NoCode
      <4>2. R.rows[n] = NoRow /\ db.rows[n] = NoRow
        BY <2>1, <2>4, <3>1, <3>3, <4>1 DEF Reconcile, Reconciled, Rows, NoRow
      <4> QED  BY <4>2 DEF NoRow, PositionalCodes, AboveSelf, TooLow, NoCode
    <3> QED  BY <3>2, <3>3
  <2> QED  BY <2>3, <2>4
<1>6. ASSUME NEW n \in Orders, n \notin StoredOrders(Stored)
      PROVE  R.rows[n] = db.rows[n] /\ R.rows[n].code \notin PositionalCodes
  <2>1. n \notin StoredOrders(db)
    BY <1>6, StoredAll
  <2> QED  BY <1>3, <1>6, <2>1 DEF Sound, Standing
<1>7. Sound(R, now)
  <2>1. /\ StoredOrders(R) = 1..snap.size /\ snap.size \in Nat /\ snap.size <= Len(battle)
        /\ \A n \in StoredOrders(R) : R.seen[n] <= now
        /\ R.roster = Roster /\ R.ended = snap.ended
    BY <1>3, <1>4, StoredAll DEF SnapSound
  <2>2. /\ StoredOrders(R) \subseteq 1..Len(battle)
        /\ \A n \in StoredOrders(R), m \in Orders : m < n => m \in StoredOrders(R)
    BY <1>1, <2>1, WarSyncAssumption DEF Orders
  <2>3. R.ended => now >= WarEnd /\ StoredOrders(R) = 1..Len(battle)
    BY <2>1 DEF SnapSound
  <2>4. \A n \in Orders : R.rows[n].code \in PositionalCodes => Standing(R, n, now)
    BY <1>5, <1>6
  <2> QED  BY <2>1, <2>2, <2>3, <2>4 DEF Sound
<1> QED  BY <1>2, <1>5, <1>6, <1>7 DEF R

LedgerInv ==
  /\ TypeOK /\ WorkInProgress /\ QuotaKept
  /\ Sound(db, lastPoll)
  /\ pc = "writing" => Sound(tx, lastPoll)
  /\ SnapSound
  /\ Adds

\* An empty database is sound.
LEMMA LedgerInit == ASSUME RegularWar, Init PROVE LedgerInv
<1>1. TypeOK /\ WorkInProgress
  BY IInvInit DEF IInv
<1>2. QuotaKept
  BY QuotaInit
<1>3. Sound(db, lastPoll)
  <2>1. StoredOrders(db) = {} /\ ~db.ended /\ \A n \in Orders : db.rows[n].code = NoCode
    BY DEF Init, Empty, StoredOrders, NoRow
  <2> QED  BY <2>1 DEF Sound, PositionalCodes, AboveSelf, TooLow, NoCode
<1>4. SnapSound /\ Adds /\ pc # "writing"
  BY DEF Init, SnapSound, Adds, Unseen
<1> QED  BY <1>1, <1>2, <1>3, <1>4 DEF LedgerInv

\* Attacks made during the war and the passing of time leave stored tables sound.
LEMMA GameSound ==
  ASSUME TypeOK, NEW d \in Tables, NEW at, Sound(d, at),
         (\E m \in Moves : Fight(m)) \/ Tick \/ UNCHANGED game
  PROVE  Sound(d, at)'
<1>0. /\ battle \in Seq(Moves) /\ Len(battle) \in Nat /\ now \in Int
  BY WarSyncAssumption DEF TypeOK, Times
<1>1. /\ now' \in Int /\ now <= now' /\ Len(battle') \in Nat /\ Len(battle) <= Len(battle')
      /\ Len(battle') = Len(battle) \/ now < WarEnd
      /\ \A n \in 1..Len(battle) : battle'[n] = battle[n]
  BY <1>0 DEF Fight, Tick, game
<1>2. /\ \A n \in StoredOrders(d) : n \in 1..Len(battle)
      /\ StoredOrders(d)' = StoredOrders(d)
  BY DEF Sound, StoredOrders
<1>3. \A n \in StoredOrders(d) : AttackOf(d, n)' = AttackOf(d, n)
  BY <1>1, <1>2 DEF AttackOf
<1>4. StoredAttacks(d)' = StoredAttacks(d)
  BY <1>2, <1>3 DEF StoredAttacks
<1>5. \A n \in StoredOrders(d) : DecisionOf(d, n, at)' = DecisionOf(d, n, at)
  <2>1. WarOf(d)' = WarOf(d)
    BY DEF WarOf
  <2> QED  BY <1>3, <1>4, <2>1 DEF DecisionOf
<1>6. \A n \in Orders : Standing(d, n, at) => Standing(d, n, at)'
  BY <1>2, <1>5 DEF Standing
<1>7. d.ended => now' >= WarEnd /\ StoredOrders(d) = 1..Len(battle')
  BY <1>0, <1>1, WarSyncAssumption DEF Sound
<1> QED  BY <1>0, <1>1, <1>2, <1>6, <1>7 DEF Sound

\* The administrators' rows and the poll's marks do not touch soundness.
LEMMA RowsSound ==
  ASSUME NEW d, NEW e, NEW at, Sound(d, at),
         d.seen = e.seen, d.roster = e.roster, d.ended = e.ended,
         \A n \in Orders : e.rows[n] = d.rows[n] \/ e.rows[n].code \notin PositionalCodes
  PROVE  Sound(e, at)
<1>1. StoredOrders(e) = StoredOrders(d) /\ \A n : DecisionOf(e, n, at) = DecisionOf(d, n, at)
  BY SameDecision
<1> QED  BY <1>1 DEF Sound, Standing

\* Every step of the game, the poll and the administrators keeps the invariant.
LEMMA LedgerStep ==
  ASSUME RegularWar, LedgerInv, [Next]_vars PROVE LedgerInv'
<1> USE DEF LedgerInv
<1>1. TypeOK' /\ WorkInProgress' /\ QuotaKept'
  BY TypeStep, WorkStep, QuotaStep
<1>2. /\ db \in Tables /\ tx \in Tables /\ db' \in Tables /\ tx' \in Tables
      /\ lastPoll \in Int /\ now \in Int /\ Quota <= 2 /\ RosterViews = {Roster}
  BY <1>1, WarSyncAssumption DEF TypeOK, Times, Unseen, RegularWar
<1>3. ASSUME (\E m \in Moves : Fight(m)) \/ Tick \/ UNCHANGED game
      PROVE  \A d \in Tables : \A at : Sound(d, at) => Sound(d, at)'
  BY <1>3, GameSound
<1> DEFINE Rest == Sound(db, lastPoll)' /\ (pc = "writing" => Sound(tx, lastPoll))' /\ SnapSound' /\ Adds'
<1>4. CASE (\E m \in Moves : Fight(m)) \/ Tick \/ UNCHANGED vars
  <2>1. UNCHANGED <<db, poll>> /\ (now' = now \/ (now' = now + 1 /\ now < LastTick))
    BY <1>4 DEF Fight, Tick, vars, game
  <2>2. Sound(db, lastPoll)' /\ (pc = "writing" => Sound(tx, lastPoll))'
    BY <1>2, <1>3, <1>4, <2>1 DEF poll, vars, game
  <2>3. SnapSound'
    <3>1. \/ Len(battle') = Len(battle)
          \/ Len(battle') = Len(battle) + 1 /\ Len(battle) \in Nat /\ now < WarEnd /\ now' = now
      BY <1>4 DEF Fight, Tick, vars, game, TypeOK
    <3>2. Len(battle) \in Nat /\ snap.size \in Nat
      BY DEF TypeOK
    <3> QED  BY <1>2, <2>1, <3>1, <3>2, WarSyncAssumption DEF SnapSound, poll, StoredOrders
  <2>4. Adds'
    BY <2>1 DEF Adds, Fresh, poll
  <2> QED  BY <1>1, <2>2, <2>3, <2>4
<1>5. ASSUME NEW view \in RosterViews, Fetch(view) PROVE LedgerInv'
  <2>1. /\ UNCHANGED <<battle, now, db, tx, lastPoll>> /\ pc' = "fetched" /\ pc = "idle"
        /\ snap' = [size |-> Len(battle), ended |-> now >= WarEnd, roster |-> Roster]
        /\ lastPoll < now \/ now = LastTick
    BY <1>2, <1>5 DEF Fetch, game
  <2>2. Sound(db, lastPoll)'
    BY <1>2, <1>3, <2>1 DEF game
  <2>3. SnapSound'
    <3>1. Len(battle) \in Nat /\ \A n \in StoredOrders(db) : n \in 1..Len(battle)
      BY DEF TypeOK, Sound
    <3>2. db.ended => now >= WarEnd
      BY DEF Sound
    <3>3. /\ snap'.size = Len(battle) /\ snap'.roster = Roster
          /\ snap'.ended <=> now >= WarEnd
      BY <2>1
    <3>4. \A n \in StoredOrders(db) : n <= Len(battle)
      BY <3>1
    <3>5. lastPoll <= now
      BY DEF SnapSound
    <3>6. StoredOrders(db)' = StoredOrders(db)
      BY <2>1
    <3> QED  BY <2>1, <3>1, <3>2, <3>3, <3>4, <3>5, <3>6 DEF SnapSound
  <2> QED  BY <1>1, <2>1, <2>2, <2>3 DEF Adds
<1>6. CASE Persist
  <2>1. /\ pc = "fetched" /\ pc' = "writing" /\ UNCHANGED <<battle, now, db, snap>>
        /\ tx' = ReconciledTables /\ lastPoll' = now
        /\ queue' = Created(ReconciledTables) \X Admins
    BY <1>6 DEF Persist, game, Messages
  <2>2. /\ Sound(db, now) /\ Sound(ReconciledTables, now)
        /\ \A n \in Orders :
             \/ ReconciledTables.rows[n] = db.rows[n]
             \/ db.rows[n] = NoRow /\ ~ReconciledTables.rows[n].manual
    BY <1>2, <2>1, PersistSound
  <2>3. Sound(db, lastPoll)' /\ Sound(tx, lastPoll)'
    <3>1. \A d \in Tables : Sound(d, now) => Sound(d, now)'
      BY <1>3, <2>1 DEF game
    <3>2. \A d \in Tables : Sound(d, now)' => Sound(d, lastPoll)'
      BY <2>1
    <3> QED  BY <1>2, <2>1, <2>2, <3>1, <3>2
  <2>4. SnapSound'
    BY <1>2, <2>1 DEF SnapSound, StoredOrders
  <2>5. Adds'
    <3>1. ReconciledTables.marks = db.marks
      BY StoredShape
    <3> QED  BY <2>1, <2>2, <3>1 DEF Adds, Fresh, Created
  <2> QED  BY <1>1, <2>3, <2>4, <2>5
<1>7. ASSUME NEW n \in Orders, NEW a \in Admins, Skip(n, a) PROVE LedgerInv'
  <2>1. UNCHANGED <<battle, now, db, pc, snap, tx, lastPoll>> /\ queue' \subseteq queue
    BY <1>7 DEF Skip, game
  <2>2. Sound(db, lastPoll)' /\ (pc = "writing" => Sound(tx, lastPoll))'
    BY <1>2, <1>3, <2>1 DEF game
  <2> QED  BY <1>1, <2>1, <2>2 DEF SnapSound, Adds, Fresh, StoredOrders
<1>8. ASSUME NEW n \in Orders, NEW a \in Admins, Deliver(n, a) PROVE LedgerInv'
  <2>1. /\ UNCHANGED <<battle, now, db, pc, snap, lastPoll>> /\ queue' \subseteq queue
        /\ pc = "writing" /\ <<n, a>> \in queue
        /\ tx'.marks = tx.marks \cup {<<a, n>>} /\ tx'.rows = tx.rows
        /\ tx'.seen = tx.seen /\ tx'.roster = tx.roster /\ tx'.ended = tx.ended
    BY <1>2, <1>8 DEF Deliver, game, IsNext, Tables
  <2>2. Sound(db, lastPoll)' /\ Sound(tx, lastPoll)'
    <3>1. Sound(tx', lastPoll)
      BY <2>1, RowsSound
    <3> QED  BY <1>2, <1>3, <2>1, <3>1 DEF game
  <2>3. Adds'
    BY <2>1 DEF Adds, Fresh
  <2> QED  BY <1>1, <2>1, <2>2, <2>3 DEF SnapSound, StoredOrders
<1>9. ASSUME NEW n \in Orders, NEW a \in Admins, NEW arrived \in BOOLEAN,
             SendRaises(n, a, arrived)
      PROVE LedgerInv'
  <2>1. UNCHANGED <<battle, now, db, pc, snap, tx, lastPoll>> /\ queue' \subseteq queue
    BY <1>9 DEF SendRaises, game
  <2>2. Sound(db, lastPoll)' /\ (pc = "writing" => Sound(tx, lastPoll))'
    BY <1>2, <1>3, <2>1 DEF game
  <2> QED  BY <1>1, <2>1, <2>2 DEF SnapSound, Adds, Fresh, StoredOrders
<1>10. CASE Commit
  <2>1. /\ UNCHANGED <<battle, now, lastPoll>> /\ pc = "writing" /\ pc' = "idle" /\ db' = tx
    BY <1>10 DEF Commit, game
  <2>2. Sound(db, lastPoll)'
    BY <1>2, <1>3, <2>1 DEF game
  <2> QED  BY <1>1, <2>1, <2>2 DEF SnapSound, Adds
<1>11. CASE Abort
  <2>1. /\ UNCHANGED <<battle, now, lastPoll>> /\ pc' = "idle" /\ db' = db
    BY <1>11 DEF Abort, game, CommittedByAbort
  <2>2. Sound(db, lastPoll)'
    BY <1>2, <1>3, <2>1 DEF game
  <2> QED  BY <1>1, <2>1, <2>2 DEF SnapSound, Adds
<1>12. ASSUME NEW n \in Orders, FlagClaimed(n) \/ RemoveManual(n) PROVE LedgerInv'
  <2>1. /\ UNCHANGED <<battle, now, poll>> /\ pc # "writing"
        /\ db'.seen = db.seen /\ db'.roster = db.roster /\ db'.ended = db.ended
        /\ \A k \in Orders : db'.rows[k] = db.rows[k] \/ db'.rows[k].code \notin PositionalCodes
    BY <1>2, <1>12 DEF FlagClaimed, RemoveManual, Unlocked, game, Tables, NoRow, ManualRow,
       ClaimedTarget, PositionalCodes, AboveSelf, TooLow, NoCode
  <2>2. Sound(db, lastPoll)'
    <3>1. Sound(db', lastPoll)
      BY <2>1, RowsSound
    <3> QED  BY <1>2, <1>3, <2>1, <3>1 DEF game, poll
  <2>3. SnapSound' /\ Adds'
    BY <2>1 DEF SnapSound, Adds, poll, StoredOrders
  <2> QED  BY <1>1, <2>1, <2>2, <2>3 DEF poll
<1> QED
  BY <1>4, <1>5, <1>6, <1>7, <1>8, <1>9, <1>10, <1>11, <1>12 DEF Next

\* ... so it always holds.
LEMMA LedgerAlways == ASSUME RegularWar PROVE Spec => []LedgerInv
<1>1. Init => LedgerInv
  BY LedgerInit
<1>2. LedgerInv /\ [Next]_vars => LedgerInv'
  BY LedgerStep
<1> QED  BY <1>1, <1>2, PTL DEF Spec

\* In a regular war served with its full roster, every automatic violation in
\* the database is one the rules find now, and find final, with the same code
\* (evaluate_war_attack_violations over the rows of reconcile_war).
THEOREM RowsStand == ASSUME RegularWar PROVE Spec => []RowsFollowRules
<1>1. LedgerInv => RowsFollowRules
  <2> SUFFICES ASSUME LedgerInv, NEW n \in Orders, db.rows[n].code \in PositionalCodes
               PROVE  DecisionOf(db, n, now) = [code |-> db.rows[n].code, final |-> TRUE]
    BY DEF RowsFollowRules
  <2>1. /\ TypeOK /\ QuotaKept /\ Quota <= 2 /\ db \in Tables
        /\ lastPoll \in Int /\ now \in Int /\ lastPoll <= now
    BY WarSyncAssumption DEF LedgerInv, TypeOK, Times, Unseen, RegularWar, SnapSound
  <2>2. /\ n \in StoredOrders(db) /\ StoredOrders(db) \subseteq 1..Len(battle)
        /\ DecisionOf(db, n, lastPoll) = [code |-> db.rows[n].code, final |-> TRUE]
        /\ \A k \in StoredOrders(db), m \in Orders : m < k => m \in StoredOrders(db)
    BY DEF LedgerInv, Sound, Standing
  <2>3. /\ StoredOrders(db) \subseteq StoredOrders(db)
        /\ StoredOrders(db) \ StoredOrders(db) = {}
        /\ \A k \in StoredOrders(db) : db.seen[k] = db.seen[k]
    OBVIOUS
  <2>4. lastPoll >= Window => \A k \in StoredOrders(db) \ StoredOrders(db) : db.seen[k] > Window
    BY <2>3
  <2> QED  BY <2>1, <2>2, <2>3, <2>4, DecisionStays
<1> QED  BY <1>1, LedgerAlways, PTL

\* The poll with its transaction, its notifications and its failures, and the
\* administrators' own changes, implement the ledger: whatever the
\* reconciliation recomputes, the bot only ever adds entries, and it tells of
\* an entry in the transaction that records it.
THEOREM LedgerImplemented == ASSUME RegularWar PROVE Spec => ImplementsLedger
<1> DEFINE entry == [n \in Orders |-> IF db.rows[n] = NoRow THEN "none"
                               ELSE IF db.rows[n].manual THEN "manual" ELSE "automatic"]
<1>1. Init => Ledger!Init
  BY DEF Init, Ledger!Init, Empty
<1>2. LedgerInv /\ [Next]_vars => [Ledger!Next]_(Ledger!vars)
  <2> SUFFICES ASSUME LedgerInv, [Next]_vars PROVE Ledger!Next \/ UNCHANGED Ledger!vars
    OBVIOUS
  <2>0. db \in Tables /\ db' \in Tables
    <3>1. TypeOK /\ TypeOK'
      BY TypeStep DEF LedgerInv
    <3> QED  BY <3>1 DEF TypeOK
  <2>1. CASE Commit
    <3>1. pc = "writing" /\ db' = tx
      BY <2>1 DEF Commit
    <3>2. \A n \in Orders : entry'[n] = entry[n] \/ (entry[n] = "none" /\ entry'[n] = "automatic")
      BY <3>1 DEF LedgerInv, Adds, Fresh
    <3>3. \A m \in db'.marks \ db.marks : m[2] \in Orders /\ entry[m[2]] = "none" /\ entry'[m[2]] = "automatic"
      BY <2>0, <3>1 DEF LedgerInv, Adds, Fresh, Tables
    <3>4. db.marks \subseteq db'.marks
      BY <3>1 DEF LedgerInv, WorkInProgress
    <3> QED  BY <3>2, <3>3, <3>4 DEF Ledger!Next, Ledger!Record, Ledger!Recorded
  <2>2. ASSUME NEW n \in Orders, FlagClaimed(n) PROVE Ledger!Next
    <3>1. db'.marks = db.marks /\ db'.rows = [db.rows EXCEPT ![n] = ManualRow]
      BY <2>0, <2>2 DEF FlagClaimed, Tables
    <3>2. entry' = [entry EXCEPT ![n] = "manual"]
      <4>1. db'.rows[n] = ManualRow /\ \A k \in Orders : k # n => db'.rows[k] = db.rows[k]
        BY <2>0, <3>1 DEF Tables
      <4>2. ManualRow # NoRow /\ ManualRow.manual
        BY DEF ManualRow, NoRow
      <4> QED  BY <4>1, <4>2
    <3> QED  BY <3>1, <3>2 DEF Ledger!Next, Ledger!Flag
  <2>3. ASSUME NEW n \in Orders, RemoveManual(n) PROVE Ledger!Next
    <3>1. /\ db'.marks = db.marks /\ db'.rows = [db.rows EXCEPT ![n] = NoRow]
          /\ db.rows[n].manual /\ db.rows[n] # NoRow
      BY <2>0, <2>3 DEF RemoveManual, Tables, NoRow
    <3>2. entry[n] = "manual" /\ entry' = [entry EXCEPT ![n] = "none"]
      BY <2>0, <3>1 DEF Tables
    <3> QED  BY <3>1, <3>2 DEF Ledger!Next, Ledger!Unflag
  <2>4. CASE db' = db
    BY <2>4 DEF Ledger!vars
  <2> QED
    BY <2>1, <2>2, <2>3, <2>4 DEF Next, Fight, Tick, Fetch, Persist, Skip, Deliver,
       SendRaises, Abort, CommittedByAbort, vars
<1> QED  BY <1>1, <1>2, LedgerAlways, PTL DEF Spec, ImplementsLedger, Ledger!Spec
=============================================================================
