------------------------------ MODULE WarSync ------------------------------
(***************************************************************************)
(* The life of one regular war in the bot: the poll of WarSyncService      *)
(* (app/services/war_sync.py), which stores the attacks, reconciles the    *)
(* automatic violations and notifies the administrators, all in one        *)
(* transaction, and the administrators' own changes to violations.         *)
(*                                                                         *)
(* A poll is a sequence of steps with awaits between them: fetch the war,  *)
(* store and reconcile it, send one message after the other, fetch the     *)
(* league group, commit.  The transaction holds SQLite's write lock from   *)
(* its first write on, so administrators can write only while no poll is   *)
(* between its first write and its end.  A failure at any await, or the    *)
(* end of the process, drops the transaction; messages already sent stay   *)
(* sent.                                                                   *)
(***************************************************************************)
EXTENDS ViolationRules, Sequences

CONSTANTS Admins,       \* admin_telegram_ids by their place in the list
          Roster,       \* the enemy's places
          RosterViews,  \* enemy rosters the API may serve
          Moves,        \* [attacker, target, stars]: attacks members may make
          Quota,        \* attacks per member
          WarEnd,       \* the time the war ends
          MaxAttacks,   \* bound: attacks in the war
          LastTick,     \* bound: the clock stops here, past the end of the war
          MaxAborts,    \* bound: polls that fail after their fetch
          MaxLost       \* bound: a sender raises after a delivery only below it

ASSUME WarSyncAssumption ==
  /\ Admins \subseteq Nat
  /\ Roster \subseteq Int /\ RosterViews \subseteq SUBSET Roster
  /\ Moves \subseteq [attacker : Int, target : Roster, stars : 0..3]
  /\ Quota \in Nat /\ MaxAttacks \in Nat /\ MaxAborts \in Nat /\ MaxLost \in Nat
  /\ Window \in Nat /\ WarEnd \in Nat /\ LastTick \in Nat
  /\ Window < WarEnd /\ WarEnd < LastTick

Orders == 1..MaxAttacks
Times  == 0..LastTick
Unseen == -1

ClaimedTarget == "claimed_target"
Rows  == [code : PositionalCodes \cup {ClaimedTarget, NoCode}, manual : BOOLEAN]
NoRow == [code |-> NoCode, manual |-> FALSE]
ManualRow == [code |-> ClaimedTarget, manual |-> TRUE]

VARIABLES
  battle,    \* the game: the attacks made so far, in their order
  now,       \* the clock
  db,        \* the committed tables
  pc,        \* the poll: "idle", "fetched" or "writing"
  snap,      \* what the poll fetched
  tx,        \* the poll's transaction: the tables as it sees them
  queue,     \* messages of the poll still to be sent, <<order, admin>>
  refused,   \* messages of the poll whose sending raised, <<admin, order>>
  lastPoll,  \* the time at which a poll last stored the war
  inbox,     \* the world: messages delivered, per administrator and attack
  lost,      \* history: deliveries whose mark was never committed
  aborts     \* bound: failed polls so far

game == <<battle, now>>
poll == <<pc, snap, tx, queue, refused, lastPoll>>
vars == <<battle, now, db, poll, inbox, lost, aborts>>

(* The tables: observed_at and the violation of each attack, the marks of   *)
(* admin_notification_history, the participants and the state of the war.   *)
Tables == [seen   : [Orders -> Times \cup {Unseen}],
           rows   : [Orders -> Rows],
           marks  : SUBSET (Admins \X Orders),
           roster : SUBSET Roster,
           ended  : BOOLEAN]
Empty == [seen   |-> [n \in Orders |-> Unseen],
          rows   |-> [n \in Orders |-> NoRow],
          marks  |-> {},
          roster |-> {},
          ended  |-> FALSE]

NoSnap == [size |-> 0, ended |-> FALSE, roster |-> {}]

-----------------------------------------------------------------------------
(* The war of a set of tables as the rules see it.                          *)

AttackOf(d, n) ==
  [order |-> n, attacker |-> battle[n].attacker, position |-> battle[n].attacker,
   target |-> battle[n].target, stars |-> battle[n].stars, seen |-> d.seen[n]]
StoredOrders(d) == {n \in Orders : d.seen[n] # Unseen}
StoredAttacks(d) == {AttackOf(d, n) : n \in StoredOrders(d)}
WarOf(d) == [timed |-> TRUE, start |-> 0, roster |-> d.roster,
             quota |-> Quota, ended |-> d.ended]
DecisionOf(d, n, at) == Decide(WarOf(d), StoredAttacks(d), at, AttackOf(d, n))

-----------------------------------------------------------------------------
(* Mutated forms: plausible slips in the code that the properties exclude.  *)

MutantProtected(row) == FALSE                    \* manual rows reconciled, too
MutantReconciled(row, d) ==                      \* pending decisions recorded
  IF Violated(d) THEN [code |-> d.code, manual |-> FALSE] ELSE NoRow
MutantMessages(created) ==                       \* only the first administrator
  {m \in created \X Admins : \A b \in Admins : m[2] <= b}
MutantCommittedByAbort == tx                     \* a failed poll is committed
MutantVisible(n) ==                              \* attacks of the first member only
  /\ n <= snap.size
  /\ battle[n].target \in snap.roster
  /\ battle[n].attacker = battle[1].attacker

-----------------------------------------------------------------------------
(* Reconciliation of one attack: ViolationRecalculationService.             *)

\* Manual rows, and rows with another than a positional code, are left alone.
Protected(row) == row.manual \/ row.code \notin PositionalCodes \cup {NoCode}

\* What becomes of a row that is not protected.
Reconciled(row, d) ==
  IF Violated(d) /\ d.final THEN [code |-> d.code, manual |-> FALSE] ELSE NoRow

Reconcile(row, d) == IF Protected(row) THEN row ELSE Reconciled(row, d)

-----------------------------------------------------------------------------
Init ==
  /\ battle = << >>
  /\ now = 0
  /\ db = Empty
  /\ pc = "idle"
  /\ snap = NoSnap
  /\ tx = Empty
  /\ queue = {}
  /\ refused = {}
  /\ lastPoll = Unseen
  /\ inbox = [m \in Admins \X Orders |-> 0]
  /\ lost = [m \in Admins \X Orders |-> 0]
  /\ aborts = 0

(* The game.  A member attacks a base at most once, at most Quota times.    *)
AttacksBy(p) == {n \in 1..Len(battle) : battle[n].attacker = p}

Fight(m) ==
  /\ now < WarEnd
  /\ Len(battle) < MaxAttacks
  /\ Cardinality(AttacksBy(m.attacker)) < Quota
  /\ \A n \in AttacksBy(m.attacker) : battle[n].target # m.target
  /\ battle' = Append(battle, m)
  /\ UNCHANGED <<now, db, poll, inbox, lost, aborts>>

Tick ==
  /\ now < LastTick
  /\ now' = now + 1
  /\ UNCHANGED <<battle, db, poll, inbox, lost, aborts>>

-----------------------------------------------------------------------------
(* The poll.                                                                *)

(* get_current_war answers.  Polls store the war at different times; at     *)
(* the bound of the clock one time stands for all later ones.  (No current  *)
(* war, a friendly one, or an error: the poll leaves this war alone.)       *)
Fetch(view) ==
  /\ pc = "idle"
  /\ lastPoll < now \/ now = LastTick
  /\ pc' = "fetched"
  /\ snap' = [size |-> Len(battle), ended |-> now >= WarEnd, roster |-> view]
  /\ UNCHANGED <<game, db, tx, queue, refused, lastPoll, inbox, lost, aborts>>

(* An attack on a base missing from the served roster is skipped.           *)
Visible(n) ==
  /\ n <= snap.size
  /\ battle[n].target \in snap.roster

(* The tables after the war, its participants and its attacks are stored.   *)
Stored ==
  [db EXCEPT
     !.seen   = [n \in Orders |-> IF db.seen[n] = Unseen /\ Visible(n) THEN now
                                 ELSE db.seen[n]],
     !.roster = snap.roster,
     !.ended  = snap.ended]

(* ... and after the war-wide pass over the stored attacks.                 *)
ReconciledTables ==
  LET d == Stored
  IN  [d EXCEPT
         !.rows = [n \in Orders |->
                     IF n \in StoredOrders(d)
                     THEN Reconcile(db.rows[n], DecisionOf(d, n, now))
                     ELSE db.rows[n]]]

Created(d) == {n \in Orders : db.rows[n] = NoRow /\ d.rows[n] # NoRow}

(* Every violation created by this poll is announced to every administrator. *)
Messages(created) == created \X Admins

Persist ==
  /\ pc = "fetched"
  /\ pc' = "writing"
  /\ LET d == ReconciledTables
     IN  tx' = d /\ queue' = Messages(Created(d))
  /\ refused' = {}
  /\ lastPoll' = now
  /\ UNCHANGED <<game, db, snap, inbox, lost, aborts>>

(* notify_once: attacks in their order, administrators in theirs.           *)
IsNext(n, a) ==
  /\ <<n, a>> \in queue
  /\ \A m \in queue : n < m[1] \/ (n = m[1] /\ a <= m[2])

WasSent(a, n) == <<a, n>> \in tx.marks

Skip(n, a) ==
  /\ pc = "writing"
  /\ IsNext(n, a)
  /\ WasSent(a, n)
  /\ queue' = queue \ {<<n, a>>}
  /\ UNCHANGED <<game, db, pc, snap, tx, refused, lastPoll, inbox, lost, aborts>>

Deliver(n, a) ==
  /\ pc = "writing"
  /\ IsNext(n, a)
  /\ ~WasSent(a, n)
  /\ inbox' = [inbox EXCEPT ![<<a, n>>] = @ + 1]
  /\ tx' = [tx EXCEPT !.marks = @ \cup {<<a, n>>}]
  /\ queue' = queue \ {<<n, a>>}
  /\ UNCHANGED <<game, db, pc, snap, refused, lastPoll, lost, aborts>>

(* The sender raises, whether or not the message went out: no mark, and the *)
(* loop continues with the next administrator.                              *)
SendRaises(n, a, arrived) ==
  /\ pc = "writing"
  /\ IsNext(n, a)
  /\ ~WasSent(a, n)
  /\ arrived => lost[<<a, n>>] < MaxLost
  /\ refused' = refused \cup {<<a, n>>}
  /\ queue' = queue \ {<<n, a>>}
  /\ inbox' = [inbox EXCEPT ![<<a, n>>] = IF arrived THEN @ + 1 ELSE @]
  /\ lost'  = [lost EXCEPT ![<<a, n>>] = IF arrived THEN @ + 1 ELSE @]
  /\ UNCHANGED <<game, db, pc, snap, tx, lastPoll, aborts>>

(* The league group was answered and stored; the session commits.           *)
Commit ==
  /\ pc = "writing"
  /\ queue = {}
  /\ pc' = "idle"
  /\ db' = tx
  /\ snap' = NoSnap
  /\ tx' = Empty
  /\ refused' = {}
  /\ UNCHANGED <<game, queue, lastPoll, inbox, lost, aborts>>

(* An exception after the fetch (get_cwl_group, get_cwl_war, the database)  *)
(* closes the session without a commit; so does the end of the process.     *)
CommittedByAbort == db

Abort ==
  /\ pc # "idle"
  /\ aborts < MaxAborts
  /\ pc' = "idle"
  /\ db' = CommittedByAbort
  /\ snap' = NoSnap
  /\ tx' = Empty
  /\ queue' = {}
  /\ refused' = {}
  /\ lost' = [m \in Admins \X Orders |->
                IF pc = "writing" /\ m \in tx.marks \ db.marks THEN lost[m] + 1 ELSE lost[m]]
  /\ aborts' = aborts + 1
  /\ UNCHANGED <<game, lastPoll, inbox>>

-----------------------------------------------------------------------------
(* The administrators.  Their transactions are short: they read and write   *)
(* without waiting for anything but the lock, and a row that changed        *)
(* between the two makes the write fail (unique attack_id, row count).      *)

Unlocked == pc # "writing"

(* apply_claimed_target_violation, on an attack offered by the list.        *)
FlagClaimed(n) ==
  /\ Unlocked
  /\ n \in StoredOrders(db)
  /\ db' = [db EXCEPT !.rows[n] = ManualRow]
  /\ UNCHANGED <<game, poll, inbox, lost, aborts>>

(* remove_manual_violation_callback: DELETE ... WHERE id AND is_manual.     *)
RemoveManual(n) ==
  /\ Unlocked
  /\ db.rows[n].manual
  /\ db' = [db EXCEPT !.rows[n] = NoRow]
  /\ UNCHANGED <<game, poll, inbox, lost, aborts>>

-----------------------------------------------------------------------------
Next ==
  \/ \E m \in Moves : Fight(m)
  \/ Tick
  \/ \E view \in RosterViews : Fetch(view)
  \/ Persist
  \/ \E n \in Orders, a \in Admins : Skip(n, a)
  \/ \E n \in Orders, a \in Admins : Deliver(n, a)
  \/ \E n \in Orders, a \in Admins, arrived \in BOOLEAN : SendRaises(n, a, arrived)
  \/ Commit
  \/ Abort
  \/ \E n \in Orders : FlagClaimed(n)
  \/ \E n \in Orders : RemoveManual(n)

Spec == Init /\ [][Next]_vars

(* The scheduler calls the job again and again and every await of a poll    *)
(* ends: what the steps of a poll do to its program counter and its queue   *)
(* happens.  Time passes.  Failed polls are bounded by MaxAborts.           *)
PollAdvances ==
  \/ /\ pc = "idle" /\ (lastPoll < now \/ now = LastTick)
     /\ pc' = "fetched" /\ queue' = queue
  \/ pc = "fetched" /\ pc' = "writing" /\ queue' \in SUBSET (Orders \X Admins)
  \/ pc = "writing" /\ pc' = pc /\ \E m \in queue : queue' = queue \ {m}
  \/ pc = "writing" /\ queue = {} /\ pc' = "idle" /\ queue' = {}
FairSpec == Spec /\ WF_<<pc, queue>>(PollAdvances) /\ WF_vars(Tick)

-----------------------------------------------------------------------------
(* Properties                                                               *)

\* The tables, the poll and the counters have the shape the code gives them.
TypeOK ==
  /\ battle \in Seq(Moves) /\ Len(battle) <= MaxAttacks
  /\ now \in Times
  /\ db \in Tables
  /\ pc \in {"idle", "fetched", "writing"}
  /\ snap \in [size : 0..MaxAttacks, ended : BOOLEAN, roster : SUBSET Roster]
  /\ tx \in Tables
  /\ queue \subseteq Orders \X Admins
  /\ refused \subseteq Admins \X Orders
  /\ lastPoll \in Times \cup {Unseen}
  /\ inbox \in [Admins \X Orders -> Nat]
  /\ lost \in [Admins \X Orders -> Nat]
  /\ aborts \in 0..MaxAborts

\* The history of sent notifications (AdminNotificationHistory) accounts for
\* every message an administrator got: each is marked, or its mark was lost
\* with a failed transaction or with an exception raised by the sender.  So
\* a message is repeated only after such a loss, never by a later poll alone.
Marks == IF pc = "writing" THEN tx.marks ELSE db.marks
DeliveriesAccounted ==
  \A m \in Admins \X Orders :
    inbox[m] = lost[m] + (IF m \in Marks THEN 1 ELSE 0)

\* Between its first write and its end, a poll's transaction differs from the
\* committed tables only by what this poll adds: no mark is lost, no manual
\* row changes, and every row it created is announced, refused or queued.
WorkInProgress ==
  /\ pc # "writing" => queue = {}
  /\ pc = "writing" =>
       /\ db.marks \subseteq tx.marks
       /\ \A n \in Orders :
            /\ db.rows[n].manual => tx.rows[n] = db.rows[n]
            /\ db.rows[n] = NoRow /\ tx.rows[n] # NoRow =>
                 \A a \in Admins : <<a, n>> \in tx.marks \cup refused \/ <<n, a>> \in queue

\* Once the mark of a message is committed, notify_once never sends that
\* message again, whatever is flagged, removed, recreated or rolled back.
NoResendOnceMarked ==
  [][\A m \in db.marks : m \in db'.marks /\ inbox'[m] = inbox[m]]_vars

\* No poll changes a violation set by an administrator, however the flag and
\* the poll's transaction interleave; only its removal does.
ManualRowsKept ==
  [][pc # pc' => \A n \in Orders : db.rows[n].manual => db'.rows[n] = db.rows[n]]_vars

\* A violation that a poll records was announced to every administrator in
\* the same poll, had been announced before, or its sending raised: one
\* unreachable administrator does not cost the others the message.
EveryAdminAttempted ==
  [][\A n \in Orders :
       (db.rows[n] = NoRow /\ db'.rows[n] # NoRow /\ ~db'.rows[n].manual) =>
          \A a \in Admins : <<a, n>> \in db'.marks \cup refused]_vars

\* With the full roster served, an automatic violation in the database is
\* always one the rules find now and find final, with the code they give.
RowsFollowRules ==
  \A n \in Orders :
    db.rows[n].code \in PositionalCodes =>
       DecisionOf(db, n, now) = [code |-> db.rows[n].code, final |-> TRUE]

\* The poll and the administrators' changes implement the ledger promised to
\* the administrators: automatic entries are never withdrawn or rewritten.
Ledger == INSTANCE ViolationLedger WITH
  Attacks <- Orders,
  entry   <- [n \in Orders |-> IF db.rows[n] = NoRow THEN "none"
                               ELSE IF db.rows[n].manual THEN "manual" ELSE "automatic"],
  told    <- db.marks
ImplementsLedger == Ledger!Spec

\* Every attack made is eventually stored, although polls fail.
EveryAttackStored ==
  \A n \in Orders : n <= Len(battle) ~> n \in StoredOrders(db)

\* A violation that waits for a possible second attack does not wait for
\* ever: it is recorded, or the rules allow the attack after all.
Pending(n) ==
  /\ n \in StoredOrders(db)
  /\ db.rows[n] = NoRow
  /\ Violated(DecisionOf(db, n, now))
PendingIsSettled == \A n \in Orders : Pending(n) ~> ~Pending(n)

-----------------------------------------------------------------------------
(* What the repository says and the code does not do.                       *)

\* PROJECT_GUIDE.md:17 promises notifications without duplicates.  A message
\* sent in a transaction that is then rolled back is sent again: its mark is
\* in the same transaction (war_sync.py:39-48, notifications.py:27-43).
NoDuplicates == \A m \in Admins \X Orders : inbox[m] <= 1
=============================================================================
