--------------------------- MODULE ClanMembership ---------------------------
(***************************************************************************)
(* Who is, was and is back in the clan: ClanSyncService.sync_members       *)
(* (app/services/clan_sync.py) and, as the other writer of players, the    *)
(* registration of a Telegram user (app/services/registration.py).         *)
(*                                                                         *)
(* A run of the job fetches the roster; stores players, memberships,       *)
(* return events and departures in one transaction; tells the              *)
(* administrators of returns; records donation snapshots, of which only    *)
(* the commit or rollback of the session matters here; and purges players  *)
(* absent for a full cycle.  It may fail, or the process may end, between  *)
(* any two of these.  Jobs do not overlap (max_instances=1).               *)
(*                                                                         *)
(* Time is counted in days.  A boundary is the start of a day, so a player *)
(* seen on a day was seen after the boundary of that day.  The loop over   *)
(* administrators of notify_once is modelled in WarSync; here one          *)
(* administrator stands for all.                                           *)
(***************************************************************************)
EXTENDS Integers, FiniteSets

CONSTANTS Tags,        \* players, by their place in the API's answer
          Boundaries,  \* days at which cycles begin
          LastDay,     \* bound: the calendar stops
          MaxId,       \* bound: the largest row number of a player
          MaxMoves,    \* bound: players joining or leaving the clan
          MaxCrashes   \* bound: failed runs of the job

ASSUME ClanMembershipAssumption ==
  /\ Tags \subseteq Nat /\ IsFiniteSet(Tags)
  /\ LastDay \in Nat /\ Boundaries \subseteq 0..LastDay
  /\ MaxId \in Nat /\ MaxMoves \in Nat /\ MaxCrashes \in Nat

Never == -1
Days  == 0..LastDay
Ids   == 1..MaxId
Players == [id : Ids, tag : Tags, inClan : BOOLEAN, seen : Days \cup {Never}]

VARIABLES
  world,     \* the game: who is in the clan
  moves,     \* bound: joins and leaves so far
  now,       \* the day
  players,   \* player_accounts; seen is last_seen_in_clan_at
  opens,     \* clan_membership_history: open rows per player row number
  left,      \* clan_membership_history: closed rows per player
  returns,   \* return_events per player
  archive,   \* departed_player_archive
  marks,     \* admin_notification_history: "return" keys, <<player, day>>
  pc,        \* the job: "idle", "fetched", "announcing" or "purging"
  snap,      \* the roster fetched
  at,        \* the day the job began
  pending,   \* returns to be announced
  txMarks,   \* marks as the job's session sees them
  inbox,     \* the world: messages per player
  sightings, \* history: <<player, day>> a committed roster had him in the clan
  crashes    \* bound: failed runs so far

clan == <<world, moves>>
tables == <<players, opens, left, returns, archive>>
job == <<pc, snap, at, pending, txMarks>>
vars == <<clan, now, tables, marks, job, inbox, sightings, crashes>>

-----------------------------------------------------------------------------
RowFor(t) == CHOOSE p \in players : p.tag = t
Known == {p.tag : p \in players}
Active == {p.tag : p \in {q \in players : q.inClan}}
LastId == IF players = {} THEN 0
          ELSE CHOOSE i \in {p.id : p \in players} : \A p \in players : p.id <= i

\* The numbers that new rows get, added in the order of the tags.
NewId(t, added) == LastId + Cardinality({u \in added : u <= t})

\* previous_cycle: the last boundary but one; there must be two.
Past == {b \in Boundaries : b <= at}
PreviousStart == CHOOSE b \in Past : Cardinality({c \in Past : c > b}) = 1

-----------------------------------------------------------------------------
Init ==
  /\ world \in SUBSET Tags
  /\ moves = 0
  /\ now = 0
  /\ players = {}
  /\ opens = [i \in Ids |-> 0]
  /\ left = [t \in Tags |-> 0]
  /\ returns = [t \in Tags |-> 0]
  /\ archive = {}
  /\ marks = {}
  /\ pc = "idle"
  /\ snap = {}
  /\ at = 0
  /\ pending = {}
  /\ txMarks = {}
  /\ inbox = [t \in Tags |-> 0]
  /\ sightings = {}
  /\ crashes = 0

(* The game and the calendar.                                               *)
Move(t) ==
  /\ moves < MaxMoves
  /\ moves' = moves + 1
  /\ world' = IF t \in world THEN world \ {t} ELSE world \cup {t}
  /\ UNCHANGED <<now, tables, marks, job, inbox, sightings, crashes>>

NextDay ==
  /\ now < LastDay
  /\ now' = now + 1
  /\ UNCHANGED <<clan, tables, marks, job, inbox, sightings, crashes>>

-----------------------------------------------------------------------------
(* The job.  A roster with duplicates, or of another size than the clan     *)
(* says, ends it before anything is written: such a run is no step.         *)
Fetch ==
  /\ pc = "idle"
  /\ pc' = "fetched"
  /\ snap' = world
  /\ at' = now
  /\ UNCHANGED <<clan, now, tables, marks, pending, txMarks, inbox, sightings, crashes>>

Returned == {t \in snap : t \in archive \/ (t \in Known /\ ~RowFor(t).inClan)}
Gone == Active \ snap

\* upsert_player: who is in the roster is in the clan, seen today.
MutantSeen(p) == IF p.seen = Never THEN at ELSE p.seen  \* mutated: first time only
Seen(p) == at
Stored(p) ==
  IF p.tag \in snap THEN [p EXCEPT !.inClan = TRUE, !.seen = Seen(p)]
  ELSE [p EXCEPT !.inClan = FALSE]

\* close_membership for the departed, open_or_create_membership for the rest.
MutantClosed(n) == n                                    \* mutated: left open
Closed(n) == 0

Persist ==
  LET added == snap \ Known
      fresh == {[id |-> NewId(t, added), tag |-> t, inClan |-> TRUE, seen |-> at] : t \in added}
      after == {Stored(p) : p \in players} \cup fresh
  IN  /\ pc = "fetched"
      /\ LastId + Cardinality(added) <= MaxId
      /\ pc' = "announcing"
      /\ players' = after
      /\ opens' = [i \in Ids |->
                     IF \E p \in after : p.id = i /\ p.tag \in snap
                     THEN IF opens[i] = 0 THEN 1 ELSE opens[i]
                     ELSE IF \E p \in players : p.id = i /\ p.tag \in Gone
                     THEN Closed(opens[i])
                     ELSE opens[i]]
      /\ left' = [t \in Tags |-> IF t \in Gone THEN left[t] + 1 ELSE left[t]]
      /\ returns' = [t \in Tags |-> IF t \in Returned THEN returns[t] + 1 ELSE returns[t]]
      /\ archive' = archive \ snap
      /\ pending' = Returned
      /\ sightings' = sightings \cup {<<t, at>> : t \in snap}
      /\ UNCHANGED <<clan, now, marks, snap, at, txMarks, inbox, crashes>>

(* notify_once, with a key per player and day: skipped, delivered, the      *)
(* sender raises, or the database fails and the session is rolled back.     *)
(* The mark waits for the session's next commit.                            *)
MutantAnnounced(t) == pending           \* mutated: the message stays pending
Announced(t) == pending \ {t}

Announce(t) ==
  /\ pc = "announcing"
  /\ t \in pending
  /\ pending' = Announced(t)
  /\ \/ <<t, at>> \in txMarks /\ UNCHANGED <<inbox, txMarks>>
     \/ /\ <<t, at>> \notin txMarks
        /\ inbox' = [inbox EXCEPT ![t] = @ + 1]
        /\ txMarks' = txMarks \cup {<<t, at>>}
     \/ <<t, at>> \notin txMarks /\ UNCHANGED <<inbox, txMarks>>
     \/ /\ <<t, at>> \notin txMarks
        /\ inbox' \in {inbox, [inbox EXCEPT ![t] = @ + 1]}
        /\ txMarks' = marks
  /\ UNCHANGED <<clan, now, tables, marks, pc, snap, at, sightings, crashes>>

(* The donation snapshots: the first one stored commits the session or      *)
(* rolls it back; or no profile could be loaded.                            *)
Snapshots ==
  /\ pc = "announcing"
  /\ pending = {}
  /\ pc' = "purging"
  /\ \/ marks' = txMarks /\ UNCHANGED txMarks
     \/ txMarks' = marks /\ UNCHANGED marks
     \/ UNCHANGED <<marks, txMarks>>
  /\ UNCHANGED <<clan, now, tables, snap, at, pending, inbox, sightings, crashes>>

\* _purge_players_absent_full_cycle: not without two boundaries, and never a
\* player the clan sync has not seen in the clan.
MutantPurgeable ==                       \* mutated: wants a third boundary
  IF Cardinality(Past) < 3 THEN {}
  ELSE {p \in players : ~p.inClan /\ p.seen # Never /\ p.seen < PreviousStart}
Purgeable ==
  IF Cardinality(Past) < 2 THEN {}
  ELSE {p \in players : ~p.inClan /\ p.seen # Never /\ p.seen < PreviousStart}

\* The archive keeps a trace of the purged.
MutantArchived == archive                \* mutated: it does not
Archived == archive \cup {p.tag : p \in Purgeable}

Purge ==
  /\ pc = "purging"
  /\ pc' = "idle"
  /\ players' = players \ Purgeable
  /\ archive' = Archived
  /\ marks' = txMarks
  /\ snap' = {}
  /\ at' = 0
  /\ UNCHANGED <<clan, now, opens, left, returns, pending, txMarks, inbox, sightings, crashes>>

(* The run fails, or the process ends; what is not committed is lost.       *)
Crash ==
  /\ pc # "idle"
  /\ crashes < MaxCrashes
  /\ crashes' = crashes + 1
  /\ pc' = "idle"
  /\ snap' = {}
  /\ at' = 0
  /\ pending' = {}
  /\ txMarks' = marks
  /\ UNCHANGED <<clan, now, tables, marks, inbox, sightings>>

-----------------------------------------------------------------------------
(* register_player: a player whose token was verified gets a row, if he has *)
(* none, that is not in the clan.  It waits for the job's uncommitted marks. *)
Register(t) ==
  /\ t \notin Known
  /\ txMarks = marks
  /\ LastId < MaxId
  /\ players' = players \cup {[id |-> LastId + 1, tag |-> t, inClan |-> FALSE, seen |-> Never]}
  /\ UNCHANGED <<clan, now, opens, left, returns, archive, marks, job, inbox, sightings, crashes>>

-----------------------------------------------------------------------------
Next ==
  \/ \E t \in Tags : Move(t)
  \/ NextDay
  \/ Fetch
  \/ Persist
  \/ \E t \in Tags : Announce(t)
  \/ Snapshots
  \/ Purge
  \/ Crash
  \/ \E t \in Tags : Register(t)

Spec == Init /\ [][Next]_vars

(* The scheduler starts the job again and again, its awaits end, and days   *)
(* pass.                                                                    *)
Job == Fetch \/ Persist \/ (\E t \in Tags : Announce(t)) \/ Snapshots \/ Purge
FairSpec == Spec /\ WF_vars(Job) /\ WF_now(NextDay)

-----------------------------------------------------------------------------
(* Properties                                                               *)

TypeOK ==
  /\ world \subseteq Tags /\ moves \in 0..MaxMoves /\ now \in Days
  /\ players \subseteq Players
  /\ opens \in [Ids -> Nat]
  /\ left \in [Tags -> Nat] /\ returns \in [Tags -> Nat]
  /\ archive \subseteq Tags
  /\ marks \subseteq Tags \X Days /\ txMarks \subseteq Tags \X Days
  /\ pc \in {"idle", "fetched", "announcing", "purging"}
  /\ snap \subseteq Tags /\ at \in Days /\ pending \subseteq Tags
  /\ inbox \in [Tags -> Nat]
  /\ sightings \subseteq Tags \X Days
  /\ crashes \in 0..MaxCrashes

\* A player in the clan has exactly one open membership, any other none, also
\* when a row number of a purged player is given to another one; and a player
\* has one row.
MembershipMatchesPlayer ==
  /\ \A p, q \in players : p.id = q.id \/ p.tag = q.tag => p = q
  /\ \A p \in players : opens[p.id] = IF p.inClan THEN 1 ELSE 0

\* No return is forgotten: whatever was purged, registered or lost in between,
\* every stay in the clan after a player's first has its return event, and he
\* has no more events than stays.  The first stay may have one: a player who
\* registered before a roster showed him is taken for one who returns.
Stays(t) == left[t] + (IF t \in Active THEN 1 ELSE 0)
EveryReturnRecorded == \A t \in Tags : Stays(t) - 1 <= returns[t] /\ returns[t] <= Stays(t)

\* The administrators get at most one message per return event.
AnnouncedOnce == \A t \in Tags : inbox[t] <= returns[t]

\* A player is purged only if no roster of the whole last completed cycle,
\* and none since, had him in the clan.
PurgedAfterFullCycle ==
  [][\A p \in players :
       p.tag \notin {q.tag : q \in players'} =>
         \A s \in sightings : s[1] = p.tag => s[2] < PreviousStart]_vars

\* A player who stays away is purged in the end, or comes back.
LongAbsent(t) ==
  \E p \in players :
    /\ p.tag = t /\ ~p.inClan /\ p.seen # Never
    /\ Cardinality({b \in Boundaries : b > p.seen}) >= 2
AbsentArePurged == \A t \in Tags : LongAbsent(t) ~> ~LongAbsent(t)
=============================================================================
