------------------------ MODULE ClanMembershipProofs ------------------------
(***************************************************************************)
(* Theorems about ClanMembership, for every clan, every calendar of cycles *)
(* and any number of joins, leaves, registrations and failed runs.         *)
(***************************************************************************)
EXTENDS ClanMembership, FiniteSetTheorems, TLAPS

-----------------------------------------------------------------------------
(* Row numbers.                                                             *)

\* A set of numbers that is not empty has a least one.
LEMMA LeastNatural ==
  ASSUME NEW T \in SUBSET Nat, T # {}
  PROVE  \E x \in T : \A y \in T : x <= y
<1> DEFINE R == OpToRel(<, Nat)
<1>1. \A x, y \in Nat : y < x => <<y, x>> \in R
  BY DEF OpToRel
<1>2. IsWellFoundedOn(R, Nat)
  BY NatLessThanWellFounded
<1> HIDE DEF R
<1>3. PICK x \in T : \A y \in T : <<y, x>> \notin R
  BY <1>2, WFMin
<1> QED
  <2>1. ASSUME NEW y \in T PROVE x <= y
    <3>1. ~(y < x)
      BY <1>1, <1>3
    <3> QED  BY <3>1
  <2> QED  BY <2>1

\* A bounded set of numbers that is not empty has a greatest one.
LEMMA GreatestNatural ==
  ASSUME NEW T \in SUBSET Nat, NEW n \in Nat, \A x \in T : x <= n, T # {}
  PROVE  \E x \in T : \A y \in T : y <= x
<1> DEFINE U == {n - x : x \in T}
<1>1. U \in SUBSET Nat /\ U # {}
  <2>1. \A x \in T : n - x \in Nat
    OBVIOUS
  <2> QED  BY <2>1
<1> HIDE DEF U
<1>2. PICK u \in U : \A v \in U : u <= v
  BY <1>1, LeastNatural
<1>3. PICK x \in T : u = n - x
  BY DEF U
<1>4. ASSUME NEW y \in T PROVE y <= x
  <2>1. n - y \in U
    BY DEF U
  <2> QED  BY <1>2, <1>3, <2>1
<1> QED  BY <1>4

\* The last row number is one of the table's, and none is greater.
LEMMA LastIdProps ==
  ASSUME players \subseteq Players
  PROVE  /\ LastId \in 0..MaxId
         /\ \A p \in players : p.id <= LastId
<1>1. CASE players = {}
  BY <1>1, ClanMembershipAssumption DEF LastId
<1>2. CASE players # {}
  <2> DEFINE T == {p.id : p \in players}
  <2>1. /\ T \in SUBSET Nat /\ T # {} /\ \A i \in T : i \in 1..MaxId /\ i <= MaxId
        /\ MaxId \in Nat
    BY <1>2, ClanMembershipAssumption DEF Players, Ids
  <2>2. \E i \in T : \A j \in T : j <= i
    <3> HIDE DEF T
    <3> QED  BY <2>1, GreatestNatural
  <2>3. LastId \in T /\ \A p \in players : p.id <= LastId
    BY <1>2, <2>2 DEF LastId
  <2> QED  BY <2>1, <2>3
<1> QED  BY <1>1, <1>2

\* The rows added by one roster get numbers of their own, after the last one.
LEMMA NewIdProps ==
  ASSUME players \subseteq Players, NEW added \in SUBSET Tags
  PROVE  /\ IsFiniteSet(added) /\ Cardinality(added) \in Nat
         /\ \A t \in added : NewId(t, added) \in (LastId + 1)..(LastId + Cardinality(added))
         /\ \A t, u \in added : NewId(t, added) = NewId(u, added) => t = u
<1> DEFINE upTo(t) == {u \in added : u <= t}
<1>1. IsFiniteSet(added) /\ Cardinality(added) \in Nat /\ LastId \in Nat /\ added \subseteq Nat
  <2>1. IsFiniteSet(Tags) /\ Tags \subseteq Nat /\ MaxId \in Nat
    BY ClanMembershipAssumption
  <2>2. IsFiniteSet(added)
    BY <2>1, FS_Subset
  <2>3. Cardinality(added) \in Nat
    BY <2>2, FS_CardinalityType
  <2>4. LastId \in Nat
    BY <2>1, LastIdProps
  <2> QED  BY <2>1, <2>2, <2>3, <2>4
<1>2. ASSUME NEW t \in added
      PROVE  /\ IsFiniteSet(upTo(t)) /\ Cardinality(upTo(t)) \in Nat
             /\ Cardinality(upTo(t)) <= Cardinality(added) /\ Cardinality(upTo(t)) >= 1
  <2>1. upTo(t) \in SUBSET added /\ t \in upTo(t)
    BY <1>1
  <2> HIDE DEF upTo
  <2>2. /\ IsFiniteSet(upTo(t)) /\ Cardinality(upTo(t)) \in Nat
        /\ Cardinality(upTo(t)) <= Cardinality(added)
    BY <1>1, <2>1, FS_Subset, FS_CardinalityType
  <2>3. Cardinality(upTo(t)) # 0
    BY <2>1, <2>2, FS_EmptySet
  <2> QED  BY <2>2, <2>3
<1>3. ASSUME NEW t \in added, NEW u \in added, t < u
      PROVE  Cardinality(upTo(t)) < Cardinality(upTo(u))
  <2>1. upTo(t) \in SUBSET upTo(u) /\ u \in upTo(u) /\ u \notin upTo(t)
    <3>1. t \in Nat /\ u \in Nat /\ ~(u <= t) /\ \A x \in added : x \in Nat /\ (x <= t => x <= u)
      BY <1>1, <1>3
    <3>2. \A x \in upTo(t) : x \in upTo(u)
      BY <3>1
    <3>3. u \in upTo(u) /\ u \notin upTo(t)
      BY <3>1
    <3> QED  BY <3>2, <3>3
  <2> HIDE DEF upTo
  <2>2. /\ Cardinality(upTo(t)) <= Cardinality(upTo(u))
        /\ Cardinality(upTo(u)) = Cardinality(upTo(t)) => upTo(u) = upTo(t)
    BY <1>2, <2>1, FS_Subset
  <2> QED  BY <1>2, <2>1, <2>2
<1>4. \A t \in added : NewId(t, added) = LastId + Cardinality(upTo(t))
  BY DEF NewId
<1> HIDE DEF upTo
<1>5. ASSUME NEW t \in added, NEW u \in added, NewId(t, added) = NewId(u, added)
      PROVE  t = u
  <2>1. Cardinality(upTo(t)) = Cardinality(upTo(u))
    BY <1>1, <1>2, <1>4, <1>5
  <2> QED  BY <1>1, <1>2, <1>3, <2>1
<1> QED  BY <1>1, <1>2, <1>4, <1>5

-----------------------------------------------------------------------------
(* What storing a roster does to the table of players.                      *)

OneRow == \A p, q \in players : p.id = q.id \/ p.tag = q.tag => p = q

\* Everybody in the roster has a row in the clan, seen at its fetch; the
\* others keep theirs, out of the clan (upsert_player, the loop over absent).
LEMMA PersistRows ==
  ASSUME TypeOK, OneRow, Persist
  PROVE  /\ players' \subseteq Players
         /\ OneRow'
         /\ Known' = Known \cup snap /\ Active' = snap
         /\ \A q \in players' : (q.inClan <=> q.tag \in snap) /\ (q.inClan => q.seen = at)
         /\ \A q \in players' : q.tag \in Known =>
              \E p \in players : p.id = q.id /\ p.tag = q.tag /\ (q.tag \notin snap => q.seen = p.seen)
         /\ \A q \in players' : q.tag \notin Known =>
              q.tag \in snap /\ \A p \in players : p.id # q.id
         /\ \A p \in players : \E q \in players' : q.id = p.id /\ q.tag = p.tag
<1> DEFINE added == snap \ Known
           row(p) == [id |-> p.id, tag |-> p.tag, inClan |-> IF p.tag \in snap THEN TRUE ELSE FALSE,
                      seen |-> IF p.tag \in snap THEN at ELSE p.seen]
           new(t) == [id |-> NewId(t, added), tag |-> t, inClan |-> TRUE, seen |-> at]
<1>1. /\ players \subseteq Players /\ snap \subseteq Tags /\ at \in Days
      /\ LastId + Cardinality(added) <= MaxId
      /\ players' = {Stored(p) : p \in players} \cup {new(t) : t \in added}
  BY DEF TypeOK, Persist
<1>2. ASSUME NEW p \in players PROVE Stored(p) = row(p) /\ row(p) \in Players
  <2>1. p = [id |-> p.id, tag |-> p.tag, inClan |-> p.inClan, seen |-> p.seen] /\ p \in Players
    BY <1>1 DEF Players
  <2>2. CASE p.tag \in snap
    <3>1. Stored(p) = [p EXCEPT !.inClan = TRUE, !.seen = at]
      BY <2>2 DEF Stored, Seen
    <3>2. Stored(p) = [id |-> p.id, tag |-> p.tag, inClan |-> TRUE, seen |-> at]
      BY <2>1, <3>1
    <3> QED  BY <1>1, <2>1, <2>2, <3>2 DEF Players
  <2>3. CASE p.tag \notin snap
    <3>1. Stored(p) = [p EXCEPT !.inClan = FALSE]
      BY <2>3 DEF Stored
    <3>2. Stored(p) = [id |-> p.id, tag |-> p.tag, inClan |-> FALSE, seen |-> p.seen]
      BY <2>1, <3>1
    <3> QED  BY <1>1, <2>1, <2>3, <3>2 DEF Players
  <2> QED  BY <2>2, <2>3
<1>f. ASSUME NEW p \in players
      PROVE  /\ row(p).id = p.id /\ row(p).tag = p.tag
             /\ p.tag \in snap => (row(p).inClan = TRUE /\ row(p).seen = at)
             /\ p.tag \notin snap => (row(p).inClan = FALSE /\ row(p).seen = p.seen)
  OBVIOUS
<1>n. ASSUME NEW t \in added
      PROVE  /\ new(t).id = NewId(t, added) /\ new(t).tag = t
             /\ new(t).inClan = TRUE /\ new(t).seen = at
  OBVIOUS
<1>g. added \in SUBSET Tags /\ \A t : t \in added <=> t \in snap /\ t \notin Known
  BY <1>1
<1>3. /\ players' = {row(p) : p \in players} \cup {new(t) : t \in added}
      /\ added \in SUBSET Tags
  <2> HIDE DEF row, new, added
  <2> QED  BY <1>1, <1>2, <1>g
<1>4. /\ LastId \in 0..MaxId /\ \A p \in players : p.id <= LastId /\ p.id \in Nat
      /\ Cardinality(added) \in Nat
      /\ \A t \in added : NewId(t, added) \in (LastId + 1)..(LastId + Cardinality(added))
      /\ \A t, u \in added : NewId(t, added) = NewId(u, added) => t = u
  <2>1. \A p \in players : p.id \in Nat
    BY <1>1 DEF Players, Ids
  <2> HIDE DEF added
  <2> QED  BY <1>1, <1>3, <2>1, LastIdProps, NewIdProps
<1>5. ASSUME NEW t \in added
      PROVE  new(t) \in Players /\ \A p \in players : p.id # new(t).id /\ p.tag # t
  <2>1. NewId(t, added) \in Ids /\ t \in Tags /\ \A p \in players : p.id # NewId(t, added)
    <3> HIDE DEF added
    <3> QED  BY <1>1, <1>g, <1>4, ClanMembershipAssumption DEF Ids
  <2>2. \A p \in players : p.tag # t
    BY DEF Known
  <2> QED  BY <1>1, <2>1, <2>2 DEF Players
<1>7. \A t, u \in added : new(t).id = new(u).id => t = u
  BY <1>4
<1> HIDE DEF row, new, added
<1>6. \A q \in players' : \/ \E p \in players : q = row(p)
                          \/ \E t \in added : q = new(t)
  BY <1>3
<1>8. players' \subseteq Players
  BY <1>2, <1>5, <1>6
<1>9. OneRow'
  <2> SUFFICES ASSUME NEW p \in players', NEW q \in players', p.id = q.id \/ p.tag = q.tag
               PROVE  p = q
    BY DEF OneRow
  <2>1. ASSUME NEW a \in players, NEW b \in players, p = row(a), q = row(b) PROVE p = q
    <3>1. a.id = b.id \/ a.tag = b.tag
      BY <2>1, <1>f, <1>n
    <3> QED  BY <2>1, <3>1 DEF OneRow
  <2>2. ASSUME NEW t \in added, NEW u \in added, p = new(t), q = new(u) PROVE p = q
    <3>1. new(t).tag = t /\ new(u).tag = u
      BY <1>n
    <3>2. new(t).id = new(u).id \/ t = u
      BY <2>2, <3>1
    <3> QED  BY <1>7, <2>2, <3>2
  <2>3. ASSUME NEW a \in players, NEW t \in added,
               (p = row(a) /\ q = new(t)) \/ (p = new(t) /\ q = row(a))
        PROVE  FALSE
    <3>1. row(a).id # new(t).id /\ row(a).tag # new(t).tag
      <4>1. a.id # new(t).id /\ a.tag # t
        BY <1>5
      <4>2. row(a).id = a.id /\ row(a).tag = a.tag
        BY <1>f
      <4>3. new(t).tag = t
        BY <1>n
      <4> QED  BY <4>1, <4>2, <4>3
    <3> QED  BY <2>3, <3>1
  <2> QED  BY <1>6, <2>1, <2>2, <2>3
<1>10. Known' = Known \cup snap
  <2>1. ASSUME NEW q \in players' PROVE q.tag \in Known \cup snap
    <3>1. ASSUME NEW p \in players, q = row(p) PROVE q.tag \in Known
      BY <1>f, <3>1 DEF Known
    <3>2. ASSUME NEW t \in added, q = new(t) PROVE q.tag \in snap
      BY <1>g, <1>n, <3>2
    <3> QED  BY <1>6, <3>1, <3>2
  <2>2. ASSUME NEW t \in Known PROVE t \in Known'
    <3>1. PICK p \in players : p.tag = t
      BY DEF Known
    <3>2. row(p) \in players' /\ row(p).tag = t
      BY <1>3, <1>f, <3>1
    <3> QED  BY <3>2 DEF Known
  <2>3. ASSUME NEW t \in snap, t \notin Known PROVE t \in Known'
    <3>1. new(t) \in players' /\ new(t).tag = t
      BY <1>3, <1>g, <1>n, <2>3
    <3> QED  BY <3>1 DEF Known
  <2> QED  BY <2>1, <2>2, <2>3 DEF Known
<1>11. ASSUME NEW q \in players'
       PROVE  (q.inClan <=> q.tag \in snap) /\ (q.inClan => q.seen = at)
  <2>1. ASSUME NEW p \in players, q = row(p)
        PROVE  (q.inClan <=> q.tag \in snap) /\ (q.inClan => q.seen = at)
    <3>1. q.tag = p.tag
      BY <2>1, <1>f, <1>n
    <3>2. CASE p.tag \in snap
      <4>1. q.inClan = TRUE /\ q.seen = at
        BY <2>1, <3>2, <1>f, <1>n
      <4> QED  BY <3>1, <3>2, <4>1
    <3>3. CASE p.tag \notin snap
      <4>1. q.inClan = FALSE
        BY <2>1, <3>3, <1>f, <1>n
      <4> QED  BY <3>1, <3>3, <4>1
    <3> QED  BY <3>2, <3>3
  <2>2. ASSUME NEW t \in added, q = new(t)
        PROVE  (q.inClan <=> q.tag \in snap) /\ (q.inClan => q.seen = at)
    BY <2>2, <1>f, <1>n, <1>g
  <2> QED  BY <1>6, <2>1, <2>2
<1>12. Active' = snap
  <2>1. \A t \in snap : \E q \in players' : q.tag = t
    BY <1>10 DEF Known
  <2> QED  BY <1>11, <2>1 DEF Active
<1>13. ASSUME NEW q \in players', q.tag \in Known
       PROVE  \E p \in players : p.id = q.id /\ p.tag = q.tag /\ (q.tag \notin snap => q.seen = p.seen)
  <2>1. ASSUME NEW t \in added PROVE q # new(t)
    BY <2>1, <1>13, <1>f, <1>n, <1>g
  <2>2. PICK p \in players : q = row(p)
    BY <1>6, <2>1
  <2>3. /\ q.id = p.id /\ q.tag = p.tag
        /\ p.tag \notin snap => q.seen = p.seen
    BY <2>2, <1>f, <1>n
  <2> QED  BY <2>3
<1>14. ASSUME NEW q \in players', q.tag \notin Known
       PROVE  q.tag \in snap /\ \A p \in players : p.id # q.id
  <2>0. ASSUME NEW p \in players PROVE q # row(p)
    BY <1>14, <1>f DEF Known
  <2>1. PICK t \in added : q = new(t)
    BY <1>6, <2>0
  <2> QED  BY <1>5, <2>1, <1>f, <1>n, <1>g
<1>15. ASSUME NEW p \in players PROVE \E q \in players' : q.id = p.id /\ q.tag = p.tag
  <2>1. row(p) \in players'
    BY <1>3
  <2> QED  BY <2>1, <1>f, <1>n
<1> QED  BY <1>8, <1>9, <1>10, <1>11, <1>12, <1>13, <1>14, <1>15

-----------------------------------------------------------------------------
(* Type correctness.                                                        *)

\* At first nobody is known.
LEMMA TypeInit == Init => TypeOK
BY ClanMembershipAssumption DEF Init, TypeOK, Days

\* Every step keeps the shape; a new row has a number within the bound.
LEMMA TypeStep == TypeOK /\ OneRow /\ [Next]_vars => TypeOK'
<1> SUFFICES ASSUME TypeOK, OneRow, [Next]_vars PROVE TypeOK'
  OBVIOUS
<1> USE ClanMembershipAssumption
<1>0. /\ opens \in [Ids -> Nat] /\ left \in [Tags -> Nat] /\ returns \in [Tags -> Nat]
      /\ inbox \in [Tags -> Nat] /\ at \in Days /\ now \in Days
      /\ players \subseteq Players /\ archive \subseteq Tags /\ snap \subseteq Tags
  BY DEF TypeOK
<1>1. ASSUME NEW t \in Tags, Move(t) PROVE TypeOK'
  BY <1>1 DEF Move, TypeOK, tables, job
<1>2. CASE NextDay
  BY <1>2 DEF NextDay, TypeOK, tables, job, clan, Days
<1>3. CASE Fetch
  BY <1>3 DEF Fetch, TypeOK, tables, clan
<1>4. CASE Persist
  <2>1. players' \subseteq Players
    BY <1>4, PersistRows
  <2>2. opens' \in [Ids -> Nat]
    BY <1>0, <1>4 DEF Persist, Closed
  <2>3. left' \in [Tags -> Nat] /\ returns' \in [Tags -> Nat]
    BY <1>0, <1>4 DEF Persist
  <2>4. archive' \subseteq Tags /\ pending' \subseteq Tags
    BY <1>0, <1>4 DEF Persist, Returned
  <2>5. sightings' \subseteq Tags \X Days
    BY <1>0, <1>4 DEF Persist, TypeOK
  <2> QED  BY <1>4, <2>1, <2>2, <2>3, <2>4, <2>5 DEF Persist, TypeOK, clan
<1>5. ASSUME NEW t \in Tags, Announce(t) PROVE TypeOK'
  <2>1. /\ inbox' \in [Tags -> Nat] /\ txMarks' \subseteq Tags \X Days
        /\ pending' \subseteq Tags
    BY <1>0, <1>5 DEF Announce, Announced, TypeOK
  <2> QED  BY <1>5, <2>1 DEF Announce, TypeOK, tables, clan
<1>6. CASE Snapshots
  BY <1>6 DEF Snapshots, TypeOK, tables, clan
<1>7. CASE Purge
  <2>1. archive' \subseteq Tags /\ players' \subseteq Players
    BY <1>0, <1>7 DEF Purge, Archived, Purgeable, Players
  <2>2. at' \in Days
    BY <1>7 DEF Purge, Days
  <2> QED  BY <1>7, <2>1, <2>2 DEF Purge, TypeOK, clan
<1>8. CASE Crash
  <2>1. at' \in Days /\ crashes' \in 0..MaxCrashes
    BY <1>8 DEF Crash, Days, TypeOK
  <2> QED  BY <1>8, <2>1 DEF Crash, TypeOK, tables, clan
<1>9. ASSUME NEW t \in Tags, Register(t) PROVE TypeOK'
  <2>1. [id |-> LastId + 1, tag |-> t, inClan |-> FALSE, seen |-> Never] \in Players
    BY <1>0, <1>9, LastIdProps DEF Register, Players, Ids
  <2>2. players' \subseteq Players
    BY <1>0, <1>9, <2>1 DEF Register
  <2> QED  BY <1>9, <2>2 DEF Register, TypeOK, clan, job
<1>10. CASE UNCHANGED vars
  BY <1>10 DEF vars, clan, tables, job, TypeOK
<1> QED
  BY <1>1, <1>2, <1>3, <1>4, <1>5, <1>6, <1>7, <1>8, <1>9, <1>10 DEF Next

-----------------------------------------------------------------------------
(* The inductive invariant.                                                 *)

(* A number without a row has no open membership, so a row that gets the    *)
(* number of a purged one starts without.                                   *)
FreeIds == \A i \in Ids : (\A p \in players : p.id # i) => opens[i] = 0

(* Whom neither the table nor the archive knows was never in the clan, and  *)
(* the archive holds nobody who is.                                         *)
Newcomers ==
  /\ archive \cap Active = {}
  /\ \A t \in Tags : t \notin Known \cup archive => left[t] = 0 /\ returns[t] = 0

(* A return still to be announced is not announced yet.                     *)
Waiting == \A t \in pending : inbox[t] < returns[t]

(* last_seen_in_clan_at is not older than any sighting, unless the row is   *)
(* a registered player's that no roster has shown.                          *)
SeenSince ==
  /\ at <= now
  /\ \A s \in sightings : s[2] <= now /\ (pc # "idle" => s[2] <= at)
  /\ \A p \in players, s \in sightings :
       s[1] = p.tag /\ p.seen # Never => s[2] <= p.seen

MemberInv ==
  /\ TypeOK /\ MembershipMatchesPlayer /\ FreeIds
  /\ EveryReturnRecorded /\ Newcomers
  /\ AnnouncedOnce /\ Waiting
  /\ SeenSince

\* With a row per player, a tag is known and active by its row.
LEMMA RowForProps ==
  ASSUME OneRow, NEW t \in Known
  PROVE  /\ RowFor(t) \in players /\ RowFor(t).tag = t
         /\ RowFor(t).inClan <=> t \in Active
<1>1. \E p \in players : p.tag = t
  BY DEF Known
<1>2. RowFor(t) \in players /\ RowFor(t).tag = t
  BY <1>1 DEF RowFor
<1> QED  BY <1>2 DEF OneRow, Active

\* Who returns: the archived, and the known who were not in the clan.
LEMMA ReturnedProps ==
  ASSUME OneRow
  PROVE  Returned = {t \in snap : t \in archive \cup (Known \ Active)}
BY RowForProps DEF Returned

\* It holds of the first roster.
LEMMA MemberInit == Init => MemberInv
<1> SUFFICES ASSUME Init PROVE MemberInv
  OBVIOUS
<1>1. TypeOK
  BY TypeInit
<1>2. Known = {} /\ Active = {}
  BY DEF Init, Known, Active
<1> QED
  BY <1>1, <1>2 DEF Init, MemberInv, MembershipMatchesPlayer, FreeIds, EveryReturnRecorded, Stays,
     Newcomers, AnnouncedOnce, Waiting, SeenSince

\* A committed roster keeps the invariant.
LEMMA PersistStep == ASSUME MemberInv, TypeOK', Persist PROVE MemberInv'
<1>0. TypeOK /\ OneRow
  BY DEF MemberInv, MembershipMatchesPlayer, OneRow
<1>1. /\ pc = "fetched" /\ UNCHANGED <<now, at, inbox>> /\ pc' = "announcing"
      /\ archive' = archive \ snap /\ pending' = Returned
      /\ sightings' = sightings \cup {<<t, at>> : t \in snap}
  BY DEF Persist
<1>t. /\ opens \in [Ids -> Nat] /\ left \in [Tags -> Nat] /\ returns \in [Tags -> Nat]
      /\ inbox \in [Tags -> Nat] /\ snap \subseteq Tags /\ at \in Int /\ now \in Int
      /\ \A p \in players : p.id \in Ids /\ p.tag \in Tags /\ p.inClan \in BOOLEAN
                            /\ p.seen \in Int
      /\ \A p \in players' : p.id \in Ids /\ p.tag \in Tags /\ p.inClan \in BOOLEAN
      /\ \A s \in sightings : s[1] \in Tags /\ s[2] \in Int
  BY <1>0 DEF TypeOK, Players, Days, Never
<1>2. MembershipMatchesPlayer' /\ FreeIds'
  <2>1. \A i \in Ids : opens'[i] = IF \E p \in players' : p.id = i /\ p.tag \in snap
                                   THEN IF opens[i] = 0 THEN 1 ELSE opens[i]
                                   ELSE IF \E p \in players : p.id = i /\ p.tag \in Gone
                                   THEN 0 ELSE opens[i]
    BY DEF Persist, Closed
  <2>2. /\ \A p \in players : opens[p.id] = IF p.inClan THEN 1 ELSE 0
        /\ \A i \in Ids : (\A p \in players : p.id # i) => opens[i] = 0
    BY DEF MemberInv, MembershipMatchesPlayer, FreeIds
  <2>3. ASSUME NEW q \in players', q.inClan PROVE opens'[q.id] = 1
    <3>1. q.tag \in snap
      BY <1>0, <2>3, PersistRows
    <3>2. opens[q.id] \in {0, 1}
      <4>1. CASE \E p \in players : p.id = q.id
        BY <2>2, <4>1
      <4>2. CASE \A p \in players : p.id # q.id
        BY <1>t, <2>2, <4>2
      <4> QED  BY <4>1, <4>2
    <3> QED  BY <1>t, <2>1, <3>1, <3>2
  <2>4. ASSUME NEW q \in players', ~q.inClan PROVE opens'[q.id] = 0
    <3>1. q.tag \notin snap /\ q.tag \in Known
      BY <1>0, <2>4, PersistRows
    <3>2. ~\E p \in players' : p.id = q.id /\ p.tag \in snap
      BY <1>0, <3>1, PersistRows DEF OneRow
    <3>3. PICK p \in players : p.id = q.id /\ p.tag = q.tag
      BY <1>0, <3>1, PersistRows
    <3>4. p.inClan => p.tag \in Gone
      BY <3>1, <3>3 DEF Gone, Active
    <3> QED  BY <1>t, <2>1, <2>2, <3>2, <3>3, <3>4
  <2>5. ASSUME NEW i \in Ids, \A q \in players' : q.id # i PROVE opens'[i] = 0
    <3>1. \A p \in players : p.id # i
      BY <1>0, <2>5, PersistRows
    <3> QED  BY <2>1, <2>2, <2>5, <3>1
  <2>6. OneRow'
    BY <1>0, PersistRows
  <2>7. \A q \in players' : opens'[q.id] = IF q.inClan THEN 1 ELSE 0
    BY <2>3, <2>4
  <2> QED  BY <2>5, <2>6, <2>7 DEF MembershipMatchesPlayer, FreeIds, OneRow
<1>3. /\ Known' = Known \cup snap /\ Active' = snap /\ Active \subseteq Known
      /\ Returned = {t \in snap : t \in archive \cup (Known \ Active)}
      /\ Gone = Active \ snap
      /\ \A t \in Tags : left'[t] = IF t \in Gone THEN left[t] + 1 ELSE left[t]
      /\ \A t \in Tags : returns'[t] = IF t \in Returned THEN returns[t] + 1 ELSE returns[t]
  <2>1. Known' = Known \cup snap /\ Active' = snap
    BY <1>0, PersistRows
  <2>2. Active \subseteq Known /\ Gone = Active \ snap
    BY DEF Known, Active, Gone
  <2>3. Returned = {t \in snap : t \in archive \cup (Known \ Active)}
    BY <1>0, ReturnedProps
  <2>4. \A t \in Tags : left'[t] = IF t \in Gone THEN left[t] + 1 ELSE left[t]
    BY DEF Persist
  <2>5. \A t \in Tags : returns'[t] = IF t \in Returned THEN returns[t] + 1 ELSE returns[t]
    BY DEF Persist
  <2> QED  BY <2>1, <2>2, <2>3, <2>4, <2>5
<1>4. archive \cap Active = {}
  BY DEF MemberInv, Newcomers
<1>5. \A t \in Tags : t \notin Known \cup archive => left[t] = 0 /\ returns[t] = 0
  BY DEF MemberInv, Newcomers
<1>6. Newcomers'
  BY <1>1, <1>3, <1>4, <1>5 DEF Newcomers
<1>7. EveryReturnRecorded'
  <2> SUFFICES ASSUME NEW t \in Tags
               PROVE  Stays(t)' - 1 <= returns'[t] /\ returns'[t] <= Stays(t)'
    BY DEF EveryReturnRecorded
  <2>1. /\ t \in Active => left[t] <= returns[t] /\ returns[t] <= left[t] + 1
        /\ t \notin Active => left[t] - 1 <= returns[t] /\ returns[t] <= left[t]
    <3>1. Stays(t) - 1 <= returns[t] /\ returns[t] <= Stays(t)
      BY DEF MemberInv, EveryReturnRecorded
    <3> QED  BY <1>t, <3>1 DEF Stays
  <2>2. Stays(t)' = left'[t] + (IF t \in snap THEN 1 ELSE 0)
    BY <1>3 DEF Stays
  <2>3. left[t] \in Nat /\ returns[t] \in Nat
    BY <1>t
  <2> QED  BY <1>3, <1>4, <1>5, <2>1, <2>2, <2>3
<1>8. AnnouncedOnce' /\ Waiting'
  <2>1. \A t \in Tags : inbox[t] <= returns[t] /\ inbox[t] \in Nat /\ returns[t] \in Nat
    BY <1>t DEF MemberInv, AnnouncedOnce
  <2>2. \A t \in Tags : inbox[t] <= returns'[t] /\ (t \in Returned => inbox[t] < returns'[t])
    BY <1>3, <2>1
  <2>3. Returned \subseteq Tags
    BY <1>t, <1>3
  <2> QED  BY <1>1, <2>2, <2>3 DEF AnnouncedOnce, Waiting
<1>9. SeenSince'
  <2>1. /\ at <= now /\ \A s \in sightings : s[2] <= now /\ s[2] <= at
        /\ \A p \in players, s \in sightings : s[1] = p.tag /\ p.seen # Never => s[2] <= p.seen
    BY <1>1 DEF MemberInv, SeenSince
  <2>2. \A s \in sightings' : s \in sightings \/ (s[1] \in snap /\ s[2] = at)
    BY <1>1
  <2>3. \A s \in sightings' : s[2] <= now /\ s[2] <= at
    BY <1>t, <2>1, <2>2
  <2>4. ASSUME NEW q \in players', NEW s \in sightings', s[1] = q.tag, q.seen # Never
        PROVE  s[2] <= q.seen
    <3>1. CASE q.tag \in snap
      <4>1. q.seen = at
        BY <1>0, <3>1, PersistRows
      <4> QED  BY <2>3, <4>1
    <3>2. CASE q.tag \notin snap
      <4>1. q.tag \in Known
        BY <1>0, <3>2, PersistRows
      <4>2. PICK p \in players : p.tag = q.tag /\ q.seen = p.seen
        BY <1>0, <3>2, <4>1, PersistRows
      <4>3. s \in sightings
        BY <2>2, <2>4, <3>2
      <4> QED  BY <2>1, <2>4, <4>2, <4>3
    <3> QED  BY <3>1, <3>2
  <2> QED  BY <1>1, <2>1, <2>3, <2>4 DEF SeenSince
<1> QED  BY <1>2, <1>6, <1>7, <1>8, <1>9 DEF MemberInv
\* The purge takes rows out of the table that have no open membership, and
\* leaves their trace in the archive.
LEMMA PurgeStep == ASSUME MemberInv, TypeOK', Purge PROVE MemberInv'
<1>0. TypeOK /\ OneRow
  BY DEF MemberInv, MembershipMatchesPlayer, OneRow
<1>1. /\ players' = players \ Purgeable /\ archive' = archive \cup {p.tag : p \in Purgeable}
      /\ pc' = "idle" /\ at' = 0
      /\ UNCHANGED <<opens, left, returns, pending, inbox, now, sightings>>
  BY DEF Purge, Archived
<1>2. Purgeable \subseteq players /\ \A p \in Purgeable : ~p.inClan
  BY DEF Purgeable
<1>3. /\ \A p \in players : opens[p.id] = IF p.inClan THEN 1 ELSE 0
      /\ \A i \in Ids : (\A p \in players : p.id # i) => opens[i] = 0
      /\ now \in Nat
  BY <1>0 DEF MemberInv, MembershipMatchesPlayer, FreeIds, TypeOK, Days
<1>4. MembershipMatchesPlayer'
  BY <1>1, <1>3 DEF MemberInv, MembershipMatchesPlayer
<1>5. FreeIds'
  <2> SUFFICES ASSUME NEW i \in Ids, \A p \in players' : p.id # i PROVE opens[i] = 0
    BY <1>1 DEF FreeIds
  <2>1. CASE \E p \in players : p.id = i
    BY <1>1, <1>2, <1>3, <2>1
  <2> QED  BY <1>3, <2>1
<1>6. Active' = Active
  BY <1>1, <1>2 DEF Active
<1>7. Newcomers'
  <2>1. ASSUME NEW t \in archive' PROVE t \notin Active
    <3>1. CASE t \in archive
      BY <3>1 DEF MemberInv, Newcomers
    <3>2. CASE \E p \in Purgeable : p.tag = t
      BY <1>0, <1>2, <3>2 DEF OneRow, Active
    <3> QED  BY <1>1, <2>1, <3>1, <3>2
  <2>2. ASSUME NEW t \in Tags, t \notin Known', t \notin archive' PROVE t \notin Known \cup archive
    BY <1>1, <2>2 DEF Known
  <2> QED  BY <1>1, <1>6, <2>1, <2>2 DEF MemberInv, Newcomers
<1>8. EveryReturnRecorded'
  BY <1>1, <1>6 DEF MemberInv, EveryReturnRecorded, Stays
<1>9. AnnouncedOnce' /\ Waiting'
  BY <1>1 DEF MemberInv, AnnouncedOnce, Waiting
<1>10. SeenSince'
  BY <1>1, <1>3 DEF MemberInv, SeenSince
<1> QED  BY <1>4, <1>5, <1>7, <1>8, <1>9, <1>10 DEF MemberInv

\* A registered player gets a number and a tag that no row has.
LEMMA RegisterStep ==
  ASSUME MemberInv, TypeOK', NEW t \in Tags, Register(t) PROVE MemberInv'
<1> DEFINE row == [id |-> LastId + 1, tag |-> t, inClan |-> FALSE, seen |-> Never]
<1>0. TypeOK /\ OneRow
  BY DEF MemberInv, MembershipMatchesPlayer, OneRow
<1>1. /\ players' = players \cup {row} /\ t \notin Known
      /\ UNCHANGED <<opens, left, returns, archive, pending, inbox, now, sightings, pc, at>>
  BY DEF Register, job
<1>2. /\ row.id = LastId + 1 /\ row.tag = t /\ row.inClan = FALSE /\ row.seen = Never
  OBVIOUS
<1> HIDE DEF row
<1>3. row.id \in Ids /\ \A p \in players : p.id # row.id /\ p.tag # t
  <2>1. /\ LastId \in 0..MaxId /\ LastId < MaxId /\ \A p \in players : p.id <= LastId /\ p.id \in Nat
    BY <1>0, LastIdProps DEF TypeOK, Register, Players, Ids
  <2>2. \A p \in players : p.tag # t
    BY <1>1 DEF Known
  <2> QED  BY <1>2, <2>1, <2>2, ClanMembershipAssumption DEF Ids
<1>4. /\ \A p \in players : opens[p.id] = IF p.inClan THEN 1 ELSE 0
      /\ \A i \in Ids : (\A p \in players : p.id # i) => opens[i] = 0
  BY DEF MemberInv, MembershipMatchesPlayer, FreeIds
<1>5. MembershipMatchesPlayer'
  <2>1. OneRow'
    BY <1>0, <1>1, <1>2, <1>3 DEF OneRow
  <2>2. \A p \in players' : opens'[p.id] = IF p.inClan THEN 1 ELSE 0
    BY <1>1, <1>2, <1>3, <1>4
  <2> QED  BY <2>1, <2>2 DEF MembershipMatchesPlayer, OneRow
<1>6. FreeIds'
  BY <1>1, <1>4 DEF FreeIds
<1>7. Active' = Active /\ Known' = Known \cup {t}
  BY <1>1, <1>2 DEF Active, Known
<1>8. Newcomers' /\ EveryReturnRecorded'
  BY <1>1, <1>7 DEF MemberInv, Newcomers, EveryReturnRecorded, Stays
<1>9. AnnouncedOnce' /\ Waiting'
  BY <1>1 DEF MemberInv, AnnouncedOnce, Waiting
<1>10. SeenSince'
  BY <1>1, <1>2 DEF MemberInv, SeenSince
<1> QED  BY <1>5, <1>6, <1>8, <1>9, <1>10 DEF MemberInv

\* A message to the administrators is one of a return not announced so far.
LEMMA AnnounceStep ==
  ASSUME MemberInv, TypeOK', NEW t \in Tags, Announce(t) PROVE MemberInv'
<1>1. /\ UNCHANGED <<players, opens, left, returns, archive, now, at, pc, sightings>>
      /\ t \in pending /\ pending' = pending \ {t}
      /\ inbox' = inbox \/ inbox' = [inbox EXCEPT ![t] = @ + 1]
      /\ inbox \in [Tags -> Nat] /\ returns \in [Tags -> Nat] /\ pending \subseteq Tags
  BY DEF MemberInv, TypeOK, Announce, Announced, tables
<1>2. AnnouncedOnce' /\ Waiting'
  <2>1. inbox[t] + 1 <= returns[t]
    BY <1>1 DEF MemberInv, Waiting
  <2>2. \A u \in Tags : inbox'[u] <= returns[u] /\ (u # t => inbox'[u] = inbox[u])
    BY <1>1, <2>1 DEF MemberInv, AnnouncedOnce
  <2> QED  BY <1>1, <2>2 DEF MemberInv, AnnouncedOnce, Waiting
<1>3. Known' = Known /\ Active' = Active
  BY <1>1 DEF Known, Active
<1> QED
  BY <1>1, <1>2, <1>3 DEF MemberInv, MembershipMatchesPlayer, FreeIds, EveryReturnRecorded, Stays,
     Newcomers, SeenSince

\* Every step of the job, of registrations and of the game keeps it ...
LEMMA MemberStep == MemberInv /\ [Next]_vars => MemberInv'
<1> SUFFICES ASSUME MemberInv, [Next]_vars PROVE MemberInv'
  OBVIOUS
<1>0. TypeOK /\ TypeOK'
  <2>1. TypeOK /\ OneRow
    BY DEF MemberInv, MembershipMatchesPlayer, OneRow
  <2> QED  BY <2>1, TypeStep
<1>1. CASE UNCHANGED <<tables, at, now, pc, pending, inbox, sightings>>
  <2>1. Known' = Known /\ Active' = Active
    BY <1>1 DEF Known, Active, tables
  <2> QED
    BY <1>0, <1>1, <2>1 DEF tables, MemberInv, MembershipMatchesPlayer, FreeIds, EveryReturnRecorded,
       Stays, Newcomers, AnnouncedOnce, Waiting, SeenSince
<1>2. CASE NextDay \/ Fetch \/ Snapshots \/ Crash
  <2>1. /\ UNCHANGED <<tables, inbox, sightings>> /\ pending' \subseteq pending
        /\ at' <= now' /\ now <= now' /\ now \in Nat /\ now' \in Nat
        /\ pc' # "idle" => (at' = at /\ pc # "idle") \/ at' = now
    BY <1>0, <1>2 DEF NextDay, Fetch, Snapshots, Crash, job, TypeOK, MemberInv, SeenSince, Days
  <2>2. Known' = Known /\ Active' = Active
    BY <2>1 DEF Known, Active, tables
  <2>3. SeenSince'
    <3>1. \A s \in sightings : s[2] \in Int
      BY <1>0 DEF TypeOK, Days
    <3> QED  BY <2>1, <3>1 DEF MemberInv, SeenSince, tables
  <2> QED
    BY <1>0, <2>1, <2>2, <2>3 DEF tables, MemberInv, MembershipMatchesPlayer, FreeIds,
       EveryReturnRecorded, Stays, Newcomers, AnnouncedOnce, Waiting
<1>3. CASE \E t \in Tags : Move(t)
  BY <1>1, <1>3 DEF Move, job
<1>4. CASE UNCHANGED vars
  BY <1>1, <1>4 DEF vars, job
<1> QED
  BY <1>0, <1>2, <1>3, <1>4, PersistStep, PurgeStep, RegisterStep, AnnounceStep DEF Next

\* ... so it always holds.
LEMMA MemberAlways == Spec => []MemberInv
BY MemberInit, MemberStep, PTL DEF Spec

-----------------------------------------------------------------------------
(* Theorems.                                                                *)

\* The tables, the calendar and the job always have the shape of the code.
THEOREM TypeCorrect == Spec => []TypeOK
<1>1. MemberInv => TypeOK
  BY DEF MemberInv
<1> QED  BY <1>1, MemberAlways, PTL

\* A player in the clan always has exactly one open membership and any other
\* none, also when SQLite gives the row number of a purged player again.
THEOREM OneOpenMembership == Spec => []MembershipMatchesPlayer
<1>1. MemberInv => MembershipMatchesPlayer
  BY DEF MemberInv
<1> QED  BY <1>1, MemberAlways, PTL

\* Every return has its event and nobody has more events than stays, through
\* any sequence of departures, purges, registrations and failed runs.
THEOREM ReturnsRecorded == Spec => []EveryReturnRecorded
<1>1. MemberInv => EveryReturnRecorded
  BY DEF MemberInv
<1> QED  BY <1>1, MemberAlways, PTL

\* The administrators are never told of a return more often than it happened.
THEOREM ReturnsAnnouncedOnce == Spec => []AnnouncedOnce
<1>1. MemberInv => AnnouncedOnce
  BY DEF MemberInv
<1> QED  BY <1>1, MemberAlways, PTL

\* The past boundaries are finitely many days.
LEMMA PastProps ==
  /\ Past \in SUBSET Nat /\ LastDay \in Nat /\ \A b \in Past : b <= LastDay
  /\ IsFiniteSet(Past) /\ Cardinality(Past) \in Nat
<1>1. LastDay \in Nat /\ Boundaries \subseteq 0..LastDay
  BY ClanMembershipAssumption
<1>2. \A b \in Past : b \in 0..LastDay
  BY <1>1 DEF Past
<1>3. Past \in SUBSET Nat /\ \A b \in Past : b <= LastDay
  BY <1>1, <1>2
<1>4. IsFiniteSet(Past)
  BY <1>1, <1>3, FS_BoundedSetOfNaturals
<1> QED  BY <1>1, <1>3, <1>4, FS_CardinalityType

\* With two boundaries in the past, one of them is the last but one.
LEMMA PreviousStartProps ==
  ASSUME TypeOK, Cardinality(Past) >= 2
  PROVE  PreviousStart \in Past /\ PreviousStart \in Int
<1>1. Past \in SUBSET Nat /\ LastDay \in Nat /\ \A b \in Past : b <= LastDay
  BY PastProps
<1>2. IsFiniteSet(Past) /\ Cardinality(Past) \in Nat
  BY PastProps
<1>3. Past # {}
  BY FS_EmptySet
<1>4. PICK m \in Past : \A b \in Past : b <= m
  <2> HIDE DEF Past
  <2> QED  BY <1>1, <1>3, GreatestNatural
<1>5. Past \ {m} # {}
  <2>1. Cardinality(Past \ {m}) = Cardinality(Past) - 1
    BY <1>2, FS_RemoveElement
  <2> QED  BY <1>2, <2>1, FS_EmptySet
<1>6. PICK b \in Past \ {m} : \A c \in Past \ {m} : c <= b
  <2>1. Past \ {m} \in SUBSET Nat /\ \A c \in Past \ {m} : c <= LastDay
    BY <1>1
  <2> QED  BY <1>1, <1>5, <2>1, GreatestNatural
<1>7. {c \in Past : c > b} = {m}
  <2>1. \A c \in Past : c \in Nat /\ c <= m /\ (c # m => c <= b) /\ b # m
    BY <1>1, <1>4, <1>6
  <2> QED  BY <2>1, <1>6
<1>8. Cardinality({c \in Past : c > b}) = 1
  BY <1>7, FS_Singleton
<1>9. PreviousStart \in Past
  BY <1>6, <1>8 DEF PreviousStart
<1> QED  BY <1>1, <1>9

\* The purge takes a player only if no roster of the last completed cycle, or
\* since, had him in the clan: last_seen_in_clan_at never lags behind what the
\* committed rosters showed.
THEOREM PurgedAfterwards == Spec => PurgedAfterFullCycle
<1> DEFINE A == \A p \in players :
                  p.tag \notin {q.tag : q \in players'} =>
                    \A s \in sightings : s[1] = p.tag => s[2] < PreviousStart
<1>1. MemberInv /\ [Next]_vars => A
  <2> SUFFICES ASSUME MemberInv, [Next]_vars, NEW p \in players,
                      p.tag \notin {q.tag : q \in players'},
                      NEW s \in sightings, s[1] = p.tag
               PROVE  s[2] < PreviousStart
    OBVIOUS
  <2>0. /\ TypeOK /\ OneRow /\ p.seen \in Int /\ s[2] \in Int
        /\ p.seen # Never => s[2] <= p.seen
    BY DEF MemberInv, MembershipMatchesPlayer, OneRow, TypeOK, Players, Days, Never, SeenSince
  <2>1. CASE Purge
    <3>1. p \in Purgeable
      BY <2>1 DEF Purge
    <3>2. Cardinality(Past) >= 2 /\ p.seen # Never /\ p.seen < PreviousStart
      BY <3>1, PastProps DEF Purgeable
    <3> QED  BY <2>0, <3>2, PreviousStartProps
  <2>2. CASE Persist
    BY <2>0, <2>2, PersistRows
  <2>3. CASE \E t \in Tags : Register(t)
    BY <2>3 DEF Register
  <2> QED
    BY <2>1, <2>2, <2>3 DEF Next, Move, NextDay, Fetch, Announce, Snapshots, Crash, vars, tables
<1> QED  BY <1>1, MemberAlways, PTL DEF Spec, PurgedAfterFullCycle
=============================================================================
