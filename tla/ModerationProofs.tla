------------------------- MODULE ModerationProofs -------------------------
(***************************************************************************)
(* Theorems about Moderation, for any authors, messages, administrators,   *)
(* lengths of mutes and faults.                                            *)
(***************************************************************************)
EXTENDS Moderation, FiniteSetTheorems, TLAPS

Stages == {"unsent", "queued", "judging", "restricting", "recording", "saving", "over"}
Handlers ==
  {Idle} \cup [pc : {"restoring", "removing"}, id : Nat, user : Users]
         \cup [pc : {"changing", "applying"}, change : Changes, seen : Settings]

\* A table of mutes: numbered rows, one of each author at most, and a number
\* that none exceeds.
Table(f) ==
  /\ f = [i \in DOMAIN f |-> f[i]]
  /\ \A i \in DOMAIN f : i \in Nat \ {0} /\ f[i] \in [user : Users, left : Nat]
  /\ \A i, j \in DOMAIN f : f[i].user = f[j].user => i = j
  /\ \E n \in Nat : \A i \in DOMAIN f : i <= n

Typed ==
  /\ work \in [Messages -> [stage : Stages, left : Nat, row : Nat]]
  /\ runtime \in Settings /\ stored \in Settings
  /\ Table(mutes)
  /\ restricted \in [Users -> Nat]
  /\ panel \in [Admins -> Handlers]
  /\ trace \in [Users \cup {"settings"} -> {"agree", "mixed", "differ"}]

-----------------------------------------------------------------------------
(* The inductive invariant.  Of an author whose operations are not mixed    *)
(* up, at most one is under way, and it has done what its stage says.       *)

MutesNow(m, u) == Muting(m) /\ Author[m] = u
LiftsNow(a, u) == Lifting(a) /\ panel[a].user = u

Alone(u) ==
  /\ \A m, n \in Messages : MutesNow(m, u) /\ MutesNow(n, u) => m = n
  /\ \A a, b \in Admins : LiftsNow(a, u) /\ LiftsNow(b, u) => a = b
  /\ \A m \in Messages, a \in Admins : ~(MutesNow(m, u) /\ LiftsNow(a, u))

\* Restricted, or freed, and not yet recorded.
Halfway(m) == work[m].stage \in {"recording", "saving"}

MuteStands(u) ==
  \A m \in Messages : (Halfway(m) /\ Author[m] = u) => restricted[u] = work[m].left

LiftStands(u) ==
  \A a \in Admins : LiftsNow(a, u) =>
    /\ panel[a].pc = "removing" => restricted[u] = 0
    /\ panel[a].id # NoRow => MuteOf(u) \subseteq {panel[a].id}

Untouched(u) ==
  (/\ \A m \in Messages : ~(Halfway(m) /\ Author[m] = u)
   /\ \A a \in Admins : ~(LiftsNow(a, u) /\ panel[a].pc = "removing"))
    => restricted[u] = Listed(u)

UserOK(u) ==
  trace[u] # "mixed" =>
    /\ Alone(u) /\ MuteStands(u) /\ LiftStands(u)
    /\ trace[u] = "agree" => Untouched(u)

\* The same of the settings: a change that is alone has read what is stored,
\* and has stored what it will use.
SettingsOK ==
  trace["settings"] # "mixed" =>
    /\ \A a, b \in Admins : Changing(a) /\ Changing(b) => a = b
    /\ \A a \in Admins :
         /\ panel[a].pc = "changing" => panel[a].seen = stored
         /\ panel[a].pc = "applying" => stored = Changed(panel[a].seen, panel[a].change)
    /\ (trace["settings"] = "agree" /\ \A a \in Admins : panel[a].pc # "applying")
         => runtime = stored

\* What waits for the worker waits once.
Waiting ==
  /\ queue \in Seq(Messages)
  /\ \A i \in 1..Len(queue) : work[queue[i]].stage = "queued"
  /\ \A i, j \in 1..Len(queue) : queue[i] = queue[j] => i = j

ModerationInv == Typed /\ Waiting /\ (\A u \in Users : UserOK(u)) /\ SettingsOK

-----------------------------------------------------------------------------
(* Operations under way.                                                    *)

\* A finite set with one element at most, and one without any.
LEMMA FewElements ==
  ASSUME NEW S, IsFiniteSet(S)
  PROVE  /\ Cardinality(S) \in Nat
         /\ Cardinality(S) = 0 <=> S = {}
         /\ Cardinality(S) <= 1 => \A x, y \in S : x = y
<1>1. Cardinality(S) \in Nat
  BY FS_CardinalityType
<1>2. Cardinality(S) = 0 <=> S = {}
  BY FS_EmptySet
<1>3. Cardinality(S) = 1 <=> \E x : S = {x}
  BY FS_Singleton
<1>4. ASSUME Cardinality(S) <= 1 PROVE \A x, y \in S : x = y
  <2>1. Cardinality(S) = 0 \/ Cardinality(S) = 1
    BY <1>1, <1>4
  <2> QED  BY <1>2, <1>3, <2>1
<1> QED  BY <1>1, <1>2, <1>4

\* When no more than one operation on an author is under way it is alone;
\* when none is, there is none.
LEMMA OperationsOn ==
  ASSUME NEW u \in Users
  PROVE  /\ Operations(u) \in Nat
         /\ Operations(u) <= 1 => Alone(u)
         /\ ~(Operations(u) > 0) =>
              /\ \A m \in Messages : ~MutesNow(m, u)
              /\ \A a \in Admins : ~LiftsNow(a, u)
<1> DEFINE M == {m \in Messages : Muting(m) /\ Author[m] = u}
           L == {a \in Admins : Lifting(a) /\ panel[a].user = u}
<1>1. IsFiniteSet(M) /\ IsFiniteSet(L)
  BY ModerationAssumption, FS_Subset
<1>2. Operations(u) = Cardinality(M) + Cardinality(L)
  BY ModerationAssumption DEF Operations
<1>3. /\ \A m \in Messages : MutesNow(m, u) <=> m \in M
      /\ \A a \in Admins : LiftsNow(a, u) <=> a \in L
  BY DEF MutesNow, LiftsNow
<1> HIDE DEF M, L
<1>4. /\ Cardinality(M) \in Nat
      /\ Cardinality(M) = 0 <=> M = {}
      /\ Cardinality(M) <= 1 => \A x, y \in M : x = y
  BY <1>1, FewElements
<1>5. /\ Cardinality(L) \in Nat
      /\ Cardinality(L) = 0 <=> L = {}
      /\ Cardinality(L) <= 1 => \A x, y \in L : x = y
  BY <1>1, FewElements
<1>6. Operations(u) \in Nat
  BY <1>2, <1>4, <1>5
<1>7. ASSUME Operations(u) <= 1 PROVE Alone(u)
  <2>1. /\ Cardinality(M) <= 1 /\ Cardinality(L) <= 1
        /\ Cardinality(M) = 0 \/ Cardinality(L) = 0
    BY <1>2, <1>4, <1>5, <1>7
  <2> QED  BY <1>3, <1>4, <1>5, <2>1 DEF Alone
<1>8. ASSUME ~(Operations(u) > 0)
      PROVE  /\ \A m \in Messages : ~MutesNow(m, u)
             /\ \A a \in Admins : ~LiftsNow(a, u)
  <2>1. Cardinality(M) = 0 /\ Cardinality(L) = 0
    BY <1>2, <1>4, <1>5, <1>8
  <2> QED  BY <1>3, <1>4, <1>5, <2>1
<1> QED  BY <1>6, <1>7, <1>8

\* The same of changes of the settings.
LEMMA OperationsOnSettings ==
  /\ Operations("settings") \in Nat
  /\ Operations("settings") <= 1 =>
       \A a, b \in Admins : Changing(a) /\ Changing(b) => a = b
  /\ ~(Operations("settings") > 0) => \A a \in Admins : ~Changing(a)
<1> DEFINE C == {a \in Admins : Changing(a)}
<1>1. IsFiniteSet(C)
  BY ModerationAssumption, FS_Subset
<1>2. Operations("settings") = Cardinality(C)
  BY DEF Operations
<1>3. \A a \in Admins : Changing(a) <=> a \in C
  OBVIOUS
<1> HIDE DEF C
<1>4. /\ Cardinality(C) \in Nat
      /\ Cardinality(C) = 0 <=> C = {}
      /\ Cardinality(C) <= 1 => \A x, y \in C : x = y
  BY <1>1, FewElements
<1> QED  BY <1>2, <1>3, <1>4

Traces == [Users \cup {"settings"} -> {"agree", "mixed", "differ"}]

\* Each author and the settings are marked apart from the others: when an
\* operation begins, ...
LEMMA MarkedBegun ==
  ASSUME NEW t \in Traces, NEW x \in Users \cup {"settings"}
  PROVE  /\ Begun(t, x) \in Traces
         /\ \A y \in Users \cup {"settings"} : y # x => Begun(t, x)[y] = t[y]
         /\ Begun(t, x)[x] # "mixed" => Begun(t, x)[x] = t[x] /\ ~(Operations(x) > 0)
<1>1. t[x] \in {"agree", "mixed", "differ"}
  BY DEF Traces
<1> QED  BY <1>1 DEF Begun, Traces

\* ... and when one ends.
Outcomes == {"done", "half", "nothing"}
AsEnded(t, x, outcome) ==
  LET after == Ended(t, x, outcome)
  IN  /\ after \in Traces
      /\ \A y \in Users \cup {"settings"} : y # x => after[y] = t[y]
      /\ after[x] # "mixed" => ~(Operations(x) > 1)
      /\ after[x] = "agree" =>
           /\ t[x] # "mixed" /\ outcome # "half"
           /\ outcome = "nothing" => t[x] = "agree"

\* What comes of an operation that ends.
LEMMA MarkedEnded ==
  ASSUME NEW t \in Traces, NEW x \in Users \cup {"settings"}, NEW outcome \in Outcomes
  PROVE  AsEnded(t, x, outcome)
<1>1. t[x] \in {"agree", "mixed", "differ"}
  BY DEF Traces
<1> QED  BY <1>1 DEF AsEnded, Ended, Traces, Outcomes

-----------------------------------------------------------------------------
(* The table of mutes.                                                      *)

\* A set of numbers that is not empty has a least one.
LEMMA LeastOf ==
  ASSUME NEW T \in SUBSET Nat, T # {}
  PROVE  \E x \in T : \A y \in T : x <= y
<1> DEFINE R == OpToRel(<, Nat)
<1>1. \A x, y \in Nat : y < x => <<y, x>> \in R
  BY DEF OpToRel
<1>2. IsWellFoundedOn(R, Nat)
  BY NatLessThanWellFounded
<1> HIDE DEF R
<1>3. PICK x \in T : \A y \in T : <<y, x>> \notin R
  BY <1>2, WFMin
<1>4. ASSUME NEW y \in T PROVE x <= y
  <2>1. ~(y < x)
    BY <1>1, <1>3
  <2> QED  BY <2>1
<1> QED  BY <1>4

\* The next number is no row's.
LEMMA NextIdIsFree ==
  ASSUME Table(mutes)
  PROVE  NextId \in Nat \ {0} /\ \A i \in DOMAIN mutes : i < NextId
<1> DEFINE used == DOMAIN mutes \cup {NoRow}
<1>1. PICK n \in Nat : \A i \in DOMAIN mutes : i <= n
  BY DEF Table
<1> DEFINE room == {n - i : i \in used}
<1>2. \A i \in used : i \in Nat /\ n - i \in Nat
  BY <1>1 DEF Table, NoRow
<1>3. room \in SUBSET Nat /\ room # {}
  BY <1>2
<1>4. PICK r \in room : \A x \in room : r <= x
  <2> HIDE DEF room
  <2> QED  BY <1>3, LeastOf
<1>5. PICK i \in used : r = n - i
  OBVIOUS
<1>6. ASSUME NEW j \in used PROVE i >= j
  <2>1. n - j \in room
    OBVIOUS
  <2>2. r <= n - j
    BY <1>4, <2>1
  <2> HIDE DEF room
  <2> QED  BY <1>2, <1>5, <2>2
<1> HIDE DEF room
<1>7. Max(used) \in used /\ \A j \in used : Max(used) >= j
  BY <1>6 DEF Max
<1>8. Max(used) \in Nat /\ \A j \in DOMAIN mutes : j \in Nat /\ Max(used) >= j
  BY <1>2, <1>7
<1> QED  BY <1>8 DEF NextId

\* What is listed of an author is his one row, if there is one.
LEMMA ListedRow ==
  ASSUME Table(mutes), NEW u \in Users
  PROVE  /\ MuteOf(u) = {} => Listed(u) = 0
         /\ \A id \in MuteOf(u) : MuteOf(u) = {id} /\ Listed(u) = mutes[id].left
<1>1. ASSUME MuteOf(u) = {} PROVE Listed(u) = 0
  BY <1>1 DEF Listed
<1>2. ASSUME NEW id \in MuteOf(u) PROVE MuteOf(u) = {id} /\ Listed(u) = mutes[id].left
  <2>1. \A j \in MuteOf(u) : j = id
    BY DEF MuteOf, Table
  <2>2. MuteOf(u) = {id} /\ (CHOOSE j \in MuteOf(u) : TRUE) = id
    BY <2>1
  <2> QED  BY <2>2 DEF Listed
<1> QED  BY <1>1, <1>2

\* And so it is after a step.
LEMMA ListedRowNext ==
  ASSUME Table(mutes)', NEW u \in Users
  PROVE  /\ MuteOf(u)' = {} => Listed(u)' = 0
         /\ \A id \in MuteOf(u)' : MuteOf(u)' = {id} /\ Listed(u)' = mutes'[id].left
<1>1. ASSUME MuteOf(u)' = {} PROVE Listed(u)' = 0
  BY <1>1 DEF Listed
<1>2. ASSUME NEW id \in MuteOf(u)' PROVE MuteOf(u)' = {id} /\ Listed(u)' = mutes'[id].left
  <2>1. \A j \in MuteOf(u)' : j = id
    BY DEF MuteOf, Table
  <2>2. MuteOf(u)' = {id} /\ (CHOOSE j \in MuteOf(u)' : TRUE) = id
    BY <2>1
  <2> QED  BY <2>2 DEF Listed
<1> QED  BY <1>1, <1>2

\* A row written for an author who has none, or again for the one who has it.
LEMMA WrittenTable ==
  ASSUME Table(mutes), NEW id \in Nat \ {0}, NEW u \in Users, NEW left \in Nat,
         MuteOf(u) \subseteq {id}, id \in DOMAIN mutes => mutes[id].user = u,
         mutes' = With(id, u, left)
  PROVE  /\ Table(mutes)'
         /\ MuteOf(u)' = {id} /\ Listed(u)' = left
         /\ \A v \in Users \ {u} : MuteOf(v)' = MuteOf(v) /\ Listed(v)' = Listed(v)
<1>1. /\ DOMAIN mutes' = DOMAIN mutes \cup {id}
      /\ mutes'[id] = [user |-> u, left |-> left]
      /\ \A i \in DOMAIN mutes : i # id => mutes'[i] = mutes[i]
  BY DEF With
<1>2. Table(mutes)'
  <2>1. mutes' = [i \in DOMAIN mutes' |-> mutes'[i]]
    BY DEF With
  <2>2. \A i \in DOMAIN mutes' : i \in Nat \ {0} /\ mutes'[i] \in [user : Users, left : Nat]
    BY <1>1 DEF Table
  <2>3. \A i \in DOMAIN mutes : mutes[i].user = u => i = id
    BY DEF MuteOf
  <2>4. \A i, j \in DOMAIN mutes' : mutes'[i].user = mutes'[j].user => i = j
    BY <1>1, <2>3 DEF Table
  <2>5. \E n \in Nat : \A i \in DOMAIN mutes' : i <= n
    <3>1. PICK n \in Nat : \A i \in DOMAIN mutes : i <= n
      BY DEF Table
    <3>2. \A i \in DOMAIN mutes' : i <= n + id
      BY <1>1, <3>1 DEF Table
    <3> QED  BY <3>1, <3>2
  <2> QED  BY <2>1, <2>2, <2>4, <2>5 DEF Table
<1>3. id \in MuteOf(u)' /\ mutes'[id].left = left
  BY <1>1 DEF MuteOf
<1>4. MuteOf(u)' = {id} /\ Listed(u)' = left
  BY <1>2, <1>3, ListedRowNext
<1>5. ASSUME NEW v \in Users \ {u} PROVE MuteOf(v)' = MuteOf(v) /\ Listed(v)' = Listed(v)
  <2>1. MuteOf(v)' = MuteOf(v) /\ id \notin MuteOf(v)
    BY <1>1 DEF MuteOf
  <2>2. CASE MuteOf(v) = {}
    BY <1>2, <2>1, <2>2, ListedRow, ListedRowNext
  <2>3. CASE MuteOf(v) # {}
    <3>1. PICK i \in MuteOf(v) : TRUE
      BY <2>3
    <3>2. Listed(v) = mutes[i].left /\ Listed(v)' = mutes'[i].left
      BY <1>2, <2>1, <3>1, ListedRow, ListedRowNext
    <3> QED  BY <1>1, <2>1, <3>1, <3>2 DEF MuteOf
  <2> QED  BY <2>1, <2>2, <2>3
<1> QED  BY <1>2, <1>4, <1>5

\* Rows removed.
LEMMA RemovedTable ==
  ASSUME Table(mutes), NEW ids, mutes' = Without(ids)
  PROVE  /\ Table(mutes)'
         /\ \A v \in Users : MuteOf(v)' = MuteOf(v) \ ids
         /\ \A v \in Users : MuteOf(v) \cap ids = {} => Listed(v)' = Listed(v)
         /\ \A v \in Users : MuteOf(v) \subseteq ids => Listed(v)' = 0
<1>1. /\ DOMAIN mutes' = DOMAIN mutes \ ids
      /\ \A i \in DOMAIN mutes' : mutes'[i] = mutes[i]
  BY DEF Without
<1>2. Table(mutes)'
  <2>1. mutes' = [i \in DOMAIN mutes' |-> mutes'[i]]
    BY DEF Without
  <2>2. /\ \A i \in DOMAIN mutes' : i \in Nat \ {0} /\ mutes'[i] \in [user : Users, left : Nat]
        /\ \A i, j \in DOMAIN mutes' : mutes'[i].user = mutes'[j].user => i = j
    BY <1>1 DEF Table
  <2>3. \E n \in Nat : \A i \in DOMAIN mutes' : i <= n
    BY <1>1 DEF Table
  <2> QED  BY <2>1, <2>2, <2>3 DEF Table
<1>3. ASSUME NEW v \in Users PROVE MuteOf(v)' = MuteOf(v) \ ids
  BY <1>1 DEF MuteOf
<1>4. ASSUME NEW v \in Users, MuteOf(v) \subseteq ids PROVE Listed(v)' = 0
  BY <1>2, <1>3, <1>4, ListedRowNext
<1>5. ASSUME NEW v \in Users, MuteOf(v) \cap ids = {} PROVE Listed(v)' = Listed(v)
  <2>1. MuteOf(v)' = MuteOf(v)
    BY <1>3, <1>5
  <2>2. CASE MuteOf(v) = {}
    BY <1>2, <2>1, <2>2, ListedRow, ListedRowNext
  <2>3. CASE MuteOf(v) # {}
    <3>1. PICK i \in MuteOf(v) : TRUE
      BY <2>3
    <3>2. Listed(v) = mutes[i].left /\ Listed(v)' = mutes'[i].left
      BY <1>2, <2>1, <3>1, ListedRow, ListedRowNext
    <3> QED  BY <1>1, <2>1, <3>1, <3>2 DEF MuteOf
  <2> QED  BY <2>2, <2>3
<1> QED  BY <1>2, <1>3, <1>4, <1>5

-----------------------------------------------------------------------------
(* What a step leaves alone.                                                *)

\* A step keeps what it says of an author whose operations, restriction and
\* row it does not touch.
LEMMA AuthorApart ==
  ASSUME NEW u \in Users, UserOK(u),
         \A m \in Messages : Author[m] = u =>
           /\ Muting(m)' <=> Muting(m)
           /\ Halfway(m)' <=> Halfway(m)
           /\ Halfway(m) => work'[m].left = work[m].left,
         \A a \in Admins :
           /\ LiftsNow(a, u)' <=> LiftsNow(a, u)
           /\ LiftsNow(a, u) => panel'[a] = panel[a],
         restricted'[u] = restricted[u], MuteOf(u)' \subseteq MuteOf(u),
         trace'[u] # "mixed" => trace[u] # "mixed",
         trace'[u] = "agree" => trace[u] = "agree" /\ Listed(u)' = Listed(u)
  PROVE  UserOK(u)'
<1> SUFFICES ASSUME trace'[u] # "mixed"
             PROVE  /\ Alone(u)' /\ MuteStands(u)' /\ LiftStands(u)'
                    /\ trace'[u] = "agree" => Untouched(u)'
  BY DEF UserOK
<1>1. /\ Alone(u) /\ MuteStands(u) /\ LiftStands(u)
      /\ trace'[u] = "agree" => Untouched(u)
  BY DEF UserOK
<1>2. \A m \in Messages : MutesNow(m, u)' <=> MutesNow(m, u)
  BY DEF MutesNow
<1>3. Alone(u)'
  BY <1>1, <1>2 DEF Alone
<1>4. MuteStands(u)'
  BY <1>1 DEF MuteStands
<1>5. LiftStands(u)'
  BY <1>1 DEF LiftStands
<1>6. ASSUME trace'[u] = "agree" PROVE Untouched(u)'
  BY <1>1, <1>6 DEF Untouched
<1> QED  BY <1>3, <1>4, <1>5, <1>6

\* The same of the settings.
LEMMA SettingsApart ==
  ASSUME SettingsOK, UNCHANGED <<stored, runtime>>, trace'["settings"] = trace["settings"],
         \A a \in Admins :
           /\ Changing(a)' <=> Changing(a)
           /\ Changing(a) => panel'[a] = panel[a]
  PROVE  SettingsOK'
<1> SUFFICES ASSUME trace'["settings"] # "mixed"
             PROVE  /\ \A a, b \in Admins : Changing(a)' /\ Changing(b)' => a = b
                    /\ \A a \in Admins :
                         /\ panel'[a].pc = "changing" => panel'[a].seen = stored
                         /\ panel'[a].pc = "applying" => stored = Changed(panel'[a].seen, panel'[a].change)
                    /\ (trace'["settings"] = "agree" /\ \A a \in Admins : panel'[a].pc # "applying")
                         => runtime = stored
  BY DEF SettingsOK, Changed
<1>1. \A a \in Admins : panel'[a].pc \in {"changing", "applying"} =>
        panel'[a] = panel[a]
  BY DEF Changing
<1>2. \A a \in Admins : panel[a].pc = "applying" => panel'[a] = panel[a]
  BY DEF Changing
<1>3. \A a, b \in Admins : Changing(a)' /\ Changing(b)' => a = b
  BY DEF SettingsOK
<1>4. ASSUME NEW a \in Admins
      PROVE  /\ panel'[a].pc = "changing" => panel'[a].seen = stored
             /\ panel'[a].pc = "applying" => stored = Changed(panel'[a].seen, panel'[a].change)
  BY <1>1 DEF SettingsOK
<1>5. ASSUME trace'["settings"] = "agree", \A a \in Admins : panel'[a].pc # "applying"
      PROVE  runtime = stored
  BY <1>2, <1>5 DEF SettingsOK
<1> QED  BY <1>3, <1>4, <1>5

\* An author on whom no operation is left, and who is listed as he is
\* restricted if his places agree.
LEMMA NoneLeft ==
  ASSUME NEW u \in Users,
         trace'[u] # "mixed" =>
           /\ \A m \in Messages : ~MutesNow(m, u)'
           /\ \A a \in Admins : ~LiftsNow(a, u)',
         trace'[u] = "agree" => restricted'[u] = Listed(u)'
  PROVE  UserOK(u)'
<1> SUFFICES ASSUME trace'[u] # "mixed"
             PROVE  /\ Alone(u)' /\ MuteStands(u)' /\ LiftStands(u)'
                    /\ trace'[u] = "agree" => Untouched(u)'
  BY DEF UserOK
<1>1. \A m \in Messages : ~(Halfway(m)' /\ Author[m] = u)
  BY DEF MutesNow, Muting, Halfway
<1>2. Alone(u)'
  BY DEF Alone
<1>3. MuteStands(u)'
  BY <1>1 DEF MuteStands
<1>4. LiftStands(u)'
  BY DEF LiftStands
<1>5. trace'[u] = "agree" => Untouched(u)'
  BY DEF Untouched
<1> QED  BY <1>2, <1>3, <1>4, <1>5
\* A step that moves no message that waits.
LEMMA WaitOn ==
  ASSUME ModerationInv, queue' = queue,
         \A m \in Messages : work[m].stage = "queued" => work'[m].stage = "queued"
  PROVE  Waiting'
<1>1. \A i \in 1..Len(queue) : queue[i] \in Messages
  BY DEF ModerationInv, Waiting
<1> QED  BY <1>1 DEF ModerationInv, Waiting

\* A step that only moves messages on, none into or out of a mute.
LEMMA MovedOn ==
  ASSUME ModerationInv, Waiting',
         UNCHANGED <<runtime, stored, mutes, restricted, panel, trace>>,
         work' \in [Messages -> [stage : Stages, left : Nat, row : Nat]],
         \A m \in Messages :
           /\ Muting(m)' <=> Muting(m)
           /\ Halfway(m)' <=> Halfway(m)
           /\ Halfway(m) => work'[m].left = work[m].left
  PROVE  ModerationInv'
<1>1. Typed'
  BY DEF ModerationInv, Typed, Table
<1>2. SettingsOK'
  <2>1. \A a \in Admins : Changing(a)' <=> Changing(a)
    BY DEF Changing
  <2> QED  BY <2>1, SettingsApart DEF ModerationInv
<1>3. ASSUME NEW u \in Users PROVE UserOK(u)'
  <2>1. \A a \in Admins : LiftsNow(a, u)' <=> LiftsNow(a, u)
    BY DEF LiftsNow, Lifting
  <2>2. MuteOf(u)' = MuteOf(u) /\ Listed(u)' = Listed(u)
    BY DEF MuteOf, Listed
  <2> QED  BY <2>1, <2>2, AuthorApart DEF ModerationInv
<1> QED  BY <1>1, <1>2, <1>3 DEF ModerationInv

\* A step on one message changes nothing for other authors.
LEMMA MessageApart ==
  ASSUME ModerationInv, NEW m \in Messages, NEW u \in Users, u # Author[m],
         \A n \in Messages : n # m => work'[n] = work[n],
         UNCHANGED <<panel, mutes>>, restricted'[u] = restricted[u], trace'[u] = trace[u]
  PROVE  UserOK(u)'
<1>1. \A n \in Messages : Author[n] = u => n # m
  OBVIOUS
<1>2. \A n \in Messages : Author[n] = u =>
        /\ Muting(n)' <=> Muting(n)
        /\ Halfway(n)' <=> Halfway(n)
        /\ Halfway(n) => work'[n].left = work[n].left
  BY <1>1 DEF Muting, Halfway
<1>3. \A a \in Admins : LiftsNow(a, u)' <=> LiftsNow(a, u)
  BY DEF LiftsNow, Lifting
<1>4. MuteOf(u)' = MuteOf(u) /\ Listed(u)' = Listed(u)
  BY DEF MuteOf, Listed
<1> QED  BY <1>2, <1>3, <1>4, AuthorApart DEF ModerationInv

\* Nor for the settings.
LEMMA MessageApartFromSettings ==
  ASSUME ModerationInv, UNCHANGED <<panel, stored, runtime>>,
         trace'["settings"] = trace["settings"]
  PROVE  SettingsOK'
<1>1. \A a \in Admins : Changing(a)' <=> Changing(a)
  BY DEF Changing
<1> QED  BY <1>1, SettingsApart DEF ModerationInv

-----------------------------------------------------------------------------
(* The steps of a message.                                                  *)

\* It arrives, waits, is taken, is judged and spared.
LEMMA ArriveKeeps ==
  ASSUME ModerationInv, NEW m \in Messages, Arrive(m)
  PROVE  ModerationInv'
<1>1. work \in [Messages -> [stage : Stages, left : Nat, row : Nat]]
  BY DEF ModerationInv, Typed
<1>2. PICK stage \in {"judging", "queued"} : Stage(m, stage)
  BY DEF Arrive, TextMatched, Enqueue
<1>3. work[m].stage = "unsent"
  BY DEF Arrive, TextMatched, Enqueue
<1>4. /\ work' \in [Messages -> [stage : Stages, left : Nat, row : Nat]]
      /\ work'[m].stage = stage
      /\ \A n \in Messages : n # m => work'[n] = work[n]
  BY <1>1, <1>2 DEF Stage, Stages
<1>5. UNCHANGED <<runtime, stored, mutes, restricted, panel, trace>>
  BY DEF Arrive, TextMatched, Enqueue
<1>6. ASSUME NEW n \in Messages
      PROVE  /\ Muting(n)' <=> Muting(n)
             /\ Halfway(n)' <=> Halfway(n)
             /\ Halfway(n) => work'[n].left = work[n].left
  BY <1>3, <1>4 DEF Muting, Halfway
<1>7. Waiting'
  <2>1. CASE TextMatched(m)
    BY <1>3, <1>4, <2>1, WaitOn DEF TextMatched
  <2>2. CASE Enqueue(m)
    <3>1. queue \in Seq(Messages) /\ queue' = Append(queue, m) /\ work'[m].stage = "queued"
      BY <1>1, <2>2 DEF ModerationInv, Waiting, Enqueue, Stage
    <3>2. /\ queue' \in Seq(Messages) /\ Len(queue') = Len(queue) + 1 /\ Len(queue) \in Nat
          /\ queue'[Len(queue) + 1] = m
          /\ \A i \in 1..Len(queue) : queue'[i] = queue[i] /\ queue[i] \in Messages /\ queue[i] # m
      BY <1>3, <3>1 DEF ModerationInv, Waiting
    <3>3. \A i \in 1..Len(queue') : i = Len(queue) + 1 \/ i \in 1..Len(queue)
      BY <3>2
    <3>4. \A i \in 1..Len(queue) : work'[queue[i]] = work[queue[i]] /\ work[queue[i]].stage = "queued"
      BY <1>4, <3>2 DEF ModerationInv, Waiting
    <3>5. \A i \in 1..Len(queue') : work'[queue'[i]].stage = "queued"
      BY <3>1, <3>2, <3>3, <3>4
    <3>6. \A i, j \in 1..Len(queue') : queue'[i] = queue'[j] => i = j
      BY <3>2, <3>3 DEF ModerationInv, Waiting
    <3> QED  BY <3>2, <3>5, <3>6 DEF Waiting
  <2> QED  BY <2>1, <2>2 DEF Arrive
<1> QED  BY <1>4, <1>5, <1>6, <1>7, MovedOn

\* It is judged, and left alone.
LEMMA JudgedKeeps ==
  ASSUME ModerationInv, NEW m \in Messages, JudgeFails(m) \/ Spare(m)
  PROVE  ModerationInv'
<1>1. work \in [Messages -> [stage : Stages, left : Nat, row : Nat]]
  BY DEF ModerationInv, Typed
<1>2. work[m].stage = "judging" /\ work' = [work EXCEPT ![m] = Over]
  BY DEF JudgeFails, Spare, Finish
<1>3. /\ work' \in [Messages -> [stage : Stages, left : Nat, row : Nat]]
      /\ work'[m].stage = "over"
      /\ \A n \in Messages : n # m => work'[n] = work[n]
  BY <1>1, <1>2 DEF Over, NoRow, Stages
<1>4. UNCHANGED <<runtime, stored, mutes, restricted, panel, trace>>
  BY DEF JudgeFails, Spare
<1>5. ASSUME NEW n \in Messages
      PROVE  /\ Muting(n)' <=> Muting(n)
             /\ Halfway(n)' <=> Halfway(n)
             /\ Halfway(n) => work'[n].left = work[n].left
  BY <1>2, <1>3 DEF Muting, Halfway
<1>6. Waiting'
  BY <1>2, <1>3, WaitOn DEF JudgeFails, Spare
<1> QED  BY <1>3, <1>4, <1>5, <1>6, MovedOn
\* The worker takes it.
LEMMA TakeKeeps ==
  ASSUME ModerationInv, Take
  PROVE  ModerationInv'
<1>1. work \in [Messages -> [stage : Stages, left : Nat, row : Nat]]
  BY DEF ModerationInv, Typed
<1>2. queue \in Seq(Messages) /\ queue # <<>> /\ queue' = Tail(queue)
  BY DEF ModerationInv, Waiting, Take
<1>3. /\ Len(queue) \in Nat \ {0} /\ Head(queue) = queue[1]
      /\ queue' \in Seq(Messages) /\ Len(queue') = Len(queue) - 1
      /\ \A i \in 1..Len(queue') : i + 1 \in 1..Len(queue) /\ queue'[i] = queue[i + 1]
      /\ \A i \in 1..Len(queue) : queue[i] \in Messages
  BY <1>2
<1> DEFINE m == queue[1]
<1>4. m \in Messages /\ work[m].stage = "queued"
  BY <1>3 DEF ModerationInv, Waiting
<1>5. /\ work' \in [Messages -> [stage : Stages, left : Nat, row : Nat]]
      /\ work'[m].stage \in {"judging", "over"}
      /\ \A n \in Messages : n # m => work'[n] = work[n]
  <2>1. CASE runtime.enabled
    <3>1. work' = [work EXCEPT ![m].stage = "judging"]
      BY <1>3, <2>1 DEF Take, Stage
    <3> QED  BY <1>1, <1>4, <3>1 DEF Stages
  <2>2. CASE ~runtime.enabled
    <3>1. work' = [work EXCEPT ![m] = Over]
      BY <1>3, <2>2 DEF Take
    <3> QED  BY <1>1, <1>4, <3>1 DEF Over, NoRow, Stages
  <2> QED  BY <2>1, <2>2
<1>6. UNCHANGED <<runtime, stored, mutes, restricted, panel, trace>>
  BY DEF Take
<1>7. ASSUME NEW n \in Messages
      PROVE  /\ Muting(n)' <=> Muting(n)
             /\ Halfway(n)' <=> Halfway(n)
             /\ Halfway(n) => work'[n].left = work[n].left
  BY <1>4, <1>5 DEF Muting, Halfway
<1>8. Waiting'
  <2>1. \A i \in 1..Len(queue') : queue'[i] # m
    BY <1>3 DEF ModerationInv, Waiting
  <2>2. ASSUME NEW i \in 1..Len(queue') PROVE work'[queue'[i]].stage = "queued"
    <3>1. queue'[i] = queue[i + 1] /\ queue[i + 1] \in Messages /\ work[queue[i + 1]].stage = "queued"
      BY <1>3 DEF ModerationInv, Waiting
    <3> QED  BY <1>5, <2>1, <3>1
  <2>3. ASSUME NEW i \in 1..Len(queue'), NEW j \in 1..Len(queue'), queue'[i] = queue'[j]
        PROVE  i = j
    <3>1. queue[i + 1] = queue[j + 1] /\ i + 1 \in 1..Len(queue) /\ j + 1 \in 1..Len(queue)
      BY <1>3, <2>3
    <3>2. i + 1 = j + 1
      BY <3>1 DEF ModerationInv, Waiting
    <3> QED  BY <3>2
  <2> QED  BY <1>3, <2>2, <2>3 DEF Waiting
<1> HIDE DEF m
<1> QED  BY <1>5, <1>6, <1>7, <1>8, MovedOn

\* The row is found; nothing else changes.
LEMMA FindRowKeeps ==
  ASSUME ModerationInv, NEW m \in Messages, FindRow(m)
  PROVE  ModerationInv'
<1>1. work \in [Messages -> [stage : Stages, left : Nat, row : Nat]]
  BY DEF ModerationInv, Typed
<1> DEFINE row == IF MuteOf(Author[m]) = {} THEN NoRow ELSE CHOOSE id \in MuteOf(Author[m]) : TRUE
<1>2. row \in Nat
  <2>1. CASE MuteOf(Author[m]) = {}
    BY <2>1 DEF NoRow
  <2>2. CASE MuteOf(Author[m]) # {}
    <3>1. row \in MuteOf(Author[m])
      BY <2>2
    <3> HIDE DEF row
    <3> QED  BY <3>1 DEF MuteOf, ModerationInv, Typed, Table
  <2> QED  BY <2>1, <2>2
<1>3. work[m].stage = "recording" /\ work' = [work EXCEPT ![m].stage = "saving", ![m].row = row]
  BY DEF FindRow
<1> HIDE DEF row
<1>4. /\ work' \in [Messages -> [stage : Stages, left : Nat, row : Nat]]
      /\ work'[m].stage = "saving" /\ work'[m].left = work[m].left
      /\ \A n \in Messages : n # m => work'[n] = work[n]
  BY <1>1, <1>2, <1>3 DEF Stages
<1>5. queue' = queue /\ UNCHANGED <<runtime, stored, mutes, restricted, panel, trace>>
  BY DEF FindRow
<1>6. ASSUME NEW n \in Messages
      PROVE  /\ Muting(n)' <=> Muting(n)
             /\ Halfway(n)' <=> Halfway(n)
             /\ Halfway(n) => work'[n].left = work[n].left
  BY <1>3, <1>4 DEF Muting, Halfway
<1>7. Waiting'
  BY <1>3, <1>4, <1>5, WaitOn
<1> QED  BY <1>4, <1>5, <1>6, <1>7, MovedOn
\* A mute begins.
LEMMA BeginMuteKeeps ==
  ASSUME ModerationInv, NEW m \in Messages, BeginMute(m)
  PROVE  ModerationInv'
<1> DEFINE u == Author[m]
<1>1. u \in Users /\ u # "settings"
  BY ModerationAssumption
<1>2. work \in [Messages -> [stage : Stages, left : Nat, row : Nat]]
  BY DEF ModerationInv, Typed
<1>3. /\ work[m].stage = "judging"
      /\ work' \in [Messages -> [stage : Stages, left : Nat, row : Nat]]
      /\ work'[m].stage = "restricting"
      /\ \A n \in Messages : n # m => work'[n] = work[n]
  BY <1>2, ModerationAssumption DEF BeginMute, Stages
<1>4. /\ UNCHANGED <<queue, runtime, stored, mutes, restricted, panel>>
      /\ trace' = Begun(trace, u)
  BY DEF BeginMute
<1> HIDE DEF u
<1>5. /\ trace' \in Traces
      /\ \A y \in Users \cup {"settings"} : y # u => trace'[y] = trace[y]
      /\ trace'[u] # "mixed" => trace'[u] = trace[u] /\ ~(Operations(u) > 0)
  <2>1. trace \in Traces
    BY DEF ModerationInv, Typed, Traces
  <2> QED  BY <1>1, <1>4, <2>1, MarkedBegun
<1>6. Typed'
  BY <1>3, <1>4, <1>5 DEF ModerationInv, Typed, Table, Traces
<1>7. Waiting'
  BY <1>3, <1>4, WaitOn
<1>8. SettingsOK'
  BY <1>1, <1>4, <1>5, MessageApartFromSettings
<1>9. ASSUME NEW v \in Users PROVE UserOK(v)'
  <2>1. CASE v # u
    BY <1>3, <1>4, <1>5, <2>1, MessageApart DEF u
  <2>2. CASE v = u
    <3> SUFFICES ASSUME trace'[u] # "mixed"
                 PROVE  /\ Alone(u)' /\ MuteStands(u)' /\ LiftStands(u)'
                        /\ trace'[u] = "agree" => Untouched(u)'
      BY <2>2 DEF UserOK
    <3>1. /\ \A n \in Messages : ~MutesNow(n, u)
          /\ \A a \in Admins : ~LiftsNow(a, u)
      BY <1>1, <1>5, OperationsOn
    <3>2. \A a \in Admins : ~LiftsNow(a, u)'
      BY <1>4, <3>1 DEF LiftsNow, Lifting
    <3>3. \A n \in Messages : MutesNow(n, u)' => n = m
      BY <1>3, <3>1 DEF MutesNow, Muting
    <3>4. \A n \in Messages : ~(Halfway(n) /\ Author[n] = u) /\ ~(Halfway(n)' /\ Author[n] = u)
      BY <1>3, <3>1 DEF MutesNow, Muting, Halfway
    <3>5. Alone(u)'
      BY <3>2, <3>3 DEF Alone
    <3>6. MuteStands(u)'
      BY <3>4 DEF MuteStands
    <3>7. LiftStands(u)'
      BY <3>2 DEF LiftStands
    <3>8. ASSUME trace'[u] = "agree" PROVE Untouched(u)'
      <4>1. Untouched(u)
        BY <1>1, <1>5, <3>8 DEF ModerationInv, UserOK
      <4>2. restricted[u] = Listed(u)
        BY <3>1, <3>4, <4>1 DEF Untouched
      <4> QED  BY <1>4, <4>2 DEF Untouched, Listed, MuteOf
    <3> QED  BY <3>5, <3>6, <3>7, <3>8
  <2> QED  BY <2>1, <2>2
<1> QED  BY <1>6, <1>7, <1>8, <1>9 DEF ModerationInv

\* Telegram restricts the author.
LEMMA RestrictAuthorKeeps ==
  ASSUME ModerationInv, NEW m \in Messages, RestrictAuthor(m)
  PROVE  ModerationInv'
<1> DEFINE u == Author[m]
<1>1. u \in Users
  BY ModerationAssumption
<1>2. work \in [Messages -> [stage : Stages, left : Nat, row : Nat]]
  BY DEF ModerationInv, Typed
<1>3. /\ work[m].stage = "restricting"
      /\ work' \in [Messages -> [stage : Stages, left : Nat, row : Nat]]
      /\ work'[m].stage = "recording" /\ work'[m].left = work[m].left
      /\ \A n \in Messages : n # m => work'[n] = work[n]
  BY <1>2 DEF RestrictAuthor, Stage, Stages
<1>4. /\ restricted' = [restricted EXCEPT ![u] = work[m].left]
      /\ UNCHANGED <<queue, runtime, stored, mutes, panel, trace>>
  BY DEF RestrictAuthor
<1> HIDE DEF u
<1>5. /\ restricted' \in [Users -> Nat] /\ restricted'[u] = work[m].left
      /\ \A v \in Users : v # u => restricted'[v] = restricted[v]
  BY <1>1, <1>2, <1>4 DEF ModerationInv, Typed
<1>6. Typed'
  BY <1>3, <1>4, <1>5 DEF ModerationInv, Typed, Table
<1>7. Waiting'
  BY <1>3, <1>4, WaitOn
<1>8. SettingsOK'
  BY <1>4, MessageApartFromSettings
<1>9. ASSUME NEW v \in Users PROVE UserOK(v)'
  <2>1. CASE v # u
    BY <1>3, <1>4, <1>5, <2>1, MessageApart DEF u
  <2>2. CASE v = u
    <3> SUFFICES ASSUME trace'[u] # "mixed"
                 PROVE  Alone(u)' /\ MuteStands(u)' /\ LiftStands(u)' /\ Untouched(u)'
      BY <2>2 DEF UserOK
    <3>1. Alone(u)
      BY <1>1, <1>4 DEF ModerationInv, UserOK
    <3>2. MutesNow(m, u) /\ MutesNow(m, u)' /\ Halfway(m)' /\ Author[m] = u
      BY <1>3 DEF MutesNow, Muting, Halfway, u
    <3>3. \A n \in Messages : MutesNow(n, u)' => n = m
      BY <1>3, <3>1, <3>2 DEF MutesNow, Muting, Alone
    <3>4. \A a \in Admins : ~LiftsNow(a, u) /\ ~LiftsNow(a, u)'
      BY <1>4, <3>1, <3>2 DEF LiftsNow, Lifting, Alone
    <3>5. Alone(u)'
      BY <3>3, <3>4 DEF Alone
    <3>6. MuteStands(u)'
      <4>1. \A n \in Messages : (Halfway(n)' /\ Author[n] = u) => n = m
        BY <3>3 DEF MutesNow, Muting, Halfway
      <4> QED  BY <1>3, <1>5, <4>1 DEF MuteStands
    <3>7. LiftStands(u)'
      BY <3>4 DEF LiftStands
    <3>8. Untouched(u)'
      BY <3>2 DEF Untouched
    <3> QED  BY <3>5, <3>6, <3>7, <3>8
  <2> QED  BY <2>1, <2>2
<1> QED  BY <1>6, <1>7, <1>8, <1>9 DEF ModerationInv

\* The message whose mute ends was the only operation on its author, unless
\* they are mixed up.
LEMMA MuteEnds ==
  ASSUME ModerationInv, NEW m \in Messages, Muting(m), Finish(m), panel' = panel,
         trace'[Author[m]] # "mixed" => ~(Operations(Author[m]) > 1),
         trace'[Author[m]] = "agree" => restricted'[Author[m]] = Listed(Author[m])'
  PROVE  UserOK(Author[m])'
<1> DEFINE u == Author[m]
<1>1. u \in Users
  BY ModerationAssumption
<1>2. work'[m].stage = "over" /\ \A n \in Messages : n # m => work'[n] = work[n]
  BY DEF Finish, Over, ModerationInv, Typed
<1>3. MutesNow(m, u)
  BY DEF MutesNow
<1>4. trace'[u] # "mixed" => ~(Operations(u) > 1)
  OBVIOUS
<1>5. trace'[u] = "agree" => restricted'[u] = Listed(u)'
  OBVIOUS
<1> HIDE DEF u
<1>6. ASSUME trace'[u] # "mixed"
      PROVE  /\ \A n \in Messages : ~MutesNow(n, u)'
             /\ \A a \in Admins : ~LiftsNow(a, u)'
  <2>1. Operations(u) \in Nat /\ ~(Operations(u) > 1)
    BY <1>1, <1>4, <1>6, OperationsOn
  <2>2. Alone(u)
    BY <1>1, <2>1, OperationsOn
  <2>3. ASSUME NEW n \in Messages PROVE ~MutesNow(n, u)'
    BY <1>2, <1>3, <2>2 DEF MutesNow, Muting, Alone
  <2>4. ASSUME NEW a \in Admins PROVE ~LiftsNow(a, u)'
    BY <1>3, <2>2 DEF LiftsNow, Lifting, Alone
  <2> QED  BY <2>3, <2>4
<1>7. UserOK(u)'
  BY <1>1, <1>5, <1>6, NoneLeft
<1> QED  BY <1>7 DEF u
\* Telegram does not answer.
LEMMA RestrictFailsKeeps ==
  ASSUME ModerationInv, NEW m \in Messages, RestrictFails(m)
  PROVE  ModerationInv'
<1> DEFINE u == Author[m]
<1>1. u \in Users /\ u # "settings"
  BY ModerationAssumption
<1>2. work \in [Messages -> [stage : Stages, left : Nat, row : Nat]]
  BY DEF ModerationInv, Typed
<1>3. work[m].stage = "restricting" /\ Finish(m)
  BY DEF RestrictFails
<1>4. /\ work' \in [Messages -> [stage : Stages, left : Nat, row : Nat]]
      /\ \A n \in Messages : n # m => work'[n] = work[n]
  BY <1>2, <1>3 DEF Finish, Over, NoRow, Stages
<1>5. PICK outcome \in {"nothing", "half"} :
        /\ trace' = Ended(trace, u, outcome)
        /\ outcome = "nothing" => restricted' = restricted
        /\ outcome = "half" => restricted' = [restricted EXCEPT ![u] = work[m].left]
  <2>1. CASE restricted' = restricted /\ trace' = Ended(trace, u, "nothing")
    BY <2>1
  <2>2. CASE /\ restricted' = [restricted EXCEPT ![u] = work[m].left]
             /\ trace' = Ended(trace, u, "half")
    BY <2>2
  <2> QED  BY <2>1, <2>2 DEF RestrictFails
<1>6. UNCHANGED <<queue, runtime, stored, mutes, panel>>
  BY DEF RestrictFails
<1> HIDE DEF u
<1>7. /\ trace' \in Traces
      /\ \A y \in Users \cup {"settings"} : y # u => trace'[y] = trace[y]
      /\ trace'[u] # "mixed" => ~(Operations(u) > 1)
      /\ trace'[u] = "agree" => trace[u] = "agree" /\ outcome = "nothing"
  <2>1. trace \in Traces
    BY DEF ModerationInv, Typed, Traces
  <2>2. u \in Users \cup {"settings"} /\ outcome \in Outcomes
    BY <1>1 DEF Outcomes
  <2>3. AsEnded(trace, u, outcome)
    BY <2>1, <2>2, MarkedEnded
  <2> QED  BY <1>5, <2>3 DEF AsEnded
<1>8. restricted' \in [Users -> Nat] /\ \A v \in Users : v # u => restricted'[v] = restricted[v]
  <2>1. restricted \in [Users -> Nat] /\ work[m].left \in Nat
    BY <1>2 DEF ModerationInv, Typed
  <2> QED  BY <1>1, <1>5, <2>1
<1>9. Typed'
  BY <1>4, <1>6, <1>7, <1>8 DEF ModerationInv, Typed, Table, Traces
<1>10. Waiting'
  BY <1>3, <1>4, <1>6, WaitOn
<1>11. SettingsOK'
  BY <1>1, <1>6, <1>7, MessageApartFromSettings
<1>12. UserOK(u)'
  <2>1. ASSUME trace'[u] = "agree" PROVE restricted'[u] = Listed(u)'
    <3>1. trace[u] = "agree" /\ restricted' = restricted
      BY <1>5, <1>7, <2>1
    <3>2. Alone(u) /\ Untouched(u)
      BY <1>1, <3>1 DEF ModerationInv, UserOK
    <3>3. MutesNow(m, u) /\ ~Halfway(m)
      BY <1>3 DEF MutesNow, Muting, Halfway, u
    <3>4. \A n \in Messages : ~(Halfway(n) /\ Author[n] = u)
      BY <3>2, <3>3 DEF Alone, MutesNow, Muting, Halfway
    <3>5. \A a \in Admins : ~LiftsNow(a, u)
      BY <3>2, <3>3 DEF Alone
    <3>6. restricted[u] = Listed(u)
      BY <3>2, <3>4, <3>5 DEF Untouched
    <3> QED  BY <1>6, <3>1, <3>6 DEF Listed, MuteOf
  <2>2. Muting(m)
    BY <1>3 DEF Muting
  <2> QED  BY <1>3, <1>6, <1>7, <2>1, <2>2, MuteEnds DEF u
<1>13. ASSUME NEW v \in Users, v # u PROVE UserOK(v)'
  BY <1>4, <1>6, <1>7, <1>8, <1>13, MessageApart DEF u
<1> QED  BY <1>9, <1>10, <1>11, <1>12, <1>13 DEF ModerationInv

\* The database refuses.
LEMMA RecordFailsKeeps ==
  ASSUME ModerationInv, NEW m \in Messages, RecordFails(m)
  PROVE  ModerationInv'
<1> DEFINE u == Author[m]
<1>1. u \in Users /\ u # "settings"
  BY ModerationAssumption
<1>2. work \in [Messages -> [stage : Stages, left : Nat, row : Nat]]
  BY DEF ModerationInv, Typed
<1>3. work[m].stage \in {"recording", "saving"} /\ Finish(m)
  BY DEF RecordFails
<1>4. /\ work' \in [Messages -> [stage : Stages, left : Nat, row : Nat]]
      /\ \A n \in Messages : n # m => work'[n] = work[n]
  BY <1>2, <1>3 DEF Finish, Over, NoRow, Stages
<1>5. /\ trace' = Ended(trace, u, "half")
      /\ UNCHANGED <<queue, runtime, stored, mutes, restricted, panel>>
  BY DEF RecordFails
<1> HIDE DEF u
<1>6. /\ trace' \in Traces
      /\ \A y \in Users \cup {"settings"} : y # u => trace'[y] = trace[y]
      /\ trace'[u] # "mixed" => ~(Operations(u) > 1)
      /\ trace'[u] # "agree"
  <2>1. trace \in Traces
    BY DEF ModerationInv, Typed, Traces
  <2>2. u \in Users \cup {"settings"} /\ "half" \in Outcomes
    BY <1>1 DEF Outcomes
  <2>3. AsEnded(trace, u, "half")
    BY <2>1, <2>2, MarkedEnded
  <2> QED  BY <1>5, <2>3 DEF AsEnded
<1>7. Typed'
  BY <1>4, <1>5, <1>6 DEF ModerationInv, Typed, Table, Traces
<1>8. Waiting'
  BY <1>3, <1>4, <1>5, WaitOn
<1>9. SettingsOK'
  BY <1>1, <1>5, <1>6, MessageApartFromSettings
<1>10. UserOK(u)'
  <2>1. Muting(m)
    BY <1>3 DEF Muting
  <2> QED  BY <1>3, <1>5, <1>6, <2>1, MuteEnds DEF u
<1>11. ASSUME NEW v \in Users, v # u PROVE UserOK(v)'
  BY <1>4, <1>5, <1>6, <1>11, MessageApart DEF u
<1> QED  BY <1>7, <1>8, <1>9, <1>10, <1>11 DEF ModerationInv
\* Whose row has strayed is marked, and no one else.
LEMMA MarkedStrayed ==
  ASSUME Table(mutes), NEW t \in Traces, NEW id, NEW u \in Users
  PROVE  /\ Strayed(t, id, u) \in Traces
         /\ Strayed(t, id, u)[u] = t[u]
         /\ Strayed(t, id, u)["settings"] = t["settings"]
         /\ \A v \in Users :
              /\ Strayed(t, id, u)[v] # "mixed" => t[v] # "mixed"
              /\ Strayed(t, id, u)[v] = "agree" => t[v] = "agree"
              /\ (Strayed(t, id, u)[v] = "agree" /\ id \in DOMAIN mutes /\ v # u)
                   => mutes[id].user # v
<1>1. CASE id \in DOMAIN mutes /\ mutes[id].user # u
  <2> DEFINE w == mutes[id].user
  <2>1. w \in Users /\ w # "settings" /\ w # u
    BY <1>1, ModerationAssumption DEF Table
  <2>2. Strayed(t, id, u) = [t EXCEPT ![w] = IF @ = "mixed" THEN @ ELSE "differ"]
    BY <1>1 DEF Strayed
  <2> HIDE DEF w
  <2>3. /\ Strayed(t, id, u) \in Traces
        /\ Strayed(t, id, u)[w] \in {"mixed", "differ"}
        /\ Strayed(t, id, u)[w] = "mixed" <=> t[w] = "mixed"
        /\ \A x \in Users \cup {"settings"} : x # w => Strayed(t, id, u)[x] = t[x]
    BY <2>1, <2>2 DEF Traces
  <2> QED  BY <2>1, <2>3 DEF w
<1>2. CASE ~(id \in DOMAIN mutes /\ mutes[id].user # u)
  BY <1>2 DEF Strayed
<1> QED  BY <1>1, <1>2

\* The mute is recorded.
LEMMA RecordKeeps ==
  ASSUME ModerationInv, NEW m \in Messages, Record(m)
  PROVE  ModerationInv'
<1> DEFINE u == Author[m]
           row == work[m].row
           left == work[m].left
           own == row = NoRow \/ mutes[row].user = u
           outcome == IF own THEN "done" ELSE "half"
           apart == Strayed(trace, row, u)
<1>1. u \in Users /\ u # "settings"
  BY ModerationAssumption
<1>2. /\ work \in [Messages -> [stage : Stages, left : Nat, row : Nat]]
      /\ Table(mutes) /\ trace \in Traces
  BY DEF ModerationInv, Typed, Traces
<1>3. work[m].stage = "saving" /\ Finish(m) /\ ~Refused(m)
  BY DEF Record
<1>4. /\ work' \in [Messages -> [stage : Stages, left : Nat, row : Nat]]
      /\ \A n \in Messages : n # m => work'[n] = work[n]
  BY <1>2, <1>3 DEF Finish, Over, NoRow, Stages
<1>5. /\ trace' = Ended(apart, u, outcome)
      /\ mutes' = Recorded(m)
      /\ UNCHANGED <<queue, runtime, stored, restricted, panel>>
  BY DEF Record
<1>6. row \in Nat /\ left \in Nat
  BY <1>2
<1>7. PICK id \in Nat \ {0}, w \in Users :
        /\ mutes' = With(id, w, left)
        /\ MuteOf(w) \subseteq {id}
        /\ id \in DOMAIN mutes => mutes[id].user = w
        /\ w # u => row \in DOMAIN mutes /\ mutes[row].user = w /\ id = row
        /\ own => w = u
  <2>1. CASE row = NoRow
    <3>1. mutes' = With(NextId, u, left) /\ MuteOf(u) = {}
      BY <1>3, <1>5, <2>1 DEF Recorded, Refused
    <3>2. NextId \in Nat \ {0} /\ NextId \notin DOMAIN mutes
      BY <1>2, NextIdIsFree
    <3> QED  BY <1>1, <3>1, <3>2
  <2>2. CASE row # NoRow
    <3>1. row \in DOMAIN mutes /\ mutes' = With(row, mutes[row].user, left)
      BY <1>3, <1>5, <2>2 DEF Recorded, Refused
    <3>2. row \in Nat \ {0} /\ mutes[row].user \in Users
      BY <1>2, <3>1 DEF Table
    <3>3. MuteOf(mutes[row].user) \subseteq {row}
      BY <1>2, <3>1 DEF MuteOf, Table
    <3> QED  BY <2>2, <3>1, <3>2, <3>3
  <2> QED  BY <2>1, <2>2
<1>8. outcome \in Outcomes /\ (outcome # "half" => own)
  BY DEF Outcomes
<1> HIDE DEF own, outcome, left
<1>9. /\ Table(mutes)'
      /\ MuteOf(w)' = {id} /\ Listed(w)' = left
      /\ \A v \in Users \ {w} : MuteOf(v)' = MuteOf(v) /\ Listed(v)' = Listed(v)
  BY <1>2, <1>6, <1>7, WrittenTable
<1>10. /\ apart \in Traces
       /\ apart[u] = trace[u] /\ apart["settings"] = trace["settings"]
       /\ \A v \in Users :
            /\ apart[v] # "mixed" => trace[v] # "mixed"
            /\ apart[v] = "agree" => trace[v] = "agree"
            /\ (apart[v] = "agree" /\ row \in DOMAIN mutes /\ v # u) => mutes[row].user # v
  BY <1>1, <1>2, MarkedStrayed
<1> HIDE DEF u, row, apart
<1>11. /\ trace' \in Traces
       /\ \A y \in Users \cup {"settings"} : y # u => trace'[y] = apart[y]
       /\ trace'[u] # "mixed" => ~(Operations(u) > 1)
       /\ trace'[u] = "agree" => apart[u] # "mixed" /\ outcome # "half"
  <2>1. u \in Users \cup {"settings"}
    BY <1>1
  <2>2. AsEnded(apart, u, outcome)
    BY <1>8, <1>10, <2>1, MarkedEnded
  <2> QED  BY <1>5, <2>2 DEF AsEnded
<1>12. Typed'
  BY <1>4, <1>5, <1>9, <1>11 DEF ModerationInv, Typed, Traces
<1>13. Waiting'
  BY <1>3, <1>4, <1>5, WaitOn
<1>14. SettingsOK'
  BY <1>1, <1>5, <1>10, <1>11, MessageApartFromSettings
<1>15. UserOK(u)'
  <2>1. ASSUME trace'[u] = "agree" PROVE restricted'[u] = Listed(u)'
    <3>1. trace[u] # "mixed" /\ w = u
      BY <1>5, <1>7, <1>8, <1>10, <1>11, <2>1
    <3>2. Halfway(m) /\ Author[m] = u
      BY <1>3 DEF Halfway, u
    <3>3. restricted[u] = left
      BY <1>1, <3>1, <3>2 DEF ModerationInv, UserOK, MuteStands, left
    <3> QED  BY <1>5, <1>9, <3>1, <3>3
  <2>2. Muting(m)
    BY <1>3 DEF Muting
  <2>3. trace'[u] # "mixed" => ~(Operations(u) > 1)
    BY <1>5, <1>11
  <2>4. panel' = panel
    BY <1>5
  <2> QED  BY <1>3, <2>1, <2>2, <2>3, <2>4, MuteEnds DEF u
<1>16. ASSUME NEW v \in Users, v # u PROVE UserOK(v)'
  <2>1. trace'[v] = apart[v]
    BY <1>5, <1>11, <1>16
  <2>2. MuteOf(v)' \subseteq MuteOf(v)
    <3>1. CASE v = w
      BY <1>2, <1>7, <1>9, <1>16, <3>1 DEF MuteOf
    <3>2. CASE v # w
      BY <1>9, <3>2
    <3> QED  BY <3>1, <3>2
  <2>3. ASSUME trace'[v] = "agree" PROVE trace[v] = "agree" /\ Listed(v)' = Listed(v)
    <3>1. v # w
      BY <1>7, <1>10, <1>16, <2>1, <2>3
    <3> QED  BY <1>9, <1>10, <2>1, <2>3, <3>1
  <2>4. trace'[v] # "mixed" => trace[v] # "mixed"
    BY <1>10, <2>1
  <2>5. \A n \in Messages : Author[n] = v =>
          /\ Muting(n)' <=> Muting(n)
          /\ Halfway(n)' <=> Halfway(n)
          /\ Halfway(n) => work'[n].left = work[n].left
    BY <1>4, <1>16 DEF Muting, Halfway, u
  <2>6. \A a \in Admins :
          /\ LiftsNow(a, v)' <=> LiftsNow(a, v)
          /\ LiftsNow(a, v) => panel'[a] = panel[a]
    BY <1>5 DEF LiftsNow, Lifting
  <2>7. restricted'[v] = restricted[v]
    BY <1>5
  <2>8. UserOK(v)
    BY DEF ModerationInv
  <2> QED  BY <2>2, <2>3, <2>4, <2>5, <2>6, <2>7, <2>8, AuthorApart
<1> QED  BY <1>12, <1>13, <1>14, <1>15, <1>16 DEF ModerationInv
-----------------------------------------------------------------------------
(* The steps of an administrator.                                           *)

\* What a handler holds while it lifts a mute or changes the settings.
LEMMA HandlerHolds ==
  ASSUME ModerationInv, NEW a \in Admins
  PROVE  /\ panel \in [Admins -> Handlers]
         /\ Lifting(a) => panel[a] \in [pc : {"restoring", "removing"}, id : Nat, user : Users]
         /\ Changing(a) => panel[a] \in [pc : {"changing", "applying"}, change : Changes, seen : Settings]
<1>1. panel \in [Admins -> Handlers] /\ panel[a] \in Handlers
  BY DEF ModerationInv, Typed
<1> QED  BY <1>1 DEF Handlers, Idle, Lifting, Changing

\* A step of an administrator changes nothing for an author with whom he has
\* nothing to do.
LEMMA LiftApart ==
  ASSUME ModerationInv, NEW a \in Admins, NEW u \in Users, ~LiftsNow(a, u), ~LiftsNow(a, u)',
         \A b \in Admins : b # a => panel'[b] = panel[b],
         work' = work, restricted'[u] = restricted[u], MuteOf(u)' \subseteq MuteOf(u),
         trace'[u] # "mixed" => trace[u] # "mixed",
         trace'[u] = "agree" => trace[u] = "agree" /\ Listed(u)' = Listed(u)
  PROVE  UserOK(u)'
<1>1. \A b \in Admins :
        /\ LiftsNow(b, u)' <=> LiftsNow(b, u)
        /\ LiftsNow(b, u) => panel'[b] = panel[b]
  BY DEF LiftsNow, Lifting
<1>2. \A m \in Messages : (Muting(m)' <=> Muting(m)) /\ (Halfway(m)' <=> Halfway(m))
  BY DEF Muting, Halfway
<1>3. UserOK(u)
  BY DEF ModerationInv
<1> QED  BY <1>1, <1>2, <1>3, AuthorApart

\* Nor does one that is not about the settings change anything for them.
LEMMA LiftApartFromSettings ==
  ASSUME ModerationInv, NEW a \in Admins, ~Changing(a), ~Changing(a)',
         \A b \in Admins : b # a => panel'[b] = panel[b],
         UNCHANGED <<stored, runtime>>, trace'["settings"] = trace["settings"]
  PROVE  SettingsOK'
<1>1. \A b \in Admins :
        /\ Changing(b)' <=> Changing(b)
        /\ Changing(b) => panel'[b] = panel[b]
  BY DEF Changing
<1> QED  BY <1>1, SettingsApart DEF ModerationInv

\* The administrator who ends lifting a mute was the only one at work on the
\* author, unless operations on him are mixed up.
LEMMA LiftEnds ==
  ASSUME ModerationInv, NEW a \in Admins, NEW u \in Users, LiftsNow(a, u), panel'[a] = Idle,
         \A b \in Admins : b # a => panel'[b] = panel[b], work' = work,
         trace'[u] # "mixed" => ~(Operations(u) > 1),
         trace'[u] = "agree" => restricted'[u] = Listed(u)'
  PROVE  UserOK(u)'
<1>1. ASSUME trace'[u] # "mixed"
      PROVE  /\ \A n \in Messages : ~MutesNow(n, u)'
             /\ \A b \in Admins : ~LiftsNow(b, u)'
  <2>1. Operations(u) \in Nat /\ ~(Operations(u) > 1)
    BY <1>1, OperationsOn
  <2>2. Alone(u)
    BY <2>1, OperationsOn
  <2>3. ASSUME NEW n \in Messages PROVE ~MutesNow(n, u)'
    BY <2>2 DEF MutesNow, Muting, Alone
  <2>4. ASSUME NEW b \in Admins PROVE ~LiftsNow(b, u)'
    BY <2>2 DEF LiftsNow, Lifting, Alone, Idle
  <2> QED  BY <2>3, <2>4
<1> QED  BY <1>1, NoneLeft

\* Lifting a mute begins, from the list or by the author's number.
LEMMA BeginLiftKeeps ==
  ASSUME ModerationInv, NEW a \in Admins, Confirm(a) \/ LiftByNumber(a)
  PROVE  ModerationInv'
<1>1. panel[a].pc = "idle" /\ panel \in [Admins -> Handlers]
  BY DEF Confirm, LiftByNumber, ModerationInv, Typed
<1>2. UNCHANGED <<work, queue, runtime, stored, mutes, restricted>>
  BY DEF Confirm, LiftByNumber
<1>3. PICK id \in Nat, u \in Users :
        /\ panel' = [panel EXCEPT ![a] = [pc |-> "restoring", id |-> id, user |-> u]]
        /\ trace' = Begun(trace, u)
        /\ id # NoRow => MuteOf(u) \subseteq {id}
  <2>1. CASE Confirm(a)
    <3>1. PICK id \in DOMAIN mutes :
            /\ panel' = [panel EXCEPT ![a] = [pc |-> "restoring", id |-> id, user |-> mutes[id].user]]
            /\ trace' = Begun(trace, mutes[id].user)
      BY <2>1 DEF Confirm, Panel
    <3>2. Table(mutes)
      BY DEF ModerationInv, Typed
    <3>3. id \in Nat /\ mutes[id].user \in Users /\ MuteOf(mutes[id].user) \subseteq {id}
      BY <3>2 DEF Table, MuteOf
    <3> QED  BY <3>1, <3>3
  <2>2. CASE LiftByNumber(a)
    BY <2>2 DEF LiftByNumber, Panel, NoRow
  <2> QED  BY <2>1, <2>2
<1>4. u # "settings"
  BY ModerationAssumption
<1>5. /\ trace' \in Traces
      /\ \A y \in Users \cup {"settings"} : y # u => trace'[y] = trace[y]
      /\ trace'[u] # "mixed" => trace'[u] = trace[u] /\ ~(Operations(u) > 0)
  <2>1. trace \in Traces
    BY DEF ModerationInv, Typed, Traces
  <2> QED  BY <1>3, <2>1, MarkedBegun
<1>6. /\ panel' \in [Admins -> Handlers]
      /\ panel'[a] = [pc |-> "restoring", id |-> id, user |-> u]
      /\ \A b \in Admins : b # a => panel'[b] = panel[b]
  <2>1. [pc |-> "restoring", id |-> id, user |-> u] \in Handlers
    BY DEF Handlers
  <2> QED  BY <1>1, <1>3, <2>1
<1>7. Typed'
  BY <1>2, <1>5, <1>6 DEF ModerationInv, Typed, Table, Traces
<1>8. Waiting'
  BY <1>2, WaitOn
<1>9. SettingsOK'
  <2>1. ~Changing(a) /\ ~Changing(a)'
    BY <1>1, <1>6 DEF Changing
  <2> QED  BY <1>2, <1>4, <1>5, <1>6, <2>1, LiftApartFromSettings
<1>10. UserOK(u)'
  <2> SUFFICES ASSUME trace'[u] # "mixed"
               PROVE  /\ Alone(u)' /\ MuteStands(u)' /\ LiftStands(u)'
                      /\ trace'[u] = "agree" => Untouched(u)'
    BY DEF UserOK
  <2>1. /\ \A n \in Messages : ~MutesNow(n, u)
        /\ \A b \in Admins : ~LiftsNow(b, u)
    BY <1>5, OperationsOn
  <2>2. \A b \in Admins : LiftsNow(b, u)' => b = a
    BY <1>6, <2>1 DEF LiftsNow, Lifting
  <2>3. \A n \in Messages : ~MutesNow(n, u)' /\ ~(Halfway(n) /\ Author[n] = u) /\ ~(Halfway(n)' /\ Author[n] = u)
    BY <1>2, <2>1 DEF MutesNow, Muting, Halfway
  <2>4. Alone(u)'
    BY <2>2, <2>3 DEF Alone
  <2>5. MuteStands(u)'
    BY <2>3 DEF MuteStands
  <2>6. LiftStands(u)'
    BY <1>2, <1>3, <1>6, <2>2 DEF LiftStands, MuteOf
  <2>7. ASSUME trace'[u] = "agree" PROVE Untouched(u)'
    <3>1. Untouched(u)
      BY <1>5, <2>7 DEF ModerationInv, UserOK
    <3>2. restricted[u] = Listed(u)
      BY <2>1, <2>3, <3>1 DEF Untouched
    <3> QED  BY <1>2, <3>2 DEF Untouched, Listed, MuteOf
  <2> QED  BY <2>4, <2>5, <2>6, <2>7
<1>11. ASSUME NEW v \in Users, v # u PROVE UserOK(v)'
  <2>1. ~LiftsNow(a, v) /\ ~LiftsNow(a, v)'
    BY <1>1, <1>6, <1>11 DEF LiftsNow, Lifting
  <2>2. MuteOf(v)' = MuteOf(v) /\ Listed(v)' = Listed(v)
    BY <1>2 DEF MuteOf, Listed
  <2>3. trace'[v] = trace[v]
    BY <1>5, <1>11
  <2> QED  BY <1>2, <1>6, <2>1, <2>2, <2>3, LiftApart
<1> QED  BY <1>7, <1>8, <1>9, <1>10, <1>11 DEF ModerationInv
\* Telegram frees the author.
LEMMA RestoreKeeps ==
  ASSUME ModerationInv, NEW a \in Admins, Restore(a)
  PROVE  ModerationInv'
<1>1. panel[a].pc = "restoring" /\ Lifting(a)
  BY DEF Restore, Lifting
<1>2. /\ panel \in [Admins -> Handlers]
      /\ panel[a] \in [pc : {"restoring", "removing"}, id : Nat, user : Users]
  BY <1>1, HandlerHolds
<1>3. PICK u \in Users : u = panel[a].user
  BY <1>2
<1>4. /\ restricted' = [restricted EXCEPT ![u] = 0]
      /\ panel' = [panel EXCEPT ![a] = [panel[a] EXCEPT !.pc = "removing"]]
      /\ UNCHANGED <<work, queue, runtime, stored, mutes, trace>>
  BY <1>3 DEF Restore, Panel
<1>5. /\ panel' \in [Admins -> Handlers]
      /\ panel'[a].pc = "removing" /\ panel'[a].id = panel[a].id /\ panel'[a].user = u
      /\ \A b \in Admins : b # a => panel'[b] = panel[b]
  <2>1. [panel[a] EXCEPT !.pc = "removing"] \in [pc : {"restoring", "removing"}, id : Nat, user : Users]
    BY <1>2
  <2>2. [panel[a] EXCEPT !.pc = "removing"] \in Handlers
    BY <2>1 DEF Handlers
  <2>3. panel'[a] = [panel[a] EXCEPT !.pc = "removing"]
    BY <1>2, <1>4
  <2>4. panel' \in [Admins -> Handlers] /\ \A b \in Admins : b # a => panel'[b] = panel[b]
    BY <1>2, <1>4, <2>2
  <2> QED  BY <1>2, <1>3, <2>3, <2>4
<1>6. /\ restricted' \in [Users -> Nat] /\ restricted'[u] = 0
      /\ \A v \in Users : v # u => restricted'[v] = restricted[v]
  BY <1>3, <1>4 DEF ModerationInv, Typed
<1>7. Typed'
  BY <1>4, <1>5, <1>6 DEF ModerationInv, Typed, Table
<1>8. Waiting'
  BY <1>4, WaitOn
<1>9. SettingsOK'
  <2>1. ~Changing(a) /\ ~Changing(a)'
    BY <1>1, <1>5 DEF Changing
  <2> QED  BY <1>4, <1>5, <2>1, LiftApartFromSettings
<1>10. UserOK(u)'
  <2> SUFFICES ASSUME trace'[u] # "mixed"
               PROVE  Alone(u)' /\ MuteStands(u)' /\ LiftStands(u)' /\ Untouched(u)'
    BY DEF UserOK
  <2>1. Alone(u) /\ LiftStands(u)
    BY <1>3, <1>4 DEF ModerationInv, UserOK
  <2>2. LiftsNow(a, u) /\ LiftsNow(a, u)' /\ panel'[a].pc = "removing"
    BY <1>1, <1>3, <1>5 DEF LiftsNow, Lifting
  <2>3. \A b \in Admins : LiftsNow(b, u)' => b = a
    BY <1>5, <2>1, <2>2 DEF LiftsNow, Lifting, Alone
  <2>4. \A n \in Messages : ~MutesNow(n, u)' /\ ~(Halfway(n)' /\ Author[n] = u)
    BY <1>4, <2>1, <2>2 DEF MutesNow, Muting, Halfway, Alone
  <2>5. Alone(u)'
    BY <2>3, <2>4 DEF Alone
  <2>6. MuteStands(u)'
    BY <2>4 DEF MuteStands
  <2>7. LiftStands(u)'
    BY <1>4, <1>5, <1>6, <2>1, <2>2, <2>3 DEF LiftStands, MuteOf
  <2>8. Untouched(u)'
    BY <2>2 DEF Untouched
  <2> QED  BY <2>5, <2>6, <2>7, <2>8
<1>11. ASSUME NEW v \in Users, v # u PROVE UserOK(v)'
  <2>1. ~LiftsNow(a, v) /\ ~LiftsNow(a, v)'
    BY <1>3, <1>5, <1>11 DEF LiftsNow
  <2>2. MuteOf(v)' = MuteOf(v) /\ Listed(v)' = Listed(v)
    BY <1>4 DEF MuteOf, Listed
  <2> QED  BY <1>4, <1>5, <1>6, <1>11, <2>1, <2>2, LiftApart
<1> QED  BY <1>7, <1>8, <1>9, <1>10, <1>11 DEF ModerationInv

\* Telegram does not answer, or the database refuses.
LEMMA LiftFailsKeeps ==
  ASSUME ModerationInv, NEW a \in Admins, RestoreFails(a) \/ RemoveFails(a)
  PROVE  ModerationInv'
<1>1. Lifting(a)
  BY DEF RestoreFails, RemoveFails, Lifting
<1>2. /\ panel \in [Admins -> Handlers]
      /\ panel[a] \in [pc : {"restoring", "removing"}, id : Nat, user : Users]
  BY <1>1, HandlerHolds
<1>3. PICK u \in Users : u = panel[a].user /\ u # "settings"
  BY <1>2, ModerationAssumption
<1>4. /\ panel' = [panel EXCEPT ![a] = Idle]
      /\ UNCHANGED <<work, queue, runtime, stored, mutes>>
  BY DEF RestoreFails, RemoveFails, Panel
<1>5. PICK outcome \in {"nothing", "half"} :
        /\ trace' = Ended(trace, u, outcome)
        /\ outcome = "nothing" => panel[a].pc = "restoring"
        /\ restricted' = restricted \/ (outcome = "half" /\ restricted' = [restricted EXCEPT ![u] = 0])
  <2>1. CASE panel[a].pc = "restoring" /\ restricted' = restricted /\ trace' = Ended(trace, u, "nothing")
    BY <2>1
  <2>2. CASE restricted' = [restricted EXCEPT ![u] = 0] /\ trace' = Ended(trace, u, "half")
    BY <2>2
  <2>3. CASE restricted' = restricted /\ trace' = Ended(trace, u, "half")
    BY <2>3
  <2> QED  BY <1>3, <2>1, <2>2, <2>3 DEF RestoreFails, RemoveFails
<1>6. LiftsNow(a, u)
  BY <1>1, <1>3 DEF LiftsNow
<1>7. /\ trace' \in Traces
      /\ \A y \in Users \cup {"settings"} : y # u => trace'[y] = trace[y]
      /\ trace'[u] # "mixed" => ~(Operations(u) > 1)
      /\ trace'[u] = "agree" => trace[u] = "agree" /\ outcome = "nothing"
  <2>1. trace \in Traces
    BY DEF ModerationInv, Typed, Traces
  <2>2. u \in Users \cup {"settings"} /\ outcome \in Outcomes
    BY <1>3 DEF Outcomes
  <2>3. AsEnded(trace, u, outcome)
    BY <2>1, <2>2, MarkedEnded
  <2> QED  BY <1>5, <2>3 DEF AsEnded
<1>8. restricted' \in [Users -> Nat] /\ \A v \in Users : v # u => restricted'[v] = restricted[v]
  <2>1. restricted \in [Users -> Nat]
    BY DEF ModerationInv, Typed
  <2> QED  BY <1>3, <1>5, <2>1
<1>9. /\ panel' \in [Admins -> Handlers]
      /\ panel'[a] = Idle
      /\ \A b \in Admins : b # a => panel'[b] = panel[b]
  BY <1>2, <1>4 DEF Handlers
<1>10. Typed'
  BY <1>4, <1>7, <1>8, <1>9 DEF ModerationInv, Typed, Table, Traces
<1>11. Waiting'
  BY <1>4, WaitOn
<1>12. SettingsOK'
  <2>1. ~Changing(a) /\ ~Changing(a)'
    BY <1>1, <1>9 DEF Changing, Lifting, Idle
  <2>2. trace'["settings"] = trace["settings"]
    BY <1>3, <1>7
  <2> QED  BY <1>4, <1>9, <2>1, <2>2, LiftApartFromSettings
<1>13. UserOK(u)'
  <2>1. ASSUME trace'[u] = "agree" PROVE restricted'[u] = Listed(u)'
    <3>1. trace[u] = "agree" /\ restricted' = restricted /\ panel[a].pc = "restoring"
      BY <1>5, <1>7, <2>1
    <3>2. Alone(u) /\ Untouched(u)
      BY <1>3, <3>1 DEF ModerationInv, UserOK
    <3>3. \A n \in Messages : ~(Halfway(n) /\ Author[n] = u)
      BY <1>6, <3>2 DEF Alone, MutesNow, Muting, Halfway
    <3>4. \A b \in Admins : ~(LiftsNow(b, u) /\ panel[b].pc = "removing")
      BY <1>6, <3>1, <3>2 DEF Alone
    <3>5. restricted[u] = Listed(u)
      BY <3>2, <3>3, <3>4 DEF Untouched
    <3> QED  BY <1>4, <3>1, <3>5 DEF Listed, MuteOf
  <2> QED  BY <1>3, <1>4, <1>6, <1>7, <1>9, <2>1, LiftEnds
<1>14. ASSUME NEW v \in Users, v # u PROVE UserOK(v)'
  <2>1. ~LiftsNow(a, v) /\ ~LiftsNow(a, v)'
    BY <1>3, <1>9, <1>14 DEF LiftsNow, Lifting, Idle
  <2>2. MuteOf(v)' = MuteOf(v) /\ Listed(v)' = Listed(v)
    BY <1>4 DEF MuteOf, Listed
  <2>3. trace'[v] = trace[v]
    BY <1>7, <1>14
  <2> QED  BY <1>4, <1>8, <1>9, <1>14, <2>1, <2>2, <2>3, LiftApart
<1> QED  BY <1>10, <1>11, <1>12, <1>13, <1>14 DEF ModerationInv

\* The row is removed.
LEMMA RemoveKeeps ==
  ASSUME ModerationInv, NEW a \in Admins, RemoveRecord(a)
  PROVE  ModerationInv'
<1>1. panel[a].pc = "removing" /\ Lifting(a)
  BY DEF RemoveRecord, Lifting
<1>2. /\ panel \in [Admins -> Handlers]
      /\ panel[a] \in [pc : {"restoring", "removing"}, id : Nat, user : Users]
  BY <1>1, HandlerHolds
<1>3. PICK u \in Users, id \in Nat : u = panel[a].user /\ id = panel[a].id /\ u # "settings"
  BY <1>2, ModerationAssumption
<1> DEFINE ids == Removed(a)
           apart == Strayed(trace, id, u)
<1>4. /\ mutes' = Without(ids)
      /\ trace' = Ended(apart, u, "done")
      /\ panel' = [panel EXCEPT ![a] = Idle]
      /\ UNCHANGED <<work, queue, runtime, stored, restricted>>
  BY <1>3 DEF RemoveRecord, Panel
<1>5. Table(mutes) /\ trace \in Traces
  BY DEF ModerationInv, Typed, Traces
<1>6. ids = IF id = NoRow THEN MuteOf(u) ELSE {id}
  BY <1>3 DEF Removed
<1>7. LiftsNow(a, u)
  BY <1>1, <1>3 DEF LiftsNow
<1> HIDE DEF ids
<1>8. /\ Table(mutes)'
      /\ \A v \in Users : MuteOf(v)' = MuteOf(v) \ ids
      /\ \A v \in Users : MuteOf(v) \cap ids = {} => Listed(v)' = Listed(v)
      /\ \A v \in Users : MuteOf(v) \subseteq ids => Listed(v)' = 0
  BY <1>4, <1>5, RemovedTable
<1>9. /\ apart \in Traces
      /\ apart[u] = trace[u] /\ apart["settings"] = trace["settings"]
      /\ \A v \in Users :
           /\ apart[v] # "mixed" => trace[v] # "mixed"
           /\ apart[v] = "agree" => trace[v] = "agree"
           /\ (apart[v] = "agree" /\ id \in DOMAIN mutes /\ v # u) => mutes[id].user # v
  BY <1>3, <1>5, MarkedStrayed
<1> HIDE DEF apart
<1>10. /\ trace' \in Traces
       /\ \A y \in Users \cup {"settings"} : y # u => trace'[y] = apart[y]
       /\ trace'[u] # "mixed" => ~(Operations(u) > 1)
       /\ trace'[u] = "agree" => apart[u] # "mixed"
  <2>1. u \in Users \cup {"settings"} /\ "done" \in Outcomes
    BY <1>3 DEF Outcomes
  <2>2. AsEnded(apart, u, "done")
    BY <1>9, <2>1, MarkedEnded
  <2> QED  BY <1>4, <2>2 DEF AsEnded
<1>11. /\ panel' \in [Admins -> Handlers]
       /\ panel'[a] = Idle
       /\ \A b \in Admins : b # a => panel'[b] = panel[b]
  BY <1>2, <1>4 DEF Handlers
<1>12. Typed'
  BY <1>4, <1>8, <1>10, <1>11 DEF ModerationInv, Typed, Traces
<1>13. Waiting'
  BY <1>4, WaitOn
<1>14. SettingsOK'
  <2>1. ~Changing(a) /\ ~Changing(a)'
    BY <1>1, <1>11 DEF Changing, Idle
  <2>2. trace'["settings"] = trace["settings"]
    BY <1>3, <1>9, <1>10
  <2> QED  BY <1>4, <1>11, <2>1, <2>2, LiftApartFromSettings
<1>15. UserOK(u)'
  <2>1. ASSUME trace'[u] = "agree" PROVE restricted'[u] = Listed(u)'
    <3>1. LiftStands(u)
      BY <1>3, <1>9, <1>10, <2>1 DEF ModerationInv, UserOK
    <3>2. restricted[u] = 0 /\ (id # NoRow => MuteOf(u) \subseteq {id})
      BY <1>1, <1>3, <1>7, <3>1 DEF LiftStands
    <3>3. MuteOf(u) \subseteq ids
      BY <1>6, <3>2
    <3> QED  BY <1>3, <1>4, <1>8, <3>2, <3>3
  <2> QED  BY <1>3, <1>4, <1>7, <1>10, <1>11, <2>1, LiftEnds
<1>16. ASSUME NEW v \in Users, v # u PROVE UserOK(v)'
  <2>1. ~LiftsNow(a, v) /\ ~LiftsNow(a, v)'
    BY <1>3, <1>11, <1>16 DEF LiftsNow, Lifting, Idle
  <2>2. trace'[v] = apart[v]
    BY <1>10, <1>16
  <2>3. MuteOf(v)' \subseteq MuteOf(v)
    BY <1>8
  <2>4. ASSUME trace'[v] = "agree" PROVE trace[v] = "agree" /\ Listed(v)' = Listed(v)
    <3>1. MuteOf(v) \cap ids = {}
      BY <1>6, <1>9, <1>16, <2>2, <2>4 DEF MuteOf
    <3> QED  BY <1>8, <1>9, <2>2, <2>4, <3>1
  <2>5. trace'[v] # "mixed" => trace[v] # "mixed"
    BY <1>9, <2>2
  <2> QED  BY <1>4, <1>11, <1>16, <2>1, <2>3, <2>4, <2>5, LiftApart
<1> QED  BY <1>12, <1>13, <1>14, <1>15, <1>16 DEF ModerationInv
-----------------------------------------------------------------------------
(* The settings change.                                                     *)

\* No step on the settings concerns an author.
LEMMA ChangeApart ==
  ASSUME ModerationInv, NEW a \in Admins, NEW u \in Users, ~Lifting(a), ~Lifting(a)',
         \A b \in Admins : b # a => panel'[b] = panel[b],
         UNCHANGED <<work, mutes, restricted>>, trace'[u] = trace[u]
  PROVE  UserOK(u)'
<1>1. ~LiftsNow(a, u) /\ ~LiftsNow(a, u)'
  BY DEF LiftsNow
<1>2. MuteOf(u)' = MuteOf(u) /\ Listed(u)' = Listed(u)
  BY DEF MuteOf, Listed
<1> QED  BY <1>1, <1>2, LiftApart

\* An administrator asks for other settings, which are read, ...
LEMMA BeginChangeKeeps ==
  ASSUME ModerationInv, NEW a \in Admins, BeginChange(a)
  PROVE  ModerationInv'
<1>1. panel[a].pc = "idle" /\ panel \in [Admins -> Handlers]
  BY DEF BeginChange, ModerationInv, Typed
<1>2. UNCHANGED <<work, queue, runtime, stored, mutes, restricted>>
  BY DEF BeginChange
<1>3. PICK change \in Changes :
        panel' = [panel EXCEPT ![a] = [pc |-> "changing", change |-> change, seen |-> stored]]
  BY DEF BeginChange, Panel
<1>4. /\ panel' \in [Admins -> Handlers]
      /\ panel'[a] = [pc |-> "changing", change |-> change, seen |-> stored]
      /\ \A b \in Admins : b # a => panel'[b] = panel[b]
  <2>1. [pc |-> "changing", change |-> change, seen |-> stored] \in Handlers
    BY DEF Handlers, ModerationInv, Typed
  <2> QED  BY <1>1, <1>3, <2>1
<1>5. /\ trace' \in Traces
      /\ \A y \in Users \cup {"settings"} : y # "settings" => trace'[y] = trace[y]
      /\ trace'["settings"] # "mixed" => trace'["settings"] = trace["settings"] /\ ~(Operations("settings") > 0)
  <2>1. trace \in Traces /\ trace' = Begun(trace, "settings")
    BY DEF BeginChange, ModerationInv, Typed, Traces
  <2> QED  BY <2>1, MarkedBegun
<1>6. Typed'
  BY <1>2, <1>4, <1>5 DEF ModerationInv, Typed, Table, Traces
<1>7. Waiting'
  BY <1>2, WaitOn
<1>8. ASSUME NEW u \in Users PROVE UserOK(u)'
  <2>1. ~Lifting(a) /\ ~Lifting(a)'
    BY <1>1, <1>4 DEF Lifting
  <2>2. trace'[u] = trace[u]
    BY <1>5, ModerationAssumption
  <2> QED  BY <1>2, <1>4, <2>1, <2>2, ChangeApart
<1>9. SettingsOK'
  <2> SUFFICES ASSUME trace'["settings"] # "mixed" PROVE SettingsOK'
    BY DEF SettingsOK
  <2>1. \A b \in Admins : ~Changing(b)
    BY <1>5, OperationsOnSettings
  <2>2. \A b \in Admins : b # a => panel'[b].pc \notin {"changing", "applying"}
    BY <1>4, <2>1 DEF Changing
  <2>3. \A b, c \in Admins : Changing(b)' /\ Changing(c)' => b = c
    BY <2>2 DEF Changing
  <2>4. ASSUME NEW b \in Admins
        PROVE  /\ panel'[b].pc = "changing" => panel'[b].seen = stored'
               /\ panel'[b].pc # "applying"
    BY <1>2, <1>4, <2>2
  <2>5. ASSUME trace'["settings"] = "agree" PROVE runtime' = stored'
    <3>1. trace["settings"] = "agree" /\ \A b \in Admins : panel[b].pc # "applying"
      BY <1>5, <2>1, <2>5 DEF Changing
    <3> QED  BY <1>2, <3>1 DEF ModerationInv, SettingsOK
  <2> QED  BY <2>3, <2>4, <2>5 DEF SettingsOK
<1> QED  BY <1>6, <1>7, <1>8, <1>9 DEF ModerationInv

\* A change of the settings is one of these.
LEMMA ChangedIsSettings ==
  ASSUME NEW s \in Settings, NEW change \in Changes
  PROVE  Changed(s, change) \in Settings
BY DEF Changed, Settings, Changes

\* ... changed and stored.
LEMMA CommitChangeKeeps ==
  ASSUME ModerationInv, NEW a \in Admins, CommitChange(a)
  PROVE  ModerationInv'
<1>1. panel[a].pc = "changing" /\ Changing(a)
  BY DEF CommitChange, Changing
<1>2. /\ panel \in [Admins -> Handlers]
      /\ panel[a] \in [pc : {"changing", "applying"}, change : Changes, seen : Settings]
  BY <1>1, HandlerHolds
<1>3. PICK change \in Changes, seen \in Settings : change = panel[a].change /\ seen = panel[a].seen
  BY <1>2
<1>4. /\ stored' = Written(seen, change)
      /\ panel' = [panel EXCEPT ![a] = [panel[a] EXCEPT !.pc = "applying"]]
      /\ UNCHANGED <<work, queue, runtime, mutes, restricted, trace>>
  BY <1>3 DEF CommitChange, Panel
<1>5. /\ panel' \in [Admins -> Handlers]
      /\ panel'[a].pc = "applying" /\ panel'[a].change = change /\ panel'[a].seen = seen
      /\ \A b \in Admins : b # a => panel'[b] = panel[b]
  <2>1. [panel[a] EXCEPT !.pc = "applying"] \in [pc : {"changing", "applying"}, change : Changes, seen : Settings]
    BY <1>2
  <2>2. [panel[a] EXCEPT !.pc = "applying"] \in Handlers
    BY <2>1 DEF Handlers
  <2>3. panel'[a] = [panel[a] EXCEPT !.pc = "applying"]
    BY <1>2, <1>4
  <2>4. panel' \in [Admins -> Handlers] /\ \A b \in Admins : b # a => panel'[b] = panel[b]
    BY <1>2, <1>4, <2>2
  <2> QED  BY <1>2, <1>3, <2>3, <2>4
<1>6. Typed'
  <2>1. stored \in Settings
    BY DEF ModerationInv, Typed
  <2>2. stored' \in Settings
    BY <1>4, <2>1, ChangedIsSettings DEF Written
  <2> QED  BY <1>4, <1>5, <2>2 DEF ModerationInv, Typed, Table
<1>7. Waiting'
  BY <1>4, WaitOn
<1>8. ASSUME NEW u \in Users PROVE UserOK(u)'
  <2>1. ~Lifting(a) /\ ~Lifting(a)'
    BY <1>1, <1>5 DEF Lifting
  <2> QED  BY <1>4, <1>5, <2>1, ChangeApart
<1>9. SettingsOK'
  <2> SUFFICES ASSUME trace'["settings"] # "mixed" PROVE SettingsOK'
    BY DEF SettingsOK
  <2>1. /\ \A b, c \in Admins : Changing(b) /\ Changing(c) => b = c
        /\ seen = stored
    BY <1>1, <1>3, <1>4 DEF ModerationInv, SettingsOK
  <2>2. \A b \in Admins : b # a => panel'[b].pc \notin {"changing", "applying"}
    BY <1>1, <1>5, <2>1 DEF Changing
  <2>3. \A b, c \in Admins : Changing(b)' /\ Changing(c)' => b = c
    BY <2>2 DEF Changing
  <2>4. stored' = Changed(seen, change)
    BY <1>4, <2>1 DEF Written
  <2>5. ASSUME NEW b \in Admins
        PROVE  /\ panel'[b].pc # "changing"
               /\ panel'[b].pc = "applying" => stored' = Changed(panel'[b].seen, panel'[b].change)
    BY <1>5, <2>2, <2>4
  <2>6. ~(\A b \in Admins : panel'[b].pc # "applying")
    BY <1>5
  <2>7. \A b \in Admins : (panel[b].pc = "applying" => stored = Changed(panel[b].seen, panel[b].change))'
    BY <2>5 DEF Changed
  <2> QED  BY <2>3, <2>5, <2>6, <2>7 DEF SettingsOK
<1> QED  BY <1>6, <1>7, <1>8, <1>9 DEF ModerationInv
\* A change ends, used or not.
LEMMA ChangeEndsKeeps ==
  ASSUME ModerationInv, NEW a \in Admins, ChangeFails(a) \/ UseChange(a)
  PROVE  ModerationInv'
<1>1. Changing(a) /\ panel[a].pc = IF ChangeFails(a) THEN "changing" ELSE "applying"
  BY DEF ChangeFails, UseChange, Changing
<1>2. /\ panel \in [Admins -> Handlers]
      /\ panel[a] \in [pc : {"changing", "applying"}, change : Changes, seen : Settings]
  BY <1>1, HandlerHolds
<1>3. /\ panel' = [panel EXCEPT ![a] = Idle]
      /\ UNCHANGED <<work, queue, stored, mutes, restricted>>
  BY DEF ChangeFails, UseChange, Panel
<1>4. PICK outcome \in {"nothing", "done"} :
        /\ trace' = Ended(trace, "settings", outcome)
        /\ outcome = "nothing" => panel[a].pc = "changing" /\ runtime' = runtime
        /\ outcome = "done" =>
             panel[a].pc = "applying" /\ runtime' = Changed(panel[a].seen, panel[a].change)
  <2>1. CASE ChangeFails(a)
    BY <2>1 DEF ChangeFails
  <2>2. CASE UseChange(a)
    BY <2>2 DEF UseChange
  <2> QED  BY <2>1, <2>2
<1>5. /\ trace' \in Traces
      /\ \A y \in Users \cup {"settings"} : y # "settings" => trace'[y] = trace[y]
      /\ trace'["settings"] # "mixed" => ~(Operations("settings") > 1)
      /\ trace'["settings"] = "agree" =>
           trace["settings"] # "mixed" /\ (outcome = "nothing" => trace["settings"] = "agree")
  <2>1. trace \in Traces
    BY DEF ModerationInv, Typed, Traces
  <2>2. outcome \in Outcomes
    BY DEF Outcomes
  <2>3. AsEnded(trace, "settings", outcome)
    BY <2>1, <2>2, MarkedEnded
  <2> QED  BY <1>4, <2>3 DEF AsEnded
<1>6. /\ panel' \in [Admins -> Handlers]
      /\ panel'[a] = Idle
      /\ \A b \in Admins : b # a => panel'[b] = panel[b]
  BY <1>2, <1>3 DEF Handlers
<1>7. runtime' \in Settings
  <2>1. Changed(panel[a].seen, panel[a].change) \in Settings
    BY <1>2, ChangedIsSettings
  <2>2. runtime \in Settings
    BY DEF ModerationInv, Typed
  <2> QED  BY <1>4, <2>1, <2>2
<1>8. Typed'
  BY <1>3, <1>5, <1>6, <1>7 DEF ModerationInv, Typed, Table, Traces
<1>9. Waiting'
  BY <1>3, WaitOn
<1>10. ASSUME NEW u \in Users PROVE UserOK(u)'
  <2>1. ~Lifting(a) /\ ~Lifting(a)'
    BY <1>1, <1>6 DEF Lifting, Changing, Idle
  <2>2. trace'[u] = trace[u]
    BY <1>5, ModerationAssumption
  <2> QED  BY <1>3, <1>6, <2>1, <2>2, ChangeApart
<1>11. SettingsOK'
  <2> SUFFICES ASSUME trace'["settings"] # "mixed" PROVE SettingsOK'
    BY DEF SettingsOK
  <2>1. Operations("settings") \in Nat /\ ~(Operations("settings") > 1)
    BY <1>5, OperationsOnSettings
  <2>2. \A b, c \in Admins : Changing(b) /\ Changing(c) => b = c
    BY <2>1, OperationsOnSettings
  <2>3. \A b \in Admins : panel'[b].pc \notin {"changing", "applying"}
    BY <1>1, <1>6, <2>2 DEF Changing, Idle
  <2>4. \A b \in Admins : ~Changing(b)'
    BY <2>3 DEF Changing
  <2>5. ASSUME trace'["settings"] = "agree" PROVE runtime' = stored'
    <3>1. trace["settings"] # "mixed"
      BY <1>5, <2>5
    <3>2. CASE outcome = "nothing"
      <4>1. trace["settings"] = "agree"
        BY <1>5, <2>5, <3>2
      <4>2. \A b \in Admins : panel[b].pc # "applying"
        BY <1>1, <1>4, <2>2, <3>2 DEF Changing
      <4> QED  BY <1>3, <1>4, <3>2, <4>1, <4>2 DEF ModerationInv, SettingsOK
    <3>3. CASE outcome = "done"
      <4>1. stored = Changed(panel[a].seen, panel[a].change)
        BY <1>4, <3>1, <3>3 DEF ModerationInv, SettingsOK
      <4> QED  BY <1>3, <1>4, <3>3, <4>1
    <3> QED  BY <3>2, <3>3
  <2> QED  BY <2>3, <2>4, <2>5 DEF SettingsOK
<1> QED  BY <1>8, <1>9, <1>10, <1>11 DEF ModerationInv

-----------------------------------------------------------------------------
(* Time passes; the process restarts.                                       *)

\* Restrictions and rows run out together.
LEMMA TickKeeps ==
  ASSUME ModerationInv, Tick
  PROVE  ModerationInv'
<1>1. /\ work \in [Messages -> [stage : Stages, left : Nat, row : Nat]]
      /\ restricted \in [Users -> Nat] /\ Table(mutes)
  BY DEF ModerationInv, Typed
<1>2. \A n \in Nat : Sooner(n) \in Nat
  BY DEF Sooner
<1>3. UNCHANGED <<queue, runtime, stored, panel, trace>>
  BY DEF Tick
<1>4. /\ restricted' \in [Users -> Nat]
      /\ \A u \in Users : restricted'[u] = Sooner(restricted[u])
  BY <1>1, <1>2 DEF Tick
<1>5. /\ work' \in [Messages -> [stage : Stages, left : Nat, row : Nat]]
      /\ \A m \in Messages : work'[m].stage = work[m].stage /\ work'[m].left = Sooner(work[m].left)
  <2>1. work' = [m \in Messages |-> [work[m] EXCEPT !.left = Sooner(work[m].left)]]
    BY DEF Tick
  <2>2. ASSUME NEW m \in Messages
        PROVE  /\ work'[m] \in [stage : Stages, left : Nat, row : Nat]
               /\ work'[m].stage = work[m].stage /\ work'[m].left = Sooner(work[m].left)
    BY <1>1, <1>2, <2>1
  <2> QED  BY <2>1, <2>2
<1>6. /\ mutes' = [i \in DOMAIN mutes' |-> mutes'[i]] /\ DOMAIN mutes' = DOMAIN mutes
      /\ \A i \in DOMAIN mutes :
           /\ mutes'[i] \in [user : Users, left : Nat]
           /\ mutes'[i].user = mutes[i].user /\ mutes'[i].left = Sooner(mutes[i].left)
  <2>1. mutes' = [i \in DOMAIN mutes |-> [mutes[i] EXCEPT !.left = Sooner(mutes[i].left)]]
    BY DEF Tick
  <2>2. ASSUME NEW i \in DOMAIN mutes
        PROVE  /\ mutes'[i] \in [user : Users, left : Nat]
               /\ mutes'[i].user = mutes[i].user /\ mutes'[i].left = Sooner(mutes[i].left)
    <3>1. mutes[i] \in [user : Users, left : Nat]
      BY <1>1 DEF Table
    <3> QED  BY <1>2, <2>1, <3>1
  <2> QED  BY <2>1, <2>2
<1>7. Table(mutes)'
  BY <1>1, <1>6 DEF Table
<1>8. Typed'
  BY <1>3, <1>4, <1>5, <1>7 DEF ModerationInv, Typed
<1>9. Waiting'
  BY <1>3, <1>5, WaitOn
<1>10. SettingsOK'
  BY <1>3, MessageApartFromSettings
<1>11. ASSUME NEW u \in Users PROVE UserOK(u)'
  <2> SUFFICES ASSUME trace'[u] # "mixed"
               PROVE  /\ Alone(u)' /\ MuteStands(u)' /\ LiftStands(u)'
                      /\ trace'[u] = "agree" => Untouched(u)'
    BY DEF UserOK
  <2>1. /\ Alone(u) /\ MuteStands(u) /\ LiftStands(u)
        /\ trace'[u] = "agree" => Untouched(u)
    BY <1>3 DEF ModerationInv, UserOK
  <2>2. /\ \A m \in Messages : (MutesNow(m, u)' <=> MutesNow(m, u)) /\ (Halfway(m)' <=> Halfway(m))
        /\ \A a \in Admins : LiftsNow(a, u)' <=> LiftsNow(a, u)
    BY <1>3, <1>5 DEF MutesNow, Muting, Halfway, LiftsNow, Lifting
  <2>3. MuteOf(u)' = MuteOf(u)
    BY <1>6 DEF MuteOf
  <2>4. Listed(u)' = Sooner(Listed(u))
    <3>1. CASE MuteOf(u) = {}
      BY <1>1, <1>7, <2>3, <3>1, ListedRow, ListedRowNext DEF Sooner
    <3>2. CASE MuteOf(u) # {}
      <4>1. PICK i \in MuteOf(u) : TRUE
        BY <3>2
      <4>2. Listed(u) = mutes[i].left /\ Listed(u)' = mutes'[i].left
        BY <1>1, <1>7, <2>3, <4>1, ListedRow, ListedRowNext
      <4> QED  BY <1>6, <4>1, <4>2 DEF MuteOf
    <3> QED  BY <3>1, <3>2
  <2>5. Alone(u)'
    BY <2>1, <2>2 DEF Alone
  <2>6. MuteStands(u)'
    BY <1>4, <1>5, <2>1, <2>2 DEF MuteStands
  <2>7. LiftStands(u)'
    BY <1>3, <1>4, <2>1, <2>2, <2>3 DEF LiftStands, Sooner
  <2>8. ASSUME trace'[u] = "agree" PROVE Untouched(u)'
    BY <1>3, <1>4, <2>1, <2>2, <2>4, <2>8 DEF Untouched
  <2> QED  BY <2>5, <2>6, <2>7, <2>8
<1> QED  BY <1>8, <1>9, <1>10, <1>11 DEF ModerationInv

\* What was under way is gone, and its authors are marked.
LEMMA RestartKeeps ==
  ASSUME ModerationInv, Restart
  PROVE  ModerationInv'
<1>1. /\ queue' = <<>> /\ runtime' = stored
      /\ panel' = [a \in Admins |-> Idle]
      /\ UNCHANGED <<stored, mutes, restricted>>
  BY DEF Restart
<1>2. /\ work' \in [Messages -> [stage : Stages, left : Nat, row : Nat]]
      /\ \A m \in Messages : work'[m].stage \in {"unsent", "over"}
  <2>1. Unsent \in [stage : Stages, left : Nat, row : Nat] /\ Over \in [stage : Stages, left : Nat, row : Nat]
    BY DEF Unsent, Over, Stages, NoRow
  <2>2. Unsent.stage = "unsent" /\ Over.stage = "over"
    BY DEF Unsent, Over
  <2>3. PICK again \in BOOLEAN :
          work' = [m \in Messages |->
            IF work[m].stage = "unsent" \/ (again /\ m \notin Media /\ work[m].stage # "over")
            THEN Unsent ELSE Over]
    BY DEF Restart
  <2>4. \A m \in Messages : work'[m] = Unsent \/ work'[m] = Over
    BY <2>3
  <2> QED  BY <2>1, <2>2, <2>3, <2>4
<1>3. /\ trace' \in Traces
      /\ trace'["settings"] = "agree"
      /\ \A u \in Users : trace'[u] = IF Operations(u) > 0 THEN "differ" ELSE trace[u]
  <2>1. trace \in Traces
    BY DEF ModerationInv, Typed, Traces
  <2>2. trace' = [x \in Users \cup {"settings"} |->
                    IF x = "settings" THEN "agree"
                    ELSE IF Operations(x) > 0 THEN "differ" ELSE trace[x]]
    BY <2>1 DEF Restart, Traces
  <2>3. trace' \in Traces
    BY <2>1, <2>2 DEF Traces
  <2> QED  BY <2>2, <2>3, ModerationAssumption
<1>4. Typed'
  BY <1>1, <1>2, <1>3 DEF ModerationInv, Typed, Table, Traces, Handlers
<1>5. Waiting'
  BY <1>1 DEF Waiting
<1>6. \A a \in Admins : panel'[a].pc = "idle"
  BY <1>1 DEF Idle
<1>7. SettingsOK'
  <2>1. \A a \in Admins : ~Changing(a)'
    BY <1>6 DEF Changing
  <2> QED  BY <1>1, <1>6, <2>1 DEF SettingsOK
<1>8. ASSUME NEW u \in Users PROVE UserOK(u)'
  <2>1. /\ \A m \in Messages : ~MutesNow(m, u)'
        /\ \A a \in Admins : ~LiftsNow(a, u)'
    BY <1>2, <1>6 DEF MutesNow, Muting, LiftsNow, Lifting
  <2>2. ASSUME trace'[u] = "agree" PROVE restricted'[u] = Listed(u)'
    <3>1. trace[u] = "agree" /\ ~(Operations(u) > 0)
      BY <1>3, <2>2
    <3>2. /\ \A m \in Messages : ~MutesNow(m, u)
          /\ \A a \in Admins : ~LiftsNow(a, u)
      BY <3>1, OperationsOn
    <3>3. Untouched(u)
      BY <3>1 DEF ModerationInv, UserOK
    <3>4. restricted[u] = Listed(u)
      BY <3>2, <3>3 DEF Untouched, MutesNow, Muting, Halfway
    <3> QED  BY <1>1, <3>4 DEF Listed, MuteOf
  <2> QED  BY <2>1, <2>2, NoneLeft
<1> QED  BY <1>4, <1>5, <1>7, <1>8 DEF ModerationInv

-----------------------------------------------------------------------------
(* The theorems.                                                            *)

\* It holds before the first message.
LEMMA ModerationInit ==
  ASSUME Init
  PROVE  ModerationInv
<1>1. /\ work = [m \in Messages |-> Unsent] /\ queue = <<>>
      /\ stored \in Settings /\ runtime = stored
      /\ mutes = <<>> /\ restricted = [u \in Users |-> 0]
      /\ panel = [a \in Admins |-> Idle]
      /\ trace = [x \in Users \cup {"settings"} |-> "agree"]
  BY DEF Init
<1>2. /\ work \in [Messages -> [stage : Stages, left : Nat, row : Nat]]
      /\ \A m \in Messages : work[m].stage = "unsent"
  BY <1>1 DEF Unsent, Stages, NoRow
<1>3. DOMAIN mutes = {} /\ mutes = [i \in DOMAIN mutes |-> mutes[i]]
  BY <1>1
<1>4. Table(mutes)
  <2>1. \E n \in Nat : \A i \in DOMAIN mutes : i <= n
    <3>1. 0 \in Nat /\ \A i \in DOMAIN mutes : i <= 0
      BY <1>3
    <3> QED  BY <3>1
  <2> QED  BY <1>3, <2>1 DEF Table
<1>5. Typed
  BY <1>1, <1>2, <1>4 DEF Typed, Handlers
<1>6. Waiting
  BY <1>1 DEF Waiting
<1>7. \A a \in Admins : panel[a].pc = "idle"
  BY <1>1 DEF Idle
<1>8. SettingsOK
  BY <1>1, <1>7 DEF SettingsOK, Changing
<1>9. ASSUME NEW u \in Users PROVE UserOK(u)
  <2>1. /\ \A m \in Messages : ~MutesNow(m, u) /\ ~Halfway(m)
        /\ \A a \in Admins : ~LiftsNow(a, u)
    BY <1>2, <1>7 DEF MutesNow, Muting, Halfway, LiftsNow, Lifting
  <2>2. MuteOf(u) = {}
    BY <1>3 DEF MuteOf
  <2>3. restricted[u] = Listed(u)
    BY <1>1, <1>4, <2>2, ListedRow
  <2> QED  BY <2>1, <2>3 DEF UserOK, Alone, MuteStands, LiftStands, Untouched
<1> QED  BY <1>5, <1>6, <1>8, <1>9 DEF ModerationInv

\* Every step keeps it ...
LEMMA ModerationStep ==
  ASSUME ModerationInv, [Next]_vars
  PROVE  ModerationInv'
<1>1. ASSUME NEW m \in Messages, Arrive(m) PROVE ModerationInv'
  BY <1>1, ArriveKeeps
<1>2. ASSUME NEW m \in Messages, Moderate(m) PROVE ModerationInv'
  BY <1>2, JudgedKeeps, BeginMuteKeeps, RestrictAuthorKeeps, RestrictFailsKeeps, FindRowKeeps,
     RecordKeeps, RecordFailsKeeps DEF Moderate
<1>3. ASSUME NEW a \in Admins, Administer(a) PROVE ModerationInv'
  BY <1>3, BeginLiftKeeps, RestoreKeeps, LiftFailsKeeps, RemoveKeeps, BeginChangeKeeps,
     CommitChangeKeeps, ChangeEndsKeeps DEF Administer
<1>4. CASE Take
  BY <1>4, TakeKeeps
<1>5. CASE Tick
  BY <1>5, TickKeeps
<1>6. CASE Restart
  BY <1>6, RestartKeeps
<1>7. CASE UNCHANGED vars
  <2>1. UNCHANGED <<work, queue, runtime, stored, mutes, restricted, panel, trace>>
    BY <1>7 DEF vars
  <2>2. Waiting'
    BY <2>1, WaitOn
  <2>3. \A m \in Messages : (Muting(m)' <=> Muting(m)) /\ (Halfway(m)' <=> Halfway(m))
    BY <2>1 DEF Muting, Halfway
  <2> QED  BY <2>1, <2>2, <2>3, MovedOn DEF ModerationInv, Typed
<1> QED  BY <1>1, <1>2, <1>3, <1>4, <1>5, <1>6, <1>7 DEF Next

\* ... so it always holds.
LEMMA ModerationAlways == Spec => []ModerationInv
<1>1. Init => ModerationInv
  BY ModerationInit
<1>2. ModerationInv /\ [Next]_vars => ModerationInv'
  BY ModerationStep
<1> QED  BY <1>1, <1>2, PTL DEF Spec

\* The list administrators see tells the truth about every author on whom the
\* operations kept apart and went through: in whatever order messages are
\* moderated, mutes lifted, calls fail and the process restarts.
THEOREM ListTrue == Spec => []ListMatchesTelegram
<1>1. ASSUME ModerationInv PROVE ListMatchesTelegram
  <2> SUFFICES ASSUME NEW u \in Users, trace[u] = "agree", Operations(u) = 0
               PROVE  restricted[u] = Listed(u)
    BY DEF ListMatchesTelegram
  <2>1. /\ \A m \in Messages : ~MutesNow(m, u)
        /\ \A a \in Admins : ~LiftsNow(a, u)
    BY OperationsOn
  <2>2. Untouched(u)
    BY <1>1 DEF ModerationInv, UserOK
  <2> QED  BY <2>1, <2>2 DEF Untouched, MutesNow, Muting, Halfway
<1> QED  BY <1>1, ModerationAlways, PTL

\* The filter runs with the settings that are stored unless two changes
\* overlapped: one that fails is not used, one that is used is stored.
THEOREM RuntimeTrue == Spec => []RuntimeMatchesStored
<1>1. ASSUME ModerationInv PROVE RuntimeMatchesStored
  <2> SUFFICES ASSUME trace["settings"] = "agree", Operations("settings") = 0
               PROVE  runtime = stored
    BY DEF RuntimeMatchesStored
  <2>1. \A a \in Admins : ~Changing(a)
    BY OperationsOnSettings
  <2> QED  BY <1>1, <2>1 DEF ModerationInv, SettingsOK, Changing
<1> QED  BY <1>1, ModerationAlways, PTL
====
