----------------------- MODULE SecurityMonitorProofs -----------------------
(***************************************************************************)
(* Theorems about SecurityMonitor, for any configurations, number of       *)
(* incidents kept, updates and faults, and any of its thresholds; and      *)
(* about the files of JSON lines, AuditTrail and ConversationLog, for any  *)
(* number of writers, chats, backups and records.                          *)
(***************************************************************************)
EXTENDS SecurityMonitor, AuditTrail, ConversationLog, SequenceTheorems,
        FiniteSetTheorems, TLAPS

-----------------------------------------------------------------------------
(* The choices of the model exist.                                          *)

\* A set of numbers that is not empty has a least one.
LEMMA LeastIn ==
  ASSUME NEW T \in SUBSET Nat, T # {}
  PROVE  \E x \in T : \A y \in T : x <= y
<1> DEFINE R == OpToRel(<, Nat)
<1>1. \A x, y \in Nat : y < x => <<y, x>> \in R
  BY DEF OpToRel
<1>2. IsWellFoundedOn(R, Nat)
  BY NatLessThanWellFounded
<1> HIDE DEF R
<1>3. PICK x \in T : \A y \in T : <<y, x>> \notin R
  BY <1>2, WFMin
<1>4. ASSUME NEW y \in T PROVE x <= y
  <2>1. ~(y < x)
    BY <1>1, <1>3
  <2> QED  BY <2>1
<1> QED  BY <1>4

\* The newest of some updates is one of them and none is newer.
LEMMA NewestOf ==
  ASSUME NEW S \in SUBSET (1..MaxUpdates)
  PROVE  /\ Newest(S) \in 0..MaxUpdates
         /\ \A u \in S : u <= Newest(S)
         /\ Newest(S) # 0 => Newest(S) \in S
<1>1. CASE S = {}
  BY <1>1, SecurityMonitorAssumption DEF Newest
<1>2. CASE S # {}
  <2> DEFINE room == {MaxUpdates - u : u \in S}
  <2>1. MaxUpdates \in Nat /\ \A u \in S : u \in 1..MaxUpdates /\ MaxUpdates - u \in Nat
    BY SecurityMonitorAssumption
  <2>2. room \in SUBSET Nat /\ room # {}
    BY <1>2, <2>1
  <2>3. PICK r \in room : \A x \in room : r <= x
    <3> HIDE DEF room
    <3> QED  BY <2>2, LeastIn
  <2>4. PICK u \in S : r = MaxUpdates - u
    OBVIOUS
  <2>5. ASSUME NEW v \in S PROVE v <= u
    <3>1. MaxUpdates - v \in room
      OBVIOUS
    <3>2. r <= MaxUpdates - v
      BY <2>3, <3>1
    <3> HIDE DEF room
    <3> QED  BY <2>1, <2>4, <3>2
  <2> HIDE DEF room
  <2>6. Newest(S) \in S /\ \A v \in S : v <= Newest(S)
    BY <1>2, <2>5 DEF Newest
  <2>7. Newest(S) \in 1..MaxUpdates
    BY <2>6
  <2>8. Newest(S) \in 0..MaxUpdates
    BY <2>1, <2>7
  <2> QED  BY <2>6, <2>8
<1> QED  BY <1>1, <1>2

\* What a new incident is named by is in use for no other: there are more
\* names than incidents on file, the current one and the one being repaired.
LEMMA UnusedIsFree ==
  ASSUME TypeOK
  PROVE  /\ Unused \in Ids
         /\ \A i \in DOMAIN file.incidents : file.incidents[i].id # Unused
<1> DEFINE n     == Len(file.incidents)
           used  == {file.incidents[i].id : i \in DOMAIN file.incidents}
                      \cup {file.current, mon.incident}
           slots == 1..(MaxIncidents + 2)
           slot  == [id \in Ids |->
                      IF id = file.current THEN MaxIncidents + 1
                      ELSE IF id = mon.incident THEN MaxIncidents + 2
                      ELSE CHOOSE i \in 1..n : file.incidents[i].id = id]
           free  == Ids \ used
<1>1. MaxIncidents \in Nat /\ n \in 0..MaxIncidents /\ DOMAIN file.incidents = 1..n
  BY SecurityMonitorAssumption, LenProperties DEF TypeOK, Files
<1>2. free # {}
  <2> SUFFICES ASSUME free = {} PROVE FALSE
    OBVIOUS
  <2>1. \A id \in Ids : id = file.current \/ id = mon.incident
                          \/ \E i \in 1..n : file.incidents[i].id = id
    BY <1>1
  <2> HIDE DEF free, used, n
  <2>2. ASSUME NEW id \in Ids, id # file.current, id # mon.incident
        PROVE  slot[id] \in 1..n /\ file.incidents[slot[id]].id = id
    BY <2>1, <2>2
  <2>3. slot \in [Ids -> slots]
    <3> SUFFICES ASSUME NEW id \in Ids PROVE slot[id] \in slots
      OBVIOUS
    <3>1. CASE id = file.current
      BY <1>1, <3>1
    <3>2. CASE id # file.current /\ id = mon.incident
      BY <1>1, <3>2
    <3>3. CASE id # file.current /\ id # mon.incident
      <4>1. slot[id] \in 1..n
        BY <2>2, <3>3
      <4> HIDE DEF slot
      <4> QED  BY <1>1, <4>1
    <3> QED  BY <3>1, <3>2, <3>3
  <2>4. /\ IsFiniteSet(Ids) /\ Cardinality(Ids) = MaxIncidents + 3
        /\ IsFiniteSet(slots) /\ Cardinality(slots) = MaxIncidents + 2
    <3>1. MaxIncidents + 3 \in Int /\ MaxIncidents + 2 \in Int /\ 1 \in Int
      BY <1>1
    <3>2. /\ IsFiniteSet(1..(MaxIncidents + 3)) /\ IsFiniteSet(1..(MaxIncidents + 2))
          /\ Cardinality(1..(MaxIncidents + 3)) =
               IF 1 > MaxIncidents + 3 THEN 0 ELSE (MaxIncidents + 3) - 1 + 1
          /\ Cardinality(1..(MaxIncidents + 2)) =
               IF 1 > MaxIncidents + 2 THEN 0 ELSE (MaxIncidents + 2) - 1 + 1
      BY <3>1, FS_Interval
    <3> QED  BY <1>1, <3>2 DEF Ids
  <2>5. ASSUME NEW x \in Ids, NEW y \in Ids, x # y PROVE slot[x] # slot[y]
    <3>1. \A id \in Ids :
            \/ id = file.current /\ slot[id] = MaxIncidents + 1
            \/ id = mon.incident /\ slot[id] = MaxIncidents + 2
            \/ slot[id] \in 1..n /\ file.incidents[slot[id]].id = id
      BY <2>2
    <3> HIDE DEF slot
    <3> QED  BY <1>1, <2>5, <3>1
  <2> HIDE DEF slot, slots
  <2>6. Cardinality(slots) < Cardinality(Ids)
    BY <1>1, <2>4
  <2>7. \E x, y \in Ids : x # y /\ slot[x] = slot[y]
    BY <2>3, <2>4, <2>6, FS_PigeonHole
  <2> QED  BY <2>5, <2>7
<1>3. free \in SUBSET Nat
  BY DEF Ids
<1>4. PICK id \in free : \A other \in free : id <= other
  <2> HIDE DEF free
  <2> QED  BY <1>2, <1>3, LeastIn
<1>5. /\ id \in Ids /\ id \notin used
      /\ \A other \in Ids : other < id => other \in used
  BY <1>4 DEF Ids
<1>6. Unused \in Ids /\ Unused \notin used
  BY <1>5 DEF Unused
<1> QED  BY <1>6

-----------------------------------------------------------------------------
(* Alerts.                                                                  *)

Pcs   == {"me", "info", "delete", "verify", "profile", "restore", "heartbeat",
          "sending", "started", "sleep", "raised", "off"}
Nexts == {"info", "delete", "restore", "heartbeat", "started", "raised", "sleep"}

\* The monitor is m but for where it is and what it has noted of alerts, and
\* the file is f but for that: it went on to next, or is sending key first.
GoesOn(m, f, key, next) ==
  /\ mon' \in Monitors /\ file' \in Files
  /\ \/ mon'.pc = next
     \/ mon'.pc = "sending" /\ mon'.key = key /\ mon'.next = next
  /\ mon'.incident = m.incident /\ mon'.told = m.told
  /\ mon'.sawEmpty = m.sawEmpty
  /\ file'.incidents = f.incidents /\ file'.current = f.current
  /\ file'.lastEmpty = f.lastEmpty
  /\ file'.maxReceived = f.maxReceived /\ file'.maxCompleted = f.maxCompleted

\* Notes of alerts stay what they are, when one is added and when they age.
LEMMA NotesTyped ==
  ASSUME NEW notes \in Sendings
  PROVE  /\ Aged(notes) \in Sendings
         /\ \A key \in Keys, rank \in Ranks : Noted(notes, key, rank) \in Sendings
<1>1. TenMinutes \in Nat \ {0} /\ Long \in [age : 0..TenMinutes, rank : Ranks]
  BY SecurityMonitorAssumption DEF Long, None, Ranks
<1>2. \A k \in Keys : notes[k] \in [age : 0..TenMinutes, rank : Ranks]
  BY DEF Sendings
<1>3. Aged(notes) \in Sendings
  <2> SUFFICES ASSUME NEW k \in Keys
               PROVE  (IF notes[k].age + 1 < TenMinutes
                       THEN [notes[k] EXCEPT !.age = @ + 1] ELSE Long)
                         \in [age : 0..TenMinutes, rank : Ranks]
    BY DEF Aged, Sendings
  <2>1. notes[k] \in [age : 0..TenMinutes, rank : Ranks]
    BY <1>2
  <2> QED  BY <1>1, <2>1
<1>4. ASSUME NEW key \in Keys, NEW rank \in Ranks
      PROVE  Noted(notes, key, rank) \in Sendings
  <2>1. [age |-> 0, rank |-> rank] \in [age : 0..TenMinutes, rank : Ranks]
    BY <1>1
  <2> QED  BY <2>1 DEF Noted, Sendings
<1> QED  BY <1>3, <1>4

\* Raising an alert goes on at once or by way of sending it.
LEMMA RaiseGoesOn ==
  ASSUME NEW m \in Monitors, NEW f \in Files, NEW key \in Keys, NEW rank \in Ranks,
         NEW next \in Nexts, Raise(m, f, key, rank, next)
  PROVE  GoesOn(m, f, key, next)
<1>1. m.lastSent \in Sendings /\ f.alerts \in Sendings
  BY DEF Monitors, Files
<1>2. /\ Noted(m.lastSent, key, rank) \in Sendings
      /\ Noted(f.alerts, key, rank) \in Sendings
  BY <1>1, NotesTyped
<1>3. CASE mon' = [m EXCEPT !.pc = next] /\ file' = f
  BY <1>3 DEF GoesOn, Monitors, Nexts
<1>4. CASE /\ mon' = [m EXCEPT !.pc = "sending", !.key = key, !.next = next,
                               !.lastSent = IF diskOk THEN @ ELSE Noted(@, key, rank)]
           /\ file' = IF diskOk THEN [f EXCEPT !.alerts = Noted(@, key, rank)] ELSE f
  <2>1. mon' \in Monitors /\ mon'.pc = "sending" /\ mon'.key = key /\ mon'.next = next
        /\ mon'.incident = m.incident /\ mon'.told = m.told /\ mon'.sawEmpty = m.sawEmpty
    BY <1>1, <1>2, <1>4 DEF Monitors, Nexts
  <2>2. /\ file' \in Files
        /\ file'.incidents = f.incidents /\ file'.current = f.current
        /\ file'.lastEmpty = f.lastEmpty
        /\ file'.maxReceived = f.maxReceived /\ file'.maxCompleted = f.maxCompleted
    BY <1>1, <1>2, <1>4 DEF Files
  <2> QED  BY <2>1, <2>2 DEF GoesOn
<1>5. \/ mon' = [m EXCEPT !.pc = next] /\ file' = f
      \/ /\ mon' = [m EXCEPT !.pc = "sending", !.key = key, !.next = next,
                               !.lastSent = IF diskOk THEN @ ELSE Noted(@, key, rank)]
         /\ file' = IF diskOk THEN [f EXCEPT !.alerts = Noted(@, key, rank)] ELSE f
  BY Zenon DEF Raise
<1> QED  BY <1>3, <1>4, <1>5

\* So does going on without one.
LEMMA GotoGoesOn ==
  ASSUME NEW m \in Monitors, NEW f \in Files, NEW next \in Pcs \ {"sending"},
         Goto(m, f, next)
  PROVE  GoesOn(m, f, "none", next) /\ mon'.pc = next
BY DEF Goto, GoesOn, Monitors, Pcs

-----------------------------------------------------------------------------
(* Incidents on file.                                                       *)

\* No two incidents on file have the same name.
Distinct(f) ==
  \A i, j \in DOMAIN f.incidents : f.incidents[i].id = f.incidents[j].id => i = j

\* The incidents on file that were detected and neither repaired nor failed.
Open(f) ==
  {f.incidents[i].id : i \in {k \in DOMAIN f.incidents : f.incidents[k].status = "detected"}}

\* The same incidents are on file, with the same first updates.
SameIncidents(f, g) ==
  /\ DOMAIN g.incidents = DOMAIN f.incidents
  /\ \A i \in DOMAIN f.incidents : /\ g.incidents[i].id = f.incidents[i].id
                                   /\ g.incidents[i].recovered = f.incidents[i].recovered

\* What the file records of updates and of the webhook is the same.
SameMarks(f, g) ==
  /\ g.current = f.current /\ g.lastEmpty = f.lastEmpty
  /\ g.maxReceived = f.maxReceived /\ g.maxCompleted = f.maxCompleted

\* Incidents are a sequence, and one rewritten at each place is one.
LEMMA Rewritten ==
  ASSUME NEW s \in Seq(Incidents), NEW t,
         DOMAIN t = DOMAIN s, t = [i \in DOMAIN s |-> t[i]],
         \A i \in DOMAIN s : t[i] \in Incidents
  PROVE  t \in Seq(Incidents) /\ Len(t) = Len(s)
<1>1. Len(s) \in Nat /\ DOMAIN s = 1..Len(s)
  BY LenProperties
<1>2. t \in [1..Len(s) -> Incidents]
  BY <1>1
<1>3. t \in Seq(Incidents)
  BY <1>1, <1>2, SeqDef
<1> QED
  <2>1. Len(t) \in Nat /\ DOMAIN t = 1..Len(t)
    BY <1>3, LenProperties
  <2> QED  BY <1>1, <1>3, <2>1

\* What is left of a sequence from some place on.
LEMMA SuffixOf ==
  ASSUME NEW S, NEW s \in Seq(S), NEW first \in 1..Len(s)
  PROVE  /\ SubSeq(s, first, Len(s)) \in Seq(S)
         /\ Len(SubSeq(s, first, Len(s))) = Len(s) - first + 1
         /\ \A i \in 1..(Len(s) - first + 1) :
              SubSeq(s, first, Len(s))[i] = s[first + i - 1]
<1>1. PICK last : last = Len(s)
  OBVIOUS
<1>2. last \in Int /\ first \in Int /\ first <= last
  BY <1>1, LenProperties
<1>3. \A i \in first..last : s[i] \in S
  BY <1>1, <1>2, ElementOfSeq
<1>4. /\ SubSeq(s, first, last) \in Seq(S)
      /\ Len(SubSeq(s, first, last)) = IF first <= last THEN last - first + 1 ELSE 0
      /\ \A i \in 1..(last - first + 1) : SubSeq(s, first, last)[i] = s[first + i - 1]
  BY <1>2, <1>3, SubSeqProperties
<1> QED  BY <1>1, <1>2, <1>4

\* Opening an incident adds it under its name, drops the oldest at most and
\* keeps the others as they are.
LEMMA OpenedFile ==
  ASSUME NEW f \in Files, Len(f.incidents) <= MaxIncidents, NEW id \in Ids,
         \A i \in DOMAIN f.incidents : f.incidents[i].id # id
  PROVE  /\ Opened(f, id) \in Files /\ Len(Opened(f, id).incidents) <= MaxIncidents
         /\ Opened(f, id).current = id
         /\ Opened(f, id).lastEmpty = f.lastEmpty
         /\ Opened(f, id).maxReceived = f.maxReceived
         /\ Opened(f, id).maxCompleted = f.maxCompleted
         /\ Distinct(f) => Distinct(Opened(f, id))
         /\ Open(Opened(f, id)) \subseteq Open(f) \cup {id}
         /\ \A j \in DOMAIN Opened(f, id).incidents :
              \/ Opened(f, id).incidents[j].id = id
              \/ \E i \in DOMAIN f.incidents : Opened(f, id).incidents[j] = f.incidents[i]
<1> DEFINE n     == Len(f.incidents)
           new   == [id |-> id, age |-> 0, recovered |-> 0, status |-> "detected"]
           all   == Append(f.incidents, new)
           first == IF Len(all) > MaxIncidents THEN Len(all) - MaxIncidents + 1 ELSE 1
           kept  == SubSeq(all, first, Len(all))
           g     == Opened(f, id)
<1>1. /\ f.incidents \in Seq(Incidents) /\ n \in Nat /\ n <= MaxIncidents
      /\ DOMAIN f.incidents = 1..n /\ MaxIncidents \in Nat \ {0}
      /\ \A i \in 1..n : f.incidents[i] \in Incidents
  BY SecurityMonitorAssumption, LenProperties, ElementOfSeq DEF Files
<1>2. new \in Incidents
  BY SecurityMonitorAssumption DEF Incidents, Ages, Expired
<1>3. /\ all \in Seq(Incidents) /\ Len(all) = n + 1
      /\ \A i \in 1..n : all[i] = f.incidents[i]
      /\ all[n + 1] = new
  <2> HIDE DEF new
  <2> QED  BY <1>1, <1>2
<1> HIDE DEF all, new
<1>4. /\ first \in Nat /\ first >= 1 /\ first <= n + 1
      /\ (n + 1) - first + 1 <= MaxIncidents
  BY <1>1, <1>3
<1> HIDE DEF first
<1>5. /\ kept \in Seq(Incidents) /\ Len(kept) = n + 1 - first + 1
      /\ \A i \in 1..(n + 1 - first + 1) : kept[i] = all[first + i - 1]
  <2>1. all \in Seq(Incidents) /\ first \in 1..Len(all)
    BY <1>1, <1>3, <1>4
  <2>2. /\ kept \in Seq(Incidents) /\ Len(kept) = Len(all) - first + 1
        /\ \A i \in 1..(Len(all) - first + 1) : kept[i] = all[first + i - 1]
    BY <2>1, SuffixOf
  <2> HIDE DEF kept, n
  <2>3. Len(all) = n + 1
    BY <1>3
  <2>4. Len(kept) = n + 1 - first + 1
    BY <1>1, <1>4, <2>2, <2>3
  <2>5. ASSUME NEW i \in 1..(n + 1 - first + 1) PROVE kept[i] = all[first + i - 1]
    BY <1>1, <1>4, <2>2, <2>3, <2>5
  <2> QED  BY <2>2, <2>4, <2>5
<1>6. g = [f EXCEPT !.incidents = kept, !.current = id]
  BY DEF Opened, all, first, new
<1> HIDE DEF kept, g
<1>7. /\ g \in Files /\ g.incidents = kept /\ g.current = id
      /\ g.lastEmpty = f.lastEmpty
      /\ g.maxReceived = f.maxReceived /\ g.maxCompleted = f.maxCompleted
  BY <1>5, <1>6 DEF Files
<1>8. /\ Len(kept) <= MaxIncidents
      /\ DOMAIN kept = 1..(n + 1 - first + 1)
  BY <1>1, <1>4, <1>5, LenProperties
<1>9. \A j \in DOMAIN kept :
        /\ j \in Nat /\ first + j - 1 \in 1..(n + 1)
        /\ kept[j] = IF first + j - 1 = n + 1 THEN new ELSE f.incidents[first + j - 1]
  <2> SUFFICES ASSUME NEW j \in DOMAIN kept
               PROVE  /\ j \in Nat /\ first + j - 1 \in 1..(n + 1)
                      /\ kept[j] = IF first + j - 1 = n + 1 THEN new
                                   ELSE f.incidents[first + j - 1]
    OBVIOUS
  <2> DEFINE a == first + j - 1
  <2>1. j \in Nat /\ a \in 1..(n + 1) /\ j \in 1..(n + 1 - first + 1)
    BY <1>1, <1>4, <1>8
  <2>2. kept[j] = all[a]
    BY <1>5, <2>1
  <2>3. all[a] = IF a = n + 1 THEN new ELSE f.incidents[a]
    <3> HIDE DEF a, n
    <3> QED  BY <1>1, <1>3, <2>1
  <2> QED  BY <2>1, <2>2, <2>3
<1>10. new.id = id
  BY DEF new
<1>11. ASSUME Distinct(f) PROVE Distinct(g)
  <2> SUFFICES ASSUME NEW i \in DOMAIN kept, NEW j \in DOMAIN kept,
                      kept[i].id = kept[j].id
               PROVE  i = j
    BY <1>7 DEF Distinct
  <2> DEFINE a == first + i - 1
             b == first + j - 1
  <2>1. /\ i \in Nat /\ j \in Nat /\ a \in 1..(n + 1) /\ b \in 1..(n + 1)
        /\ kept[i] = IF a = n + 1 THEN new ELSE f.incidents[a]
        /\ kept[j] = IF b = n + 1 THEN new ELSE f.incidents[b]
    BY <1>9
  <2>2. a = b
    <3> HIDE DEF a, b
    <3>1. CASE a = n + 1 /\ b # n + 1
      <4>1. b \in DOMAIN f.incidents
        BY <1>1, <2>1, <3>1
      <4> QED  BY <1>10, <2>1, <3>1, <4>1
    <3>2. CASE b = n + 1 /\ a # n + 1
      <4>1. a \in DOMAIN f.incidents
        BY <1>1, <2>1, <3>2
      <4> QED  BY <1>10, <2>1, <3>2, <4>1
    <3>3. CASE a # n + 1 /\ b # n + 1
      <4>1. a \in DOMAIN f.incidents /\ b \in DOMAIN f.incidents
        BY <1>1, <2>1, <3>3
      <4>2. f.incidents[a].id = f.incidents[b].id
        BY <2>1, <3>3
      <4> QED  BY <1>11, <4>1, <4>2 DEF Distinct
    <3> QED  BY <3>1, <3>2, <3>3
  <2> QED  BY <1>4, <2>1, <2>2
<1>12. \A j \in DOMAIN kept :
         \/ kept[j].id = id
         \/ \E i \in DOMAIN f.incidents : kept[j] = f.incidents[i]
  <2> SUFFICES ASSUME NEW j \in DOMAIN kept, first + j - 1 # n + 1
               PROVE  \E i \in DOMAIN f.incidents : kept[j] = f.incidents[i]
    BY <1>9, <1>10
  <2>1. first + j - 1 \in DOMAIN f.incidents /\ kept[j] = f.incidents[first + j - 1]
    BY <1>1, <1>9
  <2> QED  BY <2>1
<1>13. Open(g) \subseteq Open(f) \cup {id}
  BY <1>7, <1>12 DEF Open
<1> QED  BY <1>7, <1>8, <1>11, <1>12, <1>13 DEF g

\* Incidents with the same names and outcomes are open alike.
LEMMA OpenAlike ==
  ASSUME NEW f, NEW g, DOMAIN g.incidents = DOMAIN f.incidents,
         \A i \in DOMAIN f.incidents : /\ g.incidents[i].id = f.incidents[i].id
                                       /\ g.incidents[i].status = f.incidents[i].status
  PROVE  Open(g) = Open(f)
<1>1. ASSUME NEW x \in Open(f) PROVE x \in Open(g)
  BY <1>1 DEF Open
<1>2. ASSUME NEW x \in Open(g) PROVE x \in Open(f)
  BY <1>2 DEF Open
<1> QED  BY <1>1, <1>2

\* Marking the outcome of the repair closes its incident, if the file takes
\* it, and changes nothing else.
LEMMA MarkedFile ==
  ASSUME NEW f \in Files, NEW status \in {"auto_recovered", "recovery_failed"}
  PROVE  /\ Marked(f, status) \in Files
         /\ Len(Marked(f, status).incidents) = Len(f.incidents)
         /\ SameMarks(f, Marked(f, status)) /\ SameIncidents(f, Marked(f, status))
         /\ Open(Marked(f, status)) = Open(f) \ {mon.incident}
<1> DEFINE s == f.incidents
           t == [i \in DOMAIN s |-> IF s[i].id = mon.incident
                                    THEN [s[i] EXCEPT !.status = status] ELSE s[i]]
           g == Marked(f, status)
<1>1. s \in Seq(Incidents) /\ \A i \in DOMAIN s : s[i] \in Incidents
  BY LenProperties, ElementOfSeq DEF Files
<1>2. g = [f EXCEPT !.incidents = t]
  BY DEF Marked
<1>3. \A i \in DOMAIN s :
        /\ t[i] \in Incidents
        /\ t[i].id = s[i].id /\ t[i].recovered = s[i].recovered
        /\ t[i].status = IF s[i].id = mon.incident THEN status ELSE s[i].status
  <2> SUFFICES ASSUME NEW i \in DOMAIN s
               PROVE  /\ t[i] \in Incidents
                      /\ t[i].id = s[i].id /\ t[i].recovered = s[i].recovered
                      /\ t[i].status = IF s[i].id = mon.incident THEN status
                                       ELSE s[i].status
    OBVIOUS
  <2>1. s[i] \in Incidents
    BY <1>1
  <2>2. t[i] = IF s[i].id = mon.incident THEN [s[i] EXCEPT !.status = status] ELSE s[i]
    OBVIOUS
  <2> HIDE DEF t, s
  <2> QED  BY <2>1, <2>2 DEF Incidents
<1>4. DOMAIN t = DOMAIN s /\ t = [i \in DOMAIN s |-> t[i]]
  OBVIOUS
<1> HIDE DEF t, g
<1>5. t \in Seq(Incidents) /\ Len(t) = Len(s)
  <2> HIDE DEF s
  <2> QED  BY <1>1, <1>3, <1>4, Rewritten
<1>6. g \in Files /\ g.incidents = t /\ SameMarks(f, g)
  BY <1>2, <1>5 DEF Files, SameMarks
<1>7. SameIncidents(f, g)
  BY <1>3, <1>4, <1>6 DEF SameIncidents
<1>8. Open(g) = Open(f) \ {mon.incident}
  BY <1>3, <1>4, <1>6 DEF Open
<1> QED  BY <1>5, <1>6, <1>7, <1>8 DEF g

\* Receiving an update moves the mark of received ones and may note it with
\* the current incident, once and only when that one was repaired.
LEMMA ReceivedFile ==
  ASSUME NEW f \in Files, NEW u \in 1..MaxUpdates
  PROVE  /\ Received(f, u) \in Files
         /\ Len(Received(f, u).incidents) = Len(f.incidents)
         /\ Received(f, u).current = f.current
         /\ Received(f, u).lastEmpty = f.lastEmpty
         /\ Received(f, u).maxCompleted = f.maxCompleted
         /\ u <= Received(f, u).maxReceived /\ f.maxReceived <= Received(f, u).maxReceived
         /\ Open(Received(f, u)) = Open(f)
         /\ DOMAIN Received(f, u).incidents = DOMAIN f.incidents
         /\ \A i \in DOMAIN f.incidents :
              /\ Received(f, u).incidents[i].id = f.incidents[i].id
              /\ Received(f, u).incidents[i].recovered # f.incidents[i].recovered
                   => /\ f.incidents[i].recovered = 0
                      /\ f.incidents[i].status = "auto_recovered"
                      /\ f.incidents[i].id = f.current
<1> DEFINE s == f.incidents
           t == [i \in DOMAIN s |-> IF s[i].id = f.current /\ Awaits(s[i])
                                    THEN [s[i] EXCEPT !.recovered = u] ELSE s[i]]
           g == Received(f, u)
<1>1. s \in Seq(Incidents) /\ \A i \in DOMAIN s : s[i] \in Incidents
  BY LenProperties, ElementOfSeq DEF Files
<1>2. g = [f EXCEPT !.maxReceived = Greater(@, u), !.incidents = t]
  BY DEF Received
<1>3. \A i \in DOMAIN s :
        /\ t[i] \in Incidents
        /\ t[i].id = s[i].id /\ t[i].status = s[i].status
        /\ t[i].recovered # s[i].recovered
             => s[i].recovered = 0 /\ s[i].status = "auto_recovered" /\ s[i].id = f.current
  <2> SUFFICES ASSUME NEW i \in DOMAIN s
               PROVE  /\ t[i] \in Incidents
                      /\ t[i].id = s[i].id /\ t[i].status = s[i].status
                      /\ t[i].recovered # s[i].recovered
                           => /\ s[i].recovered = 0 /\ s[i].status = "auto_recovered"
                              /\ s[i].id = f.current
    OBVIOUS
  <2>1. s[i] \in Incidents /\ u \in 0..MaxUpdates
    BY <1>1, SecurityMonitorAssumption
  <2>2. t[i] = IF s[i].id = f.current /\ Awaits(s[i])
               THEN [s[i] EXCEPT !.recovered = u] ELSE s[i]
    OBVIOUS
  <2> HIDE DEF t, s
  <2> QED  BY <2>1, <2>2 DEF Incidents, Awaits
<1>4. DOMAIN t = DOMAIN s /\ t = [i \in DOMAIN s |-> t[i]]
  OBVIOUS
<1> HIDE DEF t, g
<1>5. t \in Seq(Incidents) /\ Len(t) = Len(s)
  <2> HIDE DEF s
  <2> QED  BY <1>1, <1>3, <1>4, Rewritten
<1>6. /\ Greater(f.maxReceived, u) \in 0..MaxUpdates
      /\ u <= Greater(f.maxReceived, u) /\ f.maxReceived <= Greater(f.maxReceived, u)
  BY SecurityMonitorAssumption DEF Greater, Files
<1>7. /\ g \in Files /\ g.incidents = t
      /\ g.current = f.current /\ g.lastEmpty = f.lastEmpty
      /\ g.maxCompleted = f.maxCompleted /\ g.maxReceived = Greater(f.maxReceived, u)
  BY <1>2, <1>5, <1>6 DEF Files
<1>8. Open(g) = Open(f)
  BY <1>3, <1>4, <1>7, OpenAlike
<1> QED  BY <1>3, <1>4, <1>5, <1>6, <1>7, <1>8 DEF g

\* Completing updates moves the mark of completed ones, and only that.
LEMMA CompletedFile ==
  ASSUME NEW f \in Files, NEW S \in SUBSET (1..MaxUpdates),
         f.maxCompleted <= f.maxReceived, \A u \in S : u <= f.maxReceived
  PROVE  /\ Completed(f, S) \in Files
         /\ Completed(f, S).incidents = f.incidents
         /\ Completed(f, S).current = f.current
         /\ Completed(f, S).lastEmpty = f.lastEmpty
         /\ Completed(f, S).maxReceived = f.maxReceived
         /\ f.maxCompleted <= Completed(f, S).maxCompleted
         /\ Completed(f, S).maxCompleted <= f.maxReceived
<1> DEFINE new == Greater(f.maxCompleted, Newest(S))
<1>1. f.maxCompleted \in 0..MaxUpdates /\ f.maxReceived \in 0..MaxUpdates
  BY DEF Files
<1>2. Newest(S) \in 0..MaxUpdates /\ Newest(S) <= f.maxReceived
  BY <1>1, NewestOf
<1>3. new \in 0..MaxUpdates /\ f.maxCompleted <= new /\ new <= f.maxReceived
  BY <1>1, <1>2, SecurityMonitorAssumption DEF Greater
<1>4. Completed(f, S) = [f EXCEPT !.maxCompleted = new]
  BY DEF Completed
<1> HIDE DEF new
<1> QED  BY <1>3, <1>4 DEF Files

\* Time only makes incidents, notes and the sight of no webhook older.
LEMMA AgedFile ==
  ASSUME NEW f \in Files, NEW g,
         g = [f EXCEPT !.alerts = Aged(@), !.lastEmpty = Older(@),
                       !.incidents = [i \in DOMAIN @ |-> AnInterval(@[i])]]
  PROVE  /\ g \in Files /\ Len(g.incidents) = Len(f.incidents)
         /\ SameIncidents(f, g) /\ Open(g) = Open(f)
         /\ g.current = f.current /\ f.lastEmpty <= g.lastEmpty
         /\ g.maxReceived = f.maxReceived /\ g.maxCompleted = f.maxCompleted
<1> DEFINE s == f.incidents
           t == [i \in DOMAIN s |-> AnInterval(s[i])]
<1>1. s \in Seq(Incidents) /\ \A i \in DOMAIN s : s[i] \in Incidents
  BY LenProperties, ElementOfSeq DEF Files
<1>2. \A a \in Ages : Older(a) \in Ages /\ a <= Older(a)
  BY SecurityMonitorAssumption DEF Older, Ages, Expired
<1>3. \A i \in DOMAIN s :
        /\ t[i] \in Incidents /\ t[i].id = s[i].id
        /\ t[i].recovered = s[i].recovered /\ t[i].status = s[i].status
  <2> SUFFICES ASSUME NEW i \in DOMAIN s
               PROVE  /\ t[i] \in Incidents /\ t[i].id = s[i].id
                      /\ t[i].recovered = s[i].recovered /\ t[i].status = s[i].status
    OBVIOUS
  <2>1. s[i] \in Incidents
    BY <1>1
  <2>2. t[i] = [s[i] EXCEPT !.age = Older(@)]
    BY DEF AnInterval
  <2> HIDE DEF t, s
  <2>3. Older(s[i].age) \in Ages
    BY <1>2, <2>1 DEF Incidents
  <2> QED  BY <2>1, <2>2, <2>3 DEF Incidents
<1>4. DOMAIN t = DOMAIN s /\ t = [i \in DOMAIN s |-> t[i]]
  OBVIOUS
<1>5. g = [f EXCEPT !.alerts = Aged(@), !.lastEmpty = Older(@), !.incidents = t]
  OBVIOUS
<1> HIDE DEF t
<1>6. t \in Seq(Incidents) /\ Len(t) = Len(s)
  <2> HIDE DEF s
  <2> QED  BY <1>1, <1>3, <1>4, Rewritten
<1>7. /\ Aged(f.alerts) \in Sendings
      /\ Older(f.lastEmpty) \in Ages /\ f.lastEmpty <= Older(f.lastEmpty)
  BY <1>2, NotesTyped DEF Files
<1>8. /\ g \in Files /\ g.incidents = t
      /\ g.current = f.current /\ g.lastEmpty = Older(f.lastEmpty)
      /\ g.maxReceived = f.maxReceived /\ g.maxCompleted = f.maxCompleted
  BY <1>5, <1>6, <1>7 DEF Files
<1>9. SameIncidents(f, g) /\ Open(g) = Open(f)
  <2>1. /\ DOMAIN g.incidents = DOMAIN f.incidents
        /\ \A i \in DOMAIN f.incidents :
             /\ g.incidents[i].id = f.incidents[i].id
             /\ g.incidents[i].status = f.incidents[i].status
             /\ g.incidents[i].recovered = f.incidents[i].recovered
    BY <1>3, <1>4, <1>8
  <2> QED  BY <2>1, OpenAlike DEF SameIncidents
<1> QED  BY <1>6, <1>7, <1>8, <1>9

-----------------------------------------------------------------------------
(* The inductive invariant.                                                 *)

\* The marks of updates are in order, also for what is still being handled.
Marks ==
  /\ file.maxCompleted <= file.maxReceived
  /\ \A u \in poll.handling : u <= file.maxReceived

\* Beyond the webhook, a check has seen it empty.
Seen ==
  (\/ mon.pc \in {"profile", "restore", "heartbeat", "started"}
   \/ mon.pc = "sending" /\ mon.next \in {"restore", "heartbeat", "started"})
    => mon.sawEmpty

\* The monitor remembers having told of a failure only if that is the last
\* notice, and has forgotten it once it tells of the recovery.
News ==
  /\ mon.told => heard = "network_failed"
  /\ (mon.pc = "sending" /\ mon.key = "network_recovered")
       => heard = "network_failed" /\ ~mon.told

Repairing ==
  \/ mon.pc \in {"delete", "verify"}
  \/ mon.pc = "sending" /\ mon.next = "delete"

\* While nothing interfered, only an incident under repair is open.
Closed ==
  /\ ~diskOk => ~intact
  /\ phase = "down" => mon.pc = "off"
  /\ intact => /\ Open(file) \subseteq {mon.incident}
               /\ ~Repairing => Open(file) = {}

SecurityInv == TypeOK /\ Marks /\ Seen /\ News /\ Distinct(file) /\ Closed

\* What a step does to what the file holds.
MarksGo ==
  /\ file'.maxCompleted <= file'.maxReceived
  /\ file.maxReceived <= file'.maxReceived
  /\ file.maxCompleted <= file'.maxCompleted

FirstKept ==
  \A i \in DOMAIN file.incidents, j \in DOMAIN file'.incidents :
    (/\ file.incidents[i].id = file'.incidents[j].id
     /\ file.incidents[i].recovered # file'.incidents[j].recovered)
      => /\ file.incidents[i].recovered = 0
         /\ file.incidents[i].status = "auto_recovered"
         /\ file.incidents[i].id = file.current

Vouched ==
  (file'.lastEmpty < file.lastEmpty \/ (phase = "starting" /\ phase' = "syncing"))
    => mon.sawEmpty

Sound == SecurityInv' /\ MarksGo /\ FirstKept /\ Vouched

\* The first process starts from a state file that is empty.
LEMMA SecurityInit == Init => SecurityInv
<1> SUFFICES ASSUME Init PROVE SecurityInv
  OBVIOUS
<1>1. TenMinutes \in Nat \ {0} /\ MaxUpdates \in Nat /\ MaxFaults \in Nat
      /\ AlertThreshold \in Nat \ {0} /\ MaxIncidents \in Nat \ {0}
  BY SecurityMonitorAssumption
<1>2. NeverSent \in Sendings
  BY <1>1 DEF NeverSent, Long, Sendings, Ranks, None
<1>3. Fresh \in Monitors
  BY <1>1, <1>2 DEF Fresh, Monitors, None
<1>4. file.incidents = <<>> /\ <<>> \in Seq(Incidents) /\ Len(<<>>) = 0
      /\ DOMAIN file.incidents = {}
  BY EmptySeq DEF Init
<1>5. file \in Files
  BY <1>1, <1>2, <1>4 DEF Init, Files, Ages, Expired, None
<1>6. TypeOK
  <2>1. telegram \in Services
    BY <1>1 DEF Init, NoWebhook, Services
  <2>2. poll \in [received : 0..MaxUpdates, handling : SUBSET (1..MaxUpdates)]
    BY <1>1 DEF Init
  <2>3. mon \in Monitors /\ Len(file.incidents) <= MaxIncidents /\ faults \in 0..MaxFaults
    BY <1>1, <1>3, <1>4 DEF Init
  <2>4. config \in Configs /\ phase \in {"starting", "syncing", "polling", "down"}
        /\ diskOk \in BOOLEAN /\ intact \in BOOLEAN /\ calm \in BOOLEAN
        /\ heard \in {"nothing", "network_failed", "network_recovered"}
    BY DEF Init
  <2> QED  BY <1>5, <2>1, <2>2, <2>3, <2>4 DEF TypeOK
<1>7. Marks /\ Seen /\ News
  BY DEF Init, Marks, Seen, News, Fresh
<1>8. Distinct(file)
  BY <1>4 DEF Distinct
<1>9. Closed
  <2>1. Open(file) = {}
    BY <1>4 DEF Open
  <2> QED  BY <2>1 DEF Init, Closed
<1> QED  BY <1>6, <1>7, <1>8, <1>9 DEF SecurityInv

\* Where the incidents on file are the same, so are their names and first
\* updates.
LEMMA SameKeeps ==
  ASSUME Distinct(file), SameIncidents(file, file')
  PROVE  Distinct(file)' /\ FirstKept
<1>1. Distinct(file)'
  BY DEF Distinct, SameIncidents
<1>2. FirstKept
  BY DEF Distinct, SameIncidents, FirstKept
<1> QED  BY <1>1, <1>2

\* A step of the monitor that repairs nothing: it goes on from m, which
\* remembers no notice it had not given and stands behind a webhook seen.
LEMMA QuietStep ==
  ASSUME SecurityInv, NEW m \in Monitors, NEW f \in Files, NEW key, NEW next,
         GoesOn(m, f, key, next), ~Repairing, next \notin {"delete", "verify", "sending"},
         mon.pc \notin {"sending", "off"},
         f.incidents = file.incidents,
         f.maxReceived = file.maxReceived, f.maxCompleted = file.maxCompleted,
         f.lastEmpty < file.lastEmpty => mon.sawEmpty,
         next \in {"profile", "restore", "heartbeat", "started"} => m.sawEmpty,
         m.told => mon.told,
         key = "network_recovered" => mon.told /\ ~m.told,
         UNCHANGED <<config, poll, calm, diskOk, heard, intact>>, faults' \in 0..MaxFaults,
         telegram' \in Services,
         phase' = phase \/ (phase' = "syncing" /\ mon.pc = "started")
  PROVE  Sound
<1>1. TypeOK'
  BY DEF SecurityInv, TypeOK, GoesOn
<1>2. Marks' /\ MarksGo
  BY DEF SecurityInv, Marks, MarksGo, GoesOn, TypeOK, Files
<1>3. Seen'
  BY DEF Seen, GoesOn
<1>4. News'
  BY DEF SecurityInv, News, GoesOn
<1>5. Distinct(file)' /\ FirstKept
  BY SameKeeps DEF SecurityInv, SameIncidents, GoesOn
<1>6. Closed'
  <2>1. Open(file') = Open(file)
    BY DEF Open, GoesOn
  <2>2. phase' # "down"
    BY DEF SecurityInv, Closed
  <2> QED  BY <2>1, <2>2 DEF SecurityInv, Closed
<1>7. Vouched
  BY DEF SecurityInv, Seen, Vouched, GoesOn, TypeOK, Files, Ages, Expired
<1> QED  BY <1>1, <1>2, <1>3, <1>4, <1>5, <1>6, <1>7 DEF Sound, SecurityInv

\* A step beside the monitor that leaves it, the file and the updates alone.
LEMMA AsideStep ==
  ASSUME SecurityInv, TypeOK', UNCHANGED <<mon, file, poll, heard>>,
         intact' => intact, ~diskOk' => ~intact',
         phase' = phase \/ (phase = "syncing" /\ phase' = "polling")
  PROVE  Sound
<1>1. Marks' /\ MarksGo
  BY DEF SecurityInv, Marks, MarksGo, TypeOK, Files
<1>2. Seen' /\ News'
  BY DEF SecurityInv, Seen, News
<1>3. Distinct(file)' /\ FirstKept
  BY SameKeeps DEF SecurityInv, SameIncidents
<1>4. Closed'
  BY DEF SecurityInv, Closed, Repairing
<1>5. Vouched
  BY DEF SecurityInv, Vouched, TypeOK, Files, Ages, Expired
<1> QED  BY <1>1, <1>2, <1>3, <1>4, <1>5 DEF Sound, SecurityInv

\* What Telegram, the network, the disk and the operator do keeps it.
LEMMA EnvironmentKeeps ==
  ASSUME SecurityInv,
         \/ SetWebhook \/ ChangeProfile \/ Trouble \/ Calm \/ DiskFails \/ DiskRepaired
         \/ StartPolling
  PROVE  Sound
<1>1. TypeOK
  BY DEF SecurityInv
<1>2. /\ MaxFaults \in Nat /\ TenMinutes \in Nat \ {0}
      /\ \A n \in 0..MaxFaults : n < MaxFaults => n + 1 \in 0..MaxFaults
  BY SecurityMonitorAssumption
<1>3. CASE SetWebhook
  <2>1. TypeOK'
    BY <1>1, <1>2, <1>3 DEF SetWebhook, Fault, watch, TypeOK, Services, Ages, Expired
  <2>2. /\ UNCHANGED <<mon, file, poll, heard, intact, diskOk, phase>>
    BY <1>3 DEF SetWebhook, watch
  <2> QED  BY <2>1, <2>2, AsideStep DEF SecurityInv, Closed
<1>4. CASE ChangeProfile
  <2>1. TypeOK'
    BY <1>1, <1>2, <1>4 DEF ChangeProfile, Fault, watch, TypeOK, Services
  <2>2. /\ UNCHANGED <<mon, file, poll, heard, intact, diskOk, phase>>
    BY <1>4 DEF ChangeProfile, watch
  <2> QED  BY <2>1, <2>2, AsideStep DEF SecurityInv, Closed
<1>5. CASE Trouble
  <2>1. TypeOK'
    BY <1>1, <1>2, <1>5 DEF Trouble, Fault, watch, TypeOK
  <2>2. /\ UNCHANGED <<mon, file, poll, heard, intact, diskOk, phase>>
    BY <1>5 DEF Trouble, watch
  <2> QED  BY <2>1, <2>2, AsideStep DEF SecurityInv, Closed
<1>6. CASE Calm
  <2>1. TypeOK'
    BY <1>1, <1>6 DEF Calm, watch, TypeOK
  <2>2. /\ UNCHANGED <<mon, file, poll, heard, intact, diskOk, phase>>
    BY <1>6 DEF Calm, watch
  <2> QED  BY <2>1, <2>2, AsideStep DEF SecurityInv, Closed
<1>7. CASE DiskFails
  <2>1. TypeOK'
    BY <1>1, <1>2, <1>7 DEF DiskFails, Fault, watch, TypeOK
  <2>2. UNCHANGED <<mon, file, poll, heard, phase>> /\ ~intact'
    BY <1>7 DEF DiskFails, watch
  <2> QED  BY <2>1, <2>2, AsideStep
<1>8. CASE DiskRepaired
  <2>1. TypeOK'
    BY <1>1, <1>8 DEF DiskRepaired, watch, TypeOK
  <2>2. UNCHANGED <<mon, file, poll, heard, phase, intact>> /\ diskOk'
    BY <1>8 DEF DiskRepaired, watch
  <2> QED  BY <2>1, <2>2, AsideStep
<1>9. CASE StartPolling
  <2>1. TypeOK'
    BY <1>1, <1>9 DEF StartPolling, watch, world, TypeOK
  <2>2. /\ UNCHANGED <<mon, file, poll, heard, intact, diskOk>>
        /\ phase = "syncing" /\ phase' = "polling"
    BY <1>9 DEF StartPolling, watch, world
  <2> QED  BY <2>1, <2>2, AsideStep DEF SecurityInv, Closed
<1> QED  BY <1>3, <1>4, <1>5, <1>6, <1>7, <1>8, <1>9

\* Time passes while the monitor sleeps.
LEMMA IntervalKeeps ==
  ASSUME SecurityInv, Interval
  PROVE  Sound
<1>1. TypeOK /\ file \in Files /\ mon \in Monitors
  BY DEF SecurityInv, TypeOK
<1>2. /\ file' \in Files /\ Len(file'.incidents) = Len(file.incidents)
      /\ SameIncidents(file, file') /\ Open(file') = Open(file)
      /\ file'.current = file.current /\ file.lastEmpty <= file'.lastEmpty
      /\ file'.maxReceived = file.maxReceived /\ file'.maxCompleted = file.maxCompleted
  BY <1>1, AgedFile DEF Interval
<1>3. /\ mon' \in Monitors /\ mon'.pc = mon.pc /\ mon'.told = mon.told
      /\ mon'.incident = mon.incident
  <2>1. Aged(mon.lastSent) \in Sendings
    BY <1>1, NotesTyped DEF Monitors
  <2>2. mon' = [mon EXCEPT !.slept = (mon.pc = "sleep"), !.lastSent = Aged(@)]
    BY DEF Interval
  <2> QED  BY <1>1, <2>1, <2>2 DEF Monitors
<1>4. mon.pc \in {"sleep", "off"}
      /\ UNCHANGED <<config, phase, poll, calm, diskOk, heard, intact, faults>>
  BY DEF Interval
<1>5. TypeOK'
  <2>1. telegram' = [telegram EXCEPT !.webhook = IF @ = NoWebhook THEN @ ELSE Older(@)]
    BY DEF Interval
  <2>2. telegram' \in Services
    BY <1>1, <2>1, SecurityMonitorAssumption DEF TypeOK, Services, Older, Ages, Expired
  <2> QED  BY <1>1, <1>2, <1>3, <1>4, <2>2 DEF TypeOK
<1>6. Marks' /\ MarksGo
  BY <1>2, <1>4 DEF SecurityInv, Marks, MarksGo, TypeOK, Files
<1>7. Seen' /\ News'
  BY <1>3, <1>4 DEF SecurityInv, Seen, News
<1>8. Distinct(file)' /\ FirstKept
  BY <1>2, SameKeeps DEF SecurityInv
<1>9. Closed'
  BY <1>2, <1>3, <1>4 DEF SecurityInv, Closed, Repairing
<1>10. Vouched
  BY <1>2, <1>4, <1>1 DEF Vouched, Files, Ages, Expired
<1> QED  BY <1>5, <1>6, <1>7, <1>8, <1>9, <1>10 DEF Sound, SecurityInv

-----------------------------------------------------------------------------
(* The steps of a check.                                                    *)

\* A write that may be refused.
LEMMA SavedFile ==
  ASSUME NEW f \in Files, file \in Files
  PROVE  Saved(f) \in Files /\ (Saved(f) = f \/ (~diskOk /\ Saved(f) = file))
BY DEF Saved

\* Failed calls.
LEMMA CheckFailsKeeps == SecurityInv /\ CheckFails => Sound
<1> SUFFICES ASSUME SecurityInv, CheckFails PROVE Sound
  OBVIOUS
<1>1. /\ mon \in Monitors /\ file \in Files /\ TypeOK
      /\ mon.pc \in {"me", "info", "profile"} /\ ~Repairing
      /\ UNCHANGED <<config, phase, poll, calm, diskOk, heard, intact>>
      /\ telegram' \in Services /\ faults' \in 0..MaxFaults
      /\ ~(file.lastEmpty < file.lastEmpty)
  BY DEF SecurityInv, TypeOK, CheckFails, Repairing, Files, Ages, Expired
<1>2. CASE NetworkFailure
  <2> DEFINE m == [mon EXCEPT !.failures = IF @ < AlertThreshold THEN @ + 1 ELSE @]
  <2>1. m \in Monitors /\ m.told = mon.told
    BY <1>1, SecurityMonitorAssumption DEF Monitors
  <2>2. \/ Goto(m, file, "sleep")
        \/ Raise(m, file, "network_failed", WARNING, "sleep")
    BY <1>2 DEF NetworkFailure
  <2> HIDE DEF m
  <2>3. PICK key \in {"none", "network_failed"} : GoesOn(m, file, key, "sleep")
    BY <1>1, <2>1, <2>2, GotoGoesOn, RaiseGoesOn DEF Keys, Ranks, Nexts, Pcs
  <2>4. /\ "sleep" \notin {"delete", "verify", "sending"}
        /\ "sleep" \notin {"profile", "restore", "heartbeat", "started"}
        /\ key # "network_recovered"
    BY <2>3
  <2> QED  BY <1>1, <2>1, <2>3, <2>4, QuietStep
<1>3. CASE OtherFailure
  <2> DEFINE m == [mon EXCEPT !.failures = 0, !.told = FALSE]
  <2>1. m \in Monitors /\ m.told = FALSE
    <3>1. 0 \in 0..AlertThreshold /\ FALSE \in BOOLEAN
      BY SecurityMonitorAssumption
    <3> QED  BY <1>1, <3>1 DEF Monitors
  <2>2. \/ Goto(mon, file, "raised")
        \/ Raise(m, file, "check_failed", ERROR, "sleep")
    BY <1>3 DEF OtherFailure
  <2> HIDE DEF m
  <2>3. \/ GoesOn(mon, file, "none", "raised")
        \/ GoesOn(m, file, "check_failed", "sleep")
    BY <1>1, <2>1, <2>2, GotoGoesOn, RaiseGoesOn DEF Keys, Ranks, Nexts, Pcs
  <2> QED  BY <1>1, <2>1, <2>3, QuietStep
<1> QED  BY <1>2, <1>3 DEF CheckFails

\* Who the bot is.
LEMMA IdentityKeeps == SecurityInv /\ (GetMe \/ IdentityMismatch) => Sound
<1> SUFFICES ASSUME SecurityInv, GetMe \/ IdentityMismatch PROVE Sound
  OBVIOUS
<1>1. /\ mon \in Monitors /\ file \in Files /\ TypeOK /\ mon.pc = "me" /\ ~Repairing
      /\ UNCHANGED <<config, phase, poll, calm, diskOk, heard, intact>>
      /\ telegram' \in Services /\ faults' \in 0..MaxFaults
      /\ ~(file.lastEmpty < file.lastEmpty)
  BY SecurityMonitorAssumption
     DEF SecurityInv, TypeOK, GetMe, IdentityMismatch, Repairing, Files, Ages, Expired, Fault
<1>2. CASE GetMe
  <2> DEFINE m == [mon EXCEPT !.warned = TRUE]
  <2>1. m \in Monitors /\ m.told = mon.told
    BY <1>1 DEF Monitors
  <2>2. \/ Goto(mon, file, "info")
        \/ \E next \in {"raised", "info"} :
             Raise(m, file, "baseline_incomplete", WARNING, next)
    BY <1>2 DEF GetMe, Identified
  <2> HIDE DEF m
  <2>3. \/ GoesOn(mon, file, "none", "info")
        \/ \E next \in {"raised", "info"} : GoesOn(m, file, "baseline_incomplete", next)
    BY <1>1, <2>1, <2>2, GotoGoesOn, RaiseGoesOn DEF Keys, Ranks, Nexts, Pcs
  <2> QED  BY <1>1, <2>1, <2>3, QuietStep
<1>3. CASE IdentityMismatch
  <2>1. GoesOn(mon, file, "identity_mismatch", "raised")
    BY <1>1, <1>3, RaiseGoesOn DEF IdentityMismatch, Keys, Ranks, Nexts
  <2> QED  BY <1>1, <2>1, QuietStep
<1> QED  BY <1>2, <1>3

\* The webhook is empty at once.
LEMMA WebhookEmptyKeeps == SecurityInv /\ WebhookEmpty => Sound
<1> SUFFICES ASSUME SecurityInv, WebhookEmpty PROVE Sound
  OBVIOUS
<1> DEFINE m == [mon EXCEPT !.sawEmpty = TRUE]
<1>1. /\ mon \in Monitors /\ file \in Files /\ mon.pc = "info" /\ ~Repairing
      /\ UNCHANGED <<config, phase, poll, calm, diskOk, heard, intact>>
      /\ telegram' \in Services /\ faults' \in 0..MaxFaults
      /\ ~(file.lastEmpty < file.lastEmpty)
  BY DEF SecurityInv, TypeOK, WebhookEmpty, Repairing, Files, Ages, Expired
<1>2. m \in Monitors /\ m.told = mon.told /\ m.sawEmpty
  BY <1>1 DEF Monitors
<1>3. Goto(m, file, "profile")
  BY DEF WebhookEmpty
<1> HIDE DEF m
<1>4. GoesOn(m, file, "none", "profile")
  BY <1>1, <1>2, <1>3, GotoGoesOn DEF Pcs
<1> QED  BY <1>1, <1>2, <1>4, QuietStep

\* The profile and its restoration.
LEMMA ProfileKeeps == SecurityInv /\ (CheckProfile \/ Restore \/ RestoreFails) => Sound
<1> SUFFICES ASSUME SecurityInv, CheckProfile \/ Restore \/ RestoreFails PROVE Sound
  OBVIOUS
<1>1. /\ mon \in Monitors /\ file \in Files
      /\ mon.pc \in {"profile", "restore"} /\ ~Repairing /\ mon.sawEmpty
      /\ UNCHANGED <<config, phase, poll, calm, diskOk, heard, intact>>
      /\ faults' \in 0..MaxFaults
      /\ ~(file.lastEmpty < file.lastEmpty)
  BY DEF SecurityInv, TypeOK, CheckProfile, Restore, RestoreFails, Repairing, Seen,
         Files, Ages, Expired
<1>2. telegram' \in Services
  BY DEF SecurityInv, TypeOK, CheckProfile, Restore, RestoreFails, Services
<1>3. \/ Goto(mon, file, "heartbeat")
      \/ \E next \in {"restore", "heartbeat"} :
           Raise(mon, file, "profile_mismatch", ERROR, next)
      \/ Raise(mon, file, "restore_failed", CRITICAL, "heartbeat")
  BY DEF CheckProfile, Restore, RestoreFails
<1>4. \E key \in Keys \cup {"none"}, next \in {"restore", "heartbeat"} :
        key # "network_recovered" /\ GoesOn(mon, file, key, next)
  BY <1>1, <1>3, GotoGoesOn, RaiseGoesOn DEF Keys, Ranks, Nexts, Pcs
<1> QED  BY <1>1, <1>2, <1>4, QuietStep

\* The check is recorded, and a recovery told.
LEMMA HeartbeatKeeps == SecurityInv /\ Heartbeat => Sound
<1> SUFFICES ASSUME SecurityInv, Heartbeat PROVE Sound
  OBVIOUS
<1> DEFINE m == StreakOver(mon)
           f == Saved([file EXCEPT !.lastEmpty = 0])
<1>1. /\ mon \in Monitors /\ file \in Files
      /\ mon.pc = "heartbeat" /\ ~Repairing /\ mon.sawEmpty
      /\ UNCHANGED <<config, phase, poll, calm, diskOk, heard, intact>>
      /\ faults' \in 0..MaxFaults /\ telegram' \in Services
  BY DEF SecurityInv, TypeOK, Heartbeat, Repairing, Seen
<1>2. m \in Monitors /\ m.told = FALSE /\ m.sawEmpty = mon.sawEmpty
  <2>1. 0 \in 0..AlertThreshold /\ FALSE \in BOOLEAN
    BY SecurityMonitorAssumption
  <2> QED  BY <1>1, <2>1 DEF Monitors, StreakOver
<1>3. /\ f \in Files /\ f.incidents = file.incidents
      /\ f.maxReceived = file.maxReceived /\ f.maxCompleted = file.maxCompleted
  <2>1. 0 \in Ages
    BY SecurityMonitorAssumption DEF Ages, Expired
  <2> QED  BY <1>1, <2>1 DEF Saved, Files
<1>4. \/ mon.told /\ \E next \in {"started", "sleep"} :
           Raise(m, f, "network_recovered", INFO, next)
      \/ \E next \in {"started", "sleep"} : Goto(m, f, next)
  BY DEF Heartbeat, AfterCheck
<1> HIDE DEF m, f
<1>5. \E key \in Keys \cup {"none"}, next \in {"started", "sleep"} :
        (key = "network_recovered" => mon.told) /\ GoesOn(m, f, key, next)
  BY <1>1, <1>2, <1>3, <1>4, GotoGoesOn, RaiseGoesOn DEF Keys, Ranks, Nexts, Pcs
<1> QED  BY <1>1, <1>2, <1>3, <1>5, QuietStep

\* Between checks.
LEMMA BetweenKeeps == SecurityInv /\ (Started \/ Wake) => Sound
<1> SUFFICES ASSUME SecurityInv, Started \/ Wake PROVE Sound
  OBVIOUS
<1> DEFINE m == [mon EXCEPT !.slept = FALSE, !.sawEmpty = FALSE]
<1>1. /\ mon \in Monitors /\ file \in Files /\ TypeOK
      /\ mon.pc \in {"started", "sleep"} /\ ~Repairing
      /\ UNCHANGED <<config, poll, calm, diskOk, heard, intact>>
      /\ faults' \in 0..MaxFaults /\ telegram' \in Services
      /\ phase' = phase \/ (phase' = "syncing" /\ mon.pc = "started")
      /\ ~(file.lastEmpty < file.lastEmpty)
  BY DEF SecurityInv, TypeOK, Started, Wake, Repairing, Files, Ages, Expired
<1>2. m \in Monitors /\ m.told = mon.told
  BY <1>1 DEF Monitors
<1>3. Goto(mon, file, "sleep") \/ Goto(m, file, "me")
  BY DEF Started, Wake
<1> HIDE DEF m
<1>4. GoesOn(mon, file, "none", "sleep") \/ GoesOn(m, file, "none", "me")
  BY <1>1, <1>2, <1>3, GotoGoesOn DEF Pcs
<1> QED  BY <1>1, <1>2, <1>4, QuietStep

-----------------------------------------------------------------------------
(* The repair.                                                              *)

\* A step of the repair: it goes on from m with the incidents of f, of which
\* only the one under repair is open, and none when it is over.
LEMMA RepairStep ==
  ASSUME SecurityInv, NEW m \in Monitors, NEW f \in Files, NEW key,
         NEW next \in {"delete", "verify", "profile", "raised"},
         GoesOn(m, f, key, next),
         Len(f.incidents) <= MaxIncidents, Distinct(f),
         \A i \in DOMAIN file.incidents, j \in DOMAIN f.incidents :
           file.incidents[i].id = f.incidents[j].id
             => file.incidents[i].recovered = f.incidents[j].recovered,
         f.lastEmpty = file.lastEmpty,
         f.maxReceived = file.maxReceived, f.maxCompleted = file.maxCompleted,
         intact => Open(f) \subseteq {m.incident},
         (intact /\ next \notin {"delete", "verify"}) => Open(f) = {},
         next = "profile" => m.sawEmpty,
         m.told = mon.told, key # "network_recovered", mon.pc # "off", mon.pc # "started",
         UNCHANGED <<config, phase, poll, calm, diskOk, heard, intact, faults>>,
         telegram' \in Services
  PROVE  Sound
<1>1. TypeOK'
  BY DEF SecurityInv, TypeOK, GoesOn
<1>2. Marks' /\ MarksGo
  BY DEF SecurityInv, Marks, MarksGo, GoesOn, TypeOK, Files
<1>3. Seen'
  BY DEF Seen, GoesOn
<1>4. News'
  BY DEF SecurityInv, News, GoesOn
<1>5. Distinct(file)' /\ FirstKept
  BY DEF Distinct, FirstKept, GoesOn
<1>6. Closed'
  <2>1. Open(file') = Open(f) /\ mon'.incident = m.incident
    BY DEF Open, GoesOn
  <2>2. phase' # "down"
    BY DEF SecurityInv, Closed
  <2>3. next \in {"delete", "verify"} => Repairing'
    BY DEF Repairing, GoesOn, Monitors
  <2> QED  BY <2>1, <2>2, <2>3 DEF SecurityInv, Closed
<1>7. Vouched
  BY DEF SecurityInv, Vouched, GoesOn, TypeOK, Files, Ages, Expired
<1> QED  BY <1>1, <1>2, <1>3, <1>4, <1>5, <1>6, <1>7 DEF Sound, SecurityInv

\* A webhook is there: the incident is opened.
LEMMA WebhookDetectedKeeps == SecurityInv /\ WebhookDetected => Sound
<1> SUFFICES ASSUME SecurityInv, WebhookDetected PROVE Sound
  OBVIOUS
<1> DEFINE id == Unused
           g  == Opened(file, id)
           f  == Saved(g)
           m  == [mon EXCEPT !.incident = id]
<1>1. /\ TypeOK /\ mon \in Monitors /\ file \in Files /\ mon.pc = "info" /\ ~Repairing
      /\ Len(file.incidents) <= MaxIncidents /\ Distinct(file)
      /\ (~diskOk => ~intact) /\ (intact => Open(file) = {})
      /\ UNCHANGED <<config, phase, poll, calm, diskOk, heard, intact, faults>>
      /\ telegram' \in Services
  BY DEF SecurityInv, TypeOK, WebhookDetected, Repairing, Closed
<1>2. id \in Ids /\ \A i \in DOMAIN file.incidents : file.incidents[i].id # id
  BY <1>1, UnusedIsFree
<1>3. Raise(m, f, "unauthorized_webhook", CRITICAL, "delete")
        \/ Raise(m, f, "unauthorized_webhook", ERROR, "delete")
  BY DEF WebhookDetected, Repair
<1> HIDE DEF id
<1>4. m \in Monitors /\ m.incident = id /\ m.told = mon.told
  BY <1>1, <1>2 DEF Monitors
<1>5. /\ g \in Files /\ Len(g.incidents) <= MaxIncidents
      /\ g.lastEmpty = file.lastEmpty
      /\ g.maxReceived = file.maxReceived /\ g.maxCompleted = file.maxCompleted
      /\ Distinct(g)
      /\ Open(g) \subseteq Open(file) \cup {id}
      /\ \A j \in DOMAIN g.incidents :
           \/ g.incidents[j].id = id
           \/ \E i \in DOMAIN file.incidents : g.incidents[j] = file.incidents[i]
  BY <1>1, <1>2, OpenedFile
<1> HIDE DEF g
<1>6. \A i \in DOMAIN file.incidents, j \in DOMAIN g.incidents :
        file.incidents[i].id = g.incidents[j].id
          => file.incidents[i].recovered = g.incidents[j].recovered
  BY <1>1, <1>2, <1>5 DEF Distinct
<1>7. f \in Files /\ (f = g \/ (~diskOk /\ f = file))
  BY <1>1, <1>5, SavedFile
<1> HIDE DEF f, m
<1>8. GoesOn(m, f, "unauthorized_webhook", "delete")
  BY <1>3, <1>4, <1>7, RaiseGoesOn DEF Keys, Ranks, Nexts
<1>9. \A i \in DOMAIN file.incidents, j \in DOMAIN f.incidents :
        file.incidents[i].id = f.incidents[j].id
          => file.incidents[i].recovered = f.incidents[j].recovered
  BY <1>1, <1>6, <1>7 DEF Distinct
<1>10. intact => Open(f) \subseteq {m.incident}
  BY <1>1, <1>4, <1>5, <1>7
<1>11. /\ Len(f.incidents) <= MaxIncidents /\ Distinct(f) /\ f.lastEmpty = file.lastEmpty
       /\ f.maxReceived = file.maxReceived /\ f.maxCompleted = file.maxCompleted
  BY <1>1, <1>5, <1>7
<1> QED  BY <1>1, <1>4, <1>7, <1>8, <1>9, <1>10, <1>11, RepairStep

\* The file when the outcome of a repair is written, or refused.
LEMMA OutcomeFile ==
  ASSUME SecurityInv, NEW status \in {"auto_recovered", "recovery_failed"},
         NEW f, f = Saved(Marked(file, status))
  PROVE  /\ f \in Files /\ Len(f.incidents) <= MaxIncidents /\ Distinct(f)
         /\ f.lastEmpty = file.lastEmpty
         /\ f.maxReceived = file.maxReceived /\ f.maxCompleted = file.maxCompleted
         /\ \A i \in DOMAIN file.incidents, j \in DOMAIN f.incidents :
              file.incidents[i].id = f.incidents[j].id
                => file.incidents[i].recovered = f.incidents[j].recovered
         /\ intact => Open(f) = {}
<1> DEFINE g == Marked(file, status)
<1>1. /\ file \in Files /\ Len(file.incidents) <= MaxIncidents /\ Distinct(file)
      /\ (~diskOk => ~intact) /\ (intact => Open(file) \subseteq {mon.incident})
  BY DEF SecurityInv, TypeOK, Closed
<1>2. /\ g \in Files /\ Len(g.incidents) = Len(file.incidents)
      /\ SameMarks(file, g) /\ SameIncidents(file, g)
      /\ Open(g) = Open(file) \ {mon.incident}
  BY <1>1, MarkedFile
<1> HIDE DEF g
<1>3. f = g \/ (~diskOk /\ f = file)
  BY DEF Saved, g
<1>4. CASE f = g
  <2>1. f \in Files /\ Len(f.incidents) <= MaxIncidents /\ f.lastEmpty = file.lastEmpty
        /\ f.maxReceived = file.maxReceived /\ f.maxCompleted = file.maxCompleted
    BY <1>1, <1>2, <1>4 DEF SameMarks
  <2>2. Distinct(f)
    BY <1>1, <1>2, <1>4 DEF SameIncidents, Distinct
  <2>3. \A i \in DOMAIN file.incidents, j \in DOMAIN f.incidents :
          file.incidents[i].id = f.incidents[j].id
            => file.incidents[i].recovered = f.incidents[j].recovered
    BY <1>1, <1>2, <1>4 DEF SameIncidents, Distinct
  <2>4. intact => Open(f) = {}
    BY <1>1, <1>2, <1>4
  <2> QED  BY <2>1, <2>2, <2>3, <2>4
<1>5. CASE ~diskOk /\ f = file
  BY <1>1, <1>5 DEF Distinct
<1> QED  BY <1>3, <1>4, <1>5

\* The webhook is deleted, or not, and looked for again.
LEMMA RepairKeeps ==
  SecurityInv /\ (Delete \/ DeleteFails \/ Verified \/ VerifyFails) => Sound
<1> SUFFICES ASSUME SecurityInv, Delete \/ DeleteFails \/ Verified \/ VerifyFails
             PROVE  Sound
  OBVIOUS
<1>1. /\ mon \in Monitors /\ file \in Files
      /\ mon.pc \in {"delete", "verify"}
      /\ UNCHANGED <<config, phase, poll, calm, diskOk, heard, intact, faults>>
  BY DEF SecurityInv, TypeOK, Delete, DeleteFails, Verified, VerifyFails
<1>2. telegram' \in Services
  BY DEF SecurityInv, TypeOK, Delete, DeleteFails, Verified, VerifyFails, Services
<1>3. CASE Delete
  <2>1. GoesOn(mon, file, "none", "verify")
    BY <1>1, <1>3, GotoGoesOn DEF Delete, Pcs
  <2>2. /\ Len(file.incidents) <= MaxIncidents /\ Distinct(file)
        /\ intact => Open(file) \subseteq {mon.incident}
    BY DEF SecurityInv, TypeOK, Closed
  <2> QED  BY <1>1, <1>2, <2>1, <2>2, RepairStep DEF Distinct
<1>4. CASE DeleteFails \/ VerifyFails
  <2> DEFINE f == Saved(Marked(file, "recovery_failed"))
  <2>1. Raise(mon, f, "recovery_failed", CRITICAL, "raised")
    BY <1>4 DEF DeleteFails, VerifyFails, RecoveryFails
  <2>2. /\ f \in Files /\ Len(f.incidents) <= MaxIncidents /\ Distinct(f)
        /\ f.lastEmpty = file.lastEmpty
        /\ f.maxReceived = file.maxReceived /\ f.maxCompleted = file.maxCompleted
        /\ \A i \in DOMAIN file.incidents, j \in DOMAIN f.incidents :
             file.incidents[i].id = f.incidents[j].id
               => file.incidents[i].recovered = f.incidents[j].recovered
        /\ intact => Open(f) = {}
    BY OutcomeFile
  <2> HIDE DEF f
  <2>3. GoesOn(mon, f, "recovery_failed", "raised")
    BY <1>1, <2>1, <2>2, RaiseGoesOn DEF Keys, Ranks, Nexts
  <2> QED  BY <1>1, <1>2, <2>2, <2>3, RepairStep
<1>5. CASE Verified
  <2> DEFINE f == Saved(Marked(file, "auto_recovered"))
             m == [mon EXCEPT !.sawEmpty = TRUE, !.incident = None]
  <2>1. Goto(m, f, "profile")
    BY <1>5 DEF Verified
  <2>2. /\ f \in Files /\ Len(f.incidents) <= MaxIncidents /\ Distinct(f)
        /\ f.lastEmpty = file.lastEmpty
        /\ f.maxReceived = file.maxReceived /\ f.maxCompleted = file.maxCompleted
        /\ \A i \in DOMAIN file.incidents, j \in DOMAIN f.incidents :
             file.incidents[i].id = f.incidents[j].id
               => file.incidents[i].recovered = f.incidents[j].recovered
        /\ intact => Open(f) = {}
    BY OutcomeFile
  <2>3. m \in Monitors /\ m.sawEmpty /\ m.told = mon.told
    BY <1>1 DEF Monitors
  <2> HIDE DEF f, m
  <2>4. GoesOn(m, f, "none", "profile")
    BY <2>1, <2>2, <2>3, GotoGoesOn DEF Pcs
  <2> QED  BY <1>1, <1>2, <2>2, <2>3, <2>4, RepairStep
<1> QED  BY <1>3, <1>4, <1>5

\* The end of sending, taken or not.
LEMMA SendingKeeps == SecurityInv /\ (Delivered \/ Undelivered) => Sound
<1> SUFFICES ASSUME SecurityInv, Delivered \/ Undelivered PROVE Sound
  OBVIOUS
<1>1. /\ mon \in Monitors /\ file \in Files /\ mon.pc = "sending"
      /\ UNCHANGED <<config, telegram, phase, poll, file, calm, diskOk, intact, faults>>
  BY DEF SecurityInv, TypeOK, Delivered, Undelivered
<1>2. /\ mon' \in Monitors
      /\ mon'.pc = mon.next /\ mon'.incident = mon.incident /\ mon'.sawEmpty = mon.sawEmpty
      /\ mon.next \in Nexts
  BY <1>1 DEF Delivered, Undelivered, Told, Monitors, Keys, Nexts
<1>3. /\ heard' \in {"nothing", "network_failed", "network_recovered"}
      /\ mon'.told => heard' = "network_failed"
  <2>1. CASE Delivered
    <3>1. /\ mon'.told <=> (mon.told \/ mon.key = "network_failed")
          /\ heard' = IF mon.key \in {"network_failed", "network_recovered"} THEN mon.key
                      ELSE heard
      <4>1. mon' = [mon EXCEPT !.pc = mon.next, !.key = "none", !.next = "sleep",
                               !.told = mon.told \/ mon.key = "network_failed"]
        BY <2>1 DEF Delivered, Told
      <4>2. mon'.told = (mon.told \/ mon.key = "network_failed")
        BY <1>1, <4>1 DEF Monitors
      <4> QED  BY <2>1, <4>2 DEF Delivered
    <3> QED  BY <1>1, <3>1 DEF SecurityInv, News, TypeOK
  <2>2. CASE Undelivered
    <3>1. mon'.told = mon.told /\ heard' = heard
      BY <1>1, <2>2 DEF Undelivered, Told, Monitors
    <3> QED  BY <1>1, <3>1 DEF SecurityInv, News, TypeOK
  <2> QED  BY <2>1, <2>2
<1>4. TypeOK'
  BY <1>1, <1>2, <1>3 DEF SecurityInv, TypeOK
<1>5. Marks' /\ MarksGo
  BY <1>1 DEF SecurityInv, Marks, MarksGo, Files
<1>6. Seen'
  BY <1>1, <1>2 DEF SecurityInv, Seen, Nexts
<1>7. News'
  BY <1>2, <1>3 DEF News, Nexts
<1>8. Distinct(file)' /\ FirstKept
  BY <1>1, SameKeeps DEF SecurityInv, SameIncidents
<1>9. Closed'
  BY <1>1, <1>2 DEF SecurityInv, Closed, Repairing, Nexts
<1>10. Vouched
  BY <1>1 DEF Vouched, Files, Ages, Expired
<1> QED  BY <1>4, <1>5, <1>6, <1>7, <1>8, <1>9, <1>10 DEF Sound, SecurityInv

-----------------------------------------------------------------------------
(* The process and its updates.                                             *)

\* Nothing of the monitor is left when the process ends, and what the file
\* records of updates stays in order.
LEMMA EndKeeps == SecurityInv /\ (Stop \/ Shutdown \/ Crash) => Sound
<1> SUFFICES ASSUME SecurityInv, Stop \/ Shutdown \/ Crash PROVE Sound
  OBVIOUS
<1>1. /\ TypeOK /\ file \in Files /\ mon \in Monitors /\ Marks
      /\ phase' = "down" /\ mon' = Off /\ poll' = [poll EXCEPT !.handling = {}]
      /\ UNCHANGED <<config, telegram, calm, diskOk, heard>>
  BY DEF SecurityInv, TypeOK, Stop, Shutdown, Crash, Down
<1>2. /\ file' \in Files /\ file'.incidents = file.incidents
      /\ file'.lastEmpty = file.lastEmpty
      /\ file'.maxReceived = file.maxReceived
      /\ file.maxCompleted <= file'.maxCompleted /\ file'.maxCompleted <= file.maxReceived
  <2>1. file' = Completed(file, poll.handling) \/ file' = file
    BY DEF Stop, Shutdown, Crash, Saved
  <2>2. poll.handling \in SUBSET (1..MaxUpdates)
    BY <1>1 DEF TypeOK
  <2>3. file.maxCompleted <= file.maxReceived /\ \A u \in poll.handling : u <= file.maxReceived
    BY <1>1 DEF Marks
  <2>4. CASE file' = Completed(file, poll.handling)
    BY <1>1, <2>2, <2>3, <2>4, CompletedFile
  <2>5. CASE file' = file
    BY <1>1, <2>3, <2>5 DEF Files
  <2> QED  BY <2>1, <2>4, <2>5
<1>3. /\ Off \in Monitors /\ Off.pc = "off" /\ Off.told = FALSE
  <2>1. 0 \in 0..AlertThreshold /\ NeverSent \in Sendings
    BY SecurityMonitorAssumption DEF NeverSent, Long, Sendings, Ranks, None
  <2> QED  BY <2>1 DEF Off, Fresh, Monitors, None
<1>4. intact' \in BOOLEAN /\ faults' \in 0..MaxFaults
      /\ (~intact' \/ (intact' = intact /\ mon.pc = "raised"))
  <2>1. intact \in BOOLEAN /\ faults \in 0..MaxFaults /\ MaxFaults \in Nat
    BY <1>1, SecurityMonitorAssumption DEF TypeOK
  <2>2. CASE Stop
    <3>1. intact' = intact /\ faults' = faults /\ mon.pc = "raised"
      BY <2>2 DEF Stop
    <3> QED  BY <2>1, <3>1
  <2>3. CASE Shutdown \/ Crash
    <3>1. intact' = FALSE /\ faults < MaxFaults /\ faults' = faults + 1
      BY <2>3 DEF Shutdown, Crash, Fault
    <3>2. intact' \in BOOLEAN /\ ~intact'
      BY <3>1, Zenon
    <3>3. faults' \in 0..MaxFaults
      BY <2>1, <3>1
    <3> QED  BY <3>2, <3>3
  <2> QED  BY <2>2, <2>3
<1>5. TypeOK'
  <2>1. poll' \in [received : 0..MaxUpdates, handling : SUBSET (1..MaxUpdates)]
    BY <1>1 DEF TypeOK
  <2> QED  BY <1>1, <1>2, <1>3, <1>4, <2>1 DEF TypeOK
<1>6. Marks' /\ MarksGo
  <2>1. poll'.handling = {}
    BY <1>1 DEF TypeOK
  <2> QED  BY <1>2, <2>1 DEF Marks, MarksGo, Files
<1>7. Seen' /\ News'
  BY <1>1, <1>3 DEF Seen, News
<1>8. Distinct(file)' /\ FirstKept
  BY <1>2, SameKeeps DEF SecurityInv, SameIncidents
<1>9. Closed'
  <2>1. Open(file') = Open(file)
    BY <1>2 DEF Open
  <2> QED  BY <1>1, <1>3, <1>4, <2>1 DEF SecurityInv, Closed, Repairing
<1>10. Vouched
  BY <1>1, <1>2 DEF Vouched, Files, Ages, Expired
<1> QED  BY <1>5, <1>6, <1>7, <1>8, <1>9, <1>10 DEF Sound, SecurityInv

\* A new process starts beside the file of the last.
LEMMA RestartKeeps == SecurityInv /\ Restart => Sound
<1> SUFFICES ASSUME SecurityInv, Restart PROVE Sound
  OBVIOUS
<1>1. /\ TypeOK /\ file \in Files /\ phase = "down" /\ phase' = "starting" /\ mon' = Fresh
      /\ poll' = [received |-> telegram.offset, handling |-> {}]
      /\ UNCHANGED <<config, telegram, calm, diskOk, faults, file, heard, intact>>
  BY DEF SecurityInv, TypeOK, Restart, world
<1>2. Fresh \in Monitors /\ Fresh.pc = "me" /\ Fresh.told = FALSE
  <2>1. 0 \in 0..AlertThreshold /\ NeverSent \in Sendings
    BY SecurityMonitorAssumption DEF NeverSent, Long, Sendings, Ranks, None
  <2> QED  BY <2>1 DEF Fresh, Monitors, None
<1>3. TypeOK'
  <2>1. poll' \in [received : 0..MaxUpdates, handling : SUBSET (1..MaxUpdates)]
    BY <1>1 DEF TypeOK, Services
  <2> QED  BY <1>1, <1>2, <2>1 DEF TypeOK
<1>4. Marks' /\ MarksGo
  <2>1. poll'.handling = {}
    BY <1>1
  <2> QED  BY <1>1, <2>1 DEF SecurityInv, Marks, MarksGo, Files
<1>5. Seen' /\ News'
  BY <1>1, <1>2 DEF Seen, News
<1>6. Distinct(file)' /\ FirstKept
  BY <1>1, SameKeeps DEF SecurityInv, SameIncidents
<1>7. Closed'
  BY <1>1 DEF SecurityInv, Closed, Repairing
<1>8. Vouched
  BY <1>1 DEF Vouched, Files, Ages, Expired
<1> QED  BY <1>3, <1>4, <1>5, <1>6, <1>7, <1>8 DEF Sound, SecurityInv

\* An update is received.
LEMMA ReceiveKeeps == SecurityInv /\ Receive => Sound
<1> SUFFICES ASSUME SecurityInv, Receive PROVE Sound
  OBVIOUS
<1> DEFINE u == poll.received + 1
           g == Received(file, u)
<1>1. /\ TypeOK /\ file \in Files /\ mon \in Monitors /\ Marks /\ u \in 1..MaxUpdates
      /\ poll' = [received |-> u, handling |-> IF diskOk THEN poll.handling \cup {u}
                                               ELSE poll.handling]
      /\ file' = Saved(g) /\ phase = "polling"
      /\ UNCHANGED <<config, calm, diskOk, faults, phase, mon, heard, intact>>
  BY SecurityMonitorAssumption DEF SecurityInv, TypeOK, Receive, watch
<1>2. telegram' \in Services
  BY <1>1 DEF TypeOK, Receive, Services
<1> HIDE DEF u
<1>3. /\ g \in Files
      /\ Len(g.incidents) = Len(file.incidents)
      /\ g.current = file.current
      /\ g.lastEmpty = file.lastEmpty
      /\ g.maxCompleted = file.maxCompleted
      /\ u <= g.maxReceived /\ file.maxReceived <= g.maxReceived
      /\ Open(g) = Open(file)
      /\ DOMAIN g.incidents = DOMAIN file.incidents
      /\ \A i \in DOMAIN file.incidents :
           /\ g.incidents[i].id = file.incidents[i].id
           /\ g.incidents[i].recovered # file.incidents[i].recovered
                => /\ file.incidents[i].recovered = 0
                   /\ file.incidents[i].status = "auto_recovered"
                   /\ file.incidents[i].id = file.current
  BY <1>1, ReceivedFile
<1> HIDE DEF g
<1>4. \/ diskOk /\ file' = g
      \/ ~diskOk /\ file' = file
  BY <1>1 DEF Saved
<1>5. TypeOK'
  <2>1. poll' \in [received : 0..MaxUpdates, handling : SUBSET (1..MaxUpdates)]
    <3>1. u \in 0..MaxUpdates /\ poll.handling \in SUBSET (1..MaxUpdates)
      BY <1>1 DEF TypeOK
    <3>2. poll.handling \cup {u} \in SUBSET (1..MaxUpdates)
      BY <1>1, <3>1
    <3> QED  BY <1>1, <3>1, <3>2
  <2> QED  BY <1>1, <1>2, <1>3, <1>4, <2>1 DEF TypeOK
<1>6. Marks' /\ MarksGo
  <2>1. /\ file.maxCompleted \in Nat /\ file.maxReceived \in Nat /\ g.maxReceived \in Nat
        /\ u \in Nat
    BY <1>1, <1>3, SecurityMonitorAssumption DEF Files
  <2>2. \A v \in poll.handling : v \in Nat
    BY <1>1 DEF TypeOK
  <2>3. CASE diskOk /\ file' = g
    <3>1. poll'.handling = poll.handling \cup {u}
      BY <1>1, <2>3
    <3> QED  BY <1>1, <1>3, <2>1, <2>2, <2>3, <3>1 DEF Marks, MarksGo
  <2>4. CASE ~diskOk /\ file' = file
    <3>1. poll'.handling = poll.handling
      BY <1>1, <2>4
    <3> QED  BY <1>1, <2>1, <2>4, <3>1 DEF Marks, MarksGo
  <2> QED  BY <1>4, <2>3, <2>4
<1>7. Seen' /\ News'
  BY <1>1 DEF SecurityInv, Seen, News
<1>8. Distinct(file)' /\ FirstKept
  <2>1. CASE file' = file
    BY <2>1, SameKeeps DEF SecurityInv, SameIncidents
  <2>2. CASE file' = g
    BY <1>3, <2>2 DEF SecurityInv, Distinct, FirstKept
  <2> QED  BY <1>4, <2>1, <2>2
<1>9. Closed'
  BY <1>1, <1>3, <1>4 DEF SecurityInv, Closed, Repairing
<1>10. Vouched
  BY <1>1, <1>3, <1>4 DEF Vouched, Files, Ages, Expired
<1> QED  BY <1>5, <1>6, <1>7, <1>8, <1>9, <1>10 DEF Sound, SecurityInv

\* A handler is done with its update.
LEMMA CompleteKeeps == SecurityInv /\ Complete => Sound
<1> SUFFICES ASSUME SecurityInv, Complete PROVE Sound
  OBVIOUS
<1>1. /\ TypeOK /\ file \in Files /\ Marks /\ poll.handling \in SUBSET (1..MaxUpdates)
  BY DEF SecurityInv, TypeOK
<1>2. PICK u \in poll.handling :
        /\ file' = Saved(Completed(file, {u}))
        /\ poll' = [poll EXCEPT !.handling = @ \ {u}]
        /\ UNCHANGED <<config, telegram, calm, diskOk, faults, phase, mon, heard, intact>>
  BY DEF Complete, world, watch
<1>3. /\ file' \in Files /\ file'.incidents = file.incidents
      /\ file'.lastEmpty = file.lastEmpty
      /\ file'.maxReceived = file.maxReceived
      /\ file.maxCompleted <= file'.maxCompleted /\ file'.maxCompleted <= file.maxReceived
  <2>1. {u} \in SUBSET (1..MaxUpdates)
    BY <1>1
  <2>2. file.maxCompleted <= file.maxReceived /\ \A v \in {u} : v <= file.maxReceived
    BY <1>1 DEF Marks
  <2>3. CASE file' = Completed(file, {u})
    BY <1>1, <2>1, <2>2, <2>3, CompletedFile
  <2>4. CASE file' = file
    BY <1>1, <2>2, <2>4 DEF Files
  <2> QED  BY <1>2, <2>3, <2>4 DEF Saved
<1>4. poll' \in [received : 0..MaxUpdates, handling : SUBSET (1..MaxUpdates)]
      /\ poll'.handling \subseteq poll.handling
  BY <1>1, <1>2 DEF TypeOK
<1>5. TypeOK'
  BY <1>1, <1>2, <1>3, <1>4 DEF TypeOK
<1>6. Marks' /\ MarksGo
  BY <1>1, <1>3, <1>4 DEF Marks, MarksGo, Files
<1>7. Seen' /\ News'
  BY <1>2 DEF SecurityInv, Seen, News
<1>8. Distinct(file)' /\ FirstKept
  BY <1>3, SameKeeps DEF SecurityInv, SameIncidents
<1>9. Closed'
  <2>1. Open(file') = Open(file)
    BY <1>3 DEF Open
  <2> QED  BY <1>2, <2>1 DEF SecurityInv, Closed, Repairing
<1>10. Vouched
  BY <1>2, <1>3, <1>1 DEF Vouched, Files, Ages, Expired
<1> QED  BY <1>5, <1>6, <1>7, <1>8, <1>9, <1>10 DEF Sound, SecurityInv

-----------------------------------------------------------------------------
(* The theorems.                                                            *)

\* Every step keeps the invariant and does to the file what it may.
LEMMA SecurityStep == SecurityInv /\ [Next]_vars => SecurityInv' /\ [Sound]_vars
<1> SUFFICES ASSUME SecurityInv, [Next]_vars PROVE SecurityInv' /\ [Sound]_vars
  OBVIOUS
<1>1. CASE Next
  <2>1. CASE Monitor
    <3>1. CASE Call
      BY <3>1, IdentityKeeps, WebhookEmptyKeeps, WebhookDetectedKeeps, RepairKeeps,
         ProfileKeeps, HeartbeatKeeps, SendingKeeps DEF Call, Sound
    <3>2. CASE Failure
      BY <3>2, CheckFailsKeeps, IdentityKeeps, RepairKeeps, ProfileKeeps, SendingKeeps
         DEF Failure, Sound
    <3>3. CASE Started \/ Wake
      BY <3>3, BetweenKeeps DEF Sound
    <3> QED  BY <2>1, <3>1, <3>2, <3>3 DEF Monitor
  <2>2. CASE Environment
    BY <2>2, EnvironmentKeeps, IntervalKeeps, EndKeeps, RestartKeeps DEF Environment, Sound
  <2>3. CASE Process
    BY <2>3, EnvironmentKeeps, EndKeeps, ReceiveKeeps, CompleteKeeps DEF Process, Sound
  <2> QED  BY <1>1, <2>1, <2>2, <2>3 DEF Next
<1>2. CASE UNCHANGED vars
  <2>1. UNCHANGED <<config, telegram, phase, mon, poll, file, calm, diskOk, heard, intact,
                    faults>>
    BY <1>2 DEF vars
  <2>2. TypeOK'
    BY <2>1 DEF SecurityInv, TypeOK
  <2>3. Marks' /\ Seen' /\ News' /\ Distinct(file)'
    BY <2>1 DEF SecurityInv, Marks, Seen, News, Distinct
  <2>4. Closed'
    BY <2>1 DEF SecurityInv, Closed, Repairing
  <2> QED  BY <1>2, <2>2, <2>3, <2>4 DEF SecurityInv
<1> QED  BY <1>1, <1>2

\* The invariant always holds.
LEMMA SecurityAlways == Spec => []SecurityInv
<1>1. SecurityInv /\ [Next]_vars => SecurityInv'
  BY SecurityStep
<1> QED  BY <1>1, SecurityInit, PTL DEF Spec

\* Every variable keeps its type: in particular the file never holds more
\* incidents than it may, and each has a name of its own to be given.
THEOREM TypeCorrect == Spec => []TypeOK
<1>1. SecurityInv => TypeOK
  BY DEF SecurityInv
<1> QED  BY <1>1, SecurityAlways, PTL

\* The marks of received and completed updates (record_received_update and
\* record_completed_update, audit.py) keep their order and never go back.
THEOREM MarksStand == Spec => WatermarksSound
<1>1. SecurityInv /\ [Next]_vars
        => [/\ file'.maxCompleted <= file'.maxReceived
            /\ file.maxReceived <= file'.maxReceived
            /\ file.maxCompleted <= file'.maxCompleted]_vars
  BY SecurityStep DEF Sound, MarksGo
<1> QED  BY <1>1, SecurityAlways, PTL DEF Spec, WatermarksSound

\* The first update after an incident (record_received_update) is recorded
\* once, for the current incident and after its webhook was seen removed.
THEOREM FirstUpdateStands == Spec => FirstUpdateKept
<1>1. SecurityInv /\ [Next]_vars
        => [\A i \in DOMAIN file.incidents, j \in DOMAIN file'.incidents :
              LET a == file.incidents[i]  b == file'.incidents[j]
              IN  (a.id = b.id /\ a.recovered # b.recovered)
                    => a.recovered = 0 /\ a.status = "auto_recovered"
                         /\ a.id = file.current]_vars
  BY SecurityStep DEF Sound, FirstKept
<1> QED  BY <1>1, SecurityAlways, PTL DEF Spec, FirstUpdateKept

\* No check is recorded as good, and no process goes on from its first one,
\* unless that check saw the webhook empty (monitor.py run and check_once).
THEOREM ChecksVouched == Spec => VouchedFor
<1>1. SecurityInv /\ [Next]_vars
        => [(file'.lastEmpty < file.lastEmpty \/ (phase = "starting" /\ phase' = "syncing"))
              => mon.sawEmpty]_vars
  BY SecurityStep DEF Sound, Vouched
<1> QED  BY <1>1, SecurityAlways, PTL DEF Spec, VouchedFor

\* No incident is left open (begin_webhook_incident, mark_webhook_incident)
\* unless a write was refused or the process was ended from outside.
THEOREM NoneLeftOpen == Spec => []IncidentsClosed
<1>1. SecurityInv => IncidentsClosed
  <2> SUFFICES ASSUME SecurityInv, NEW i \in DOMAIN file.incidents,
                      file.incidents[i].status = "detected", intact
               PROVE  /\ mon.incident = file.incidents[i].id
                      /\ mon.pc \in {"sending", "delete", "verify"}
    BY DEF IncidentsClosed
  <2>1. file.incidents[i].id \in Open(file)
    BY DEF Open
  <2> QED  BY <2>1 DEF SecurityInv, Closed, Repairing
<1> QED  BY <1>1, SecurityAlways, PTL

\* A recovery is told only after a failure was (resilient_monitor.py).
THEOREM RecoveryToldAsNews == Spec => []RecoveryIsNews
<1>1. SecurityInv => RecoveryIsNews
  BY DEF SecurityInv, News, RecoveryIsNews
<1> QED  BY <1>1, SecurityAlways, PTL

-----------------------------------------------------------------------------
(* Recursive functions, by induction.                                       *)

\* A set of numbers with 0 that has with each its successor has all of them.
LEMMA AllNaturals ==
  ASSUME NEW T, 0 \in T, \A n \in Nat : n \in T => n + 1 \in T
  PROVE  Nat \subseteq T
<1> SUFFICES ASSUME Nat \ T # {} PROVE FALSE
  OBVIOUS
<1>1. PICK n \in Nat \ T : \A m \in Nat \ T : n <= m
  <2>1. Nat \ T \in SUBSET Nat
    OBVIOUS
  <2> QED BY <2>1, LeastIn
<1>2. n - 1 \in Nat /\ n - 1 \in T
  BY <1>1
<1> QED BY <1>1, <1>2

\* A loop over n elements that computes a value from the one before has one.
LoopSolved(f, n, base, step) ==
  f = [i \in 0..n |-> IF i = 0 THEN base ELSE step[<<f[i - 1], i>>]]

\* Such a loop runs to its end, whatever its step computes.
LEMMA LoopExists ==
  ASSUME NEW n \in Nat, NEW A, NEW base \in A, NEW step \in [A \X (1..n) -> A]
  PROVE  \E f \in [0..n -> A] : LoopSolved(f, n, base, step)
<1> DEFINE Value(f, i) == IF i = 0 THEN base ELSE step[<<f[i - 1], i>>]
           Done == {k \in Nat : \E f \in [0..n -> A] : \A i \in 0..n : i <= k => f[i] = Value(f, i)}
<1>1. 0 \in Done
  <2> DEFINE f == [i \in 0..n |-> base]
  <2>1. f \in [0..n -> A] /\ \A i \in 0..n : i <= 0 => f[i] = Value(f, i)
    OBVIOUS
  <2> QED BY <2>1
<1>2. ASSUME NEW k \in Nat, k \in Done PROVE k + 1 \in Done
  <2>1. PICK f \in [0..n -> A] : \A i \in 0..n : i <= k => f[i] = Value(f, i)
    BY <1>2
  <2> DEFINE g == [i \in 0..n |-> Value(f, i)]
  <2>2. \A i \in 0..n : Value(f, i) \in A
    <3> SUFFICES ASSUME NEW i \in 0..n PROVE Value(f, i) \in A
      OBVIOUS
    <3>1. CASE i # 0
      <4>1. i - 1 \in 0..n /\ i \in 1..n
        BY <3>1
      <4>2. f[i - 1] \in A
        BY <4>1
      <4> QED BY <3>1, <4>1, <4>2
    <3> QED BY <3>1
  <2>3. g \in [0..n -> A]
    BY <2>2
  <2>4. \A i \in 0..n : i <= k => g[i] = f[i]
    BY <2>1
  <2>5. ASSUME NEW i \in 0..n, i <= k + 1 PROVE g[i] = Value(g, i)
    <3>1. CASE i # 0
      <4>1. i - 1 \in 0..n /\ i - 1 <= k
        BY <2>5, <3>1
      <4>2. g[i - 1] = f[i - 1]
        BY <2>4, <4>1
      <4>3. g[i] = Value(f, i)
        OBVIOUS
      <4> HIDE DEF g
      <4> QED BY <3>1, <4>2, <4>3
    <3> QED BY <3>1
  <2> HIDE DEF g, Value
  <2>6. \E h \in [0..n -> A] : \A i \in 0..n : i <= k + 1 => h[i] = Value(h, i)
    BY <2>3, <2>5
  <2> QED BY <2>6
<1> HIDE DEF Done
<1>3. n \in Done
  BY <1>1, <1>2, AllNaturals
<1>4. PICK f \in [0..n -> A] : \A i \in 0..n : i <= n => f[i] = Value(f, i)
  BY <1>3 DEF Done
<1>5. f = [i \in 0..n |-> Value(f, i)]
  BY <1>4
<1> QED BY <1>5 DEF LoopSolved

-----------------------------------------------------------------------------
(* Files and journals.                                                      *)

\* The recursion of FlattenSeq.
Flattening(ss) == CHOOSE f : f = [i \in 1..Len(ss) |->
  IF i = 1 THEN ss[i] ELSE f[i - 1] \o ss[i]]

\* That recursion has a solution, so CHOOSE finds one.
LEMMA FlatteningSolved ==
  ASSUME NEW E, NEW n \in Nat, NEW ss \in [1..n -> Seq(E)]
  PROVE  /\ Len(ss) = n
         /\ \A i \in 1..n : /\ Flattening(ss)[i] =
                                 IF i = 1 THEN ss[i] ELSE Flattening(ss)[i - 1] \o ss[i]
                            /\ Flattening(ss)[i] \in Seq(E)
<1>1. Len(ss) = n
  BY LenProperties
<1> DEFINE A == Seq(E)
           step == [p \in A \X (1..n) |-> p[1] \o ss[p[2]]]
           Eq(f) == f = [i \in 1..n |-> IF i = 1 THEN ss[i] ELSE f[i - 1] \o ss[i]]
<1>2. PICK f \in [0..n -> A] : LoopSolved(f, n, <<>>, step)
  <2>1. step \in [A \X (1..n) -> A] /\ <<>> \in A
    <3>1. \A p \in A, i \in 1..n : p \o ss[i] \in A
      BY ConcatProperties
    <3> HIDE DEF A
    <3>2. step \in [A \X (1..n) -> A]
      BY <3>1
    <3> QED BY <3>2, EmptySeq DEF A
  <2> HIDE DEF A, step
  <2> QED BY <2>1, LoopExists
<1> DEFINE g == [i \in 1..n |-> f[i]]
<1>3. \A i \in 1..n : g[i] = IF i = 1 THEN ss[i] ELSE g[i - 1] \o ss[i]
  <2> SUFFICES ASSUME NEW i \in 1..n PROVE g[i] = IF i = 1 THEN ss[i] ELSE g[i - 1] \o ss[i]
    OBVIOUS
  <2>1. i \in 0..n /\ i # 0 /\ i - 1 \in 0..n
    OBVIOUS
  <2>2. f[i] = step[<<f[i - 1], i>>]
    BY <1>2, <2>1 DEF LoopSolved
  <2>3. f[i - 1] \in A
    BY <2>1
  <2>4. f[i] = f[i - 1] \o ss[i]
    <3> HIDE DEF A
    <3> QED BY <2>2, <2>3
  <2>5. CASE i = 1
    <3>1. f[0] = <<>> /\ i - 1 = 0
      BY <1>2, <2>5 DEF LoopSolved
    <3>2. f[i] = <<>> \o ss[i]
      BY <2>4, <3>1
    <3>3. ss[i] \in Seq(E)
      OBVIOUS
    <3>4. f[i] = ss[i]
      BY <3>2, <3>3, ConcatEmptySeq
    <3> QED BY <2>5, <3>4
  <2>6. CASE i # 1
    <3>1. i - 1 \in 1..n
      BY <2>6
    <3> QED BY <2>4, <2>6, <3>1
  <2> QED BY <2>5, <2>6
<1>4. Eq(g)
  BY <1>3
<1>5. Eq(Flattening(ss))
  <2> HIDE DEF g
  <2> QED BY <1>1, <1>4 DEF Flattening
<1> DEFINE F == Flattening(ss)
<1>6. \A i \in 1..n : F[i] = IF i = 1 THEN ss[i] ELSE F[i - 1] \o ss[i]
  BY <1>5
<1> HIDE DEF F
<1> DEFINE Done == {k \in Nat : k + 1 <= n => F[k + 1] \in A}
<1>7. 0 \in Done
  <2>1. CASE 1 <= n
    BY <1>6, <2>1
  <2> QED BY <2>1
<1>8. ASSUME NEW k \in Nat, k \in Done PROVE k + 1 \in Done
  <2>1. CASE k + 2 <= n
    <3> DEFINE i == k + 2
    <3>1. i \in 1..n /\ i # 1 /\ i - 1 = k + 1 /\ k + 1 <= n /\ (k + 1) + 1 = i
      BY <2>1
    <3> HIDE DEF i
    <3>2. F[i - 1] \in A
      BY <1>8, <3>1
    <3>3. F[i] = F[i - 1] \o ss[i] /\ ss[i] \in Seq(E)
      BY <1>6, <3>1
    <3>4. F[i] \in A
      BY <3>2, <3>3, ConcatProperties
    <3> QED BY <3>1, <3>4
  <2>2. CASE ~(k + 2 <= n)
    BY <2>2
  <2> QED BY <2>1, <2>2
<1> HIDE DEF Done
<1>9. \A k \in Nat : k \in Done
  BY <1>7, <1>8, AllNaturals
<1>10. ASSUME NEW i \in 1..n PROVE F[i] \in A
  <2>1. i - 1 \in Nat /\ (i - 1) + 1 = i
    OBVIOUS
  <2>2. i - 1 \in Done
    BY <1>9, <2>1
  <2> QED BY <2>1, <2>2 DEF Done
<1> QED BY <1>1, <1>6, <1>10 DEF F

\* The first k sequences of ss, one after the other.
Upto(ss, k) == FlattenSeq([i \in 1..k |-> ss[i]])

\* Upto grows by one sequence after the other and ends with all of them.
LEMMA FlattenedOnce ==
  ASSUME NEW E, NEW n \in Nat, NEW ss \in [1..n -> Seq(E)]
  PROVE  /\ Upto(ss, 0) = <<>>
         /\ \A k \in 0..n : Upto(ss, k) \in Seq(E)
         /\ \A k \in 1..n : Upto(ss, k) = Upto(ss, k - 1) \o ss[k]
         /\ Upto(ss, n) = FlattenSeq(ss)
<1> DEFINE first(k) == [i \in 1..k |-> ss[i]]
<1>1. ASSUME NEW k \in 0..n PROVE first(k) \in [1..k -> Seq(E)] /\ k \in Nat /\ Len(first(k)) = k
  <2>1. k \in Nat /\ first(k) \in [1..k -> Seq(E)]
    OBVIOUS
  <2> HIDE DEF first
  <2> QED BY <2>1, FlatteningSolved
<1>2. Upto(ss, 0) = <<>>
  <2>1. Len(first(0)) = 0 /\ first(0) = <<>>
    BY <1>1
  <2> QED BY <2>1 DEF Upto, FlattenSeq
<1>3. ASSUME NEW k \in 1..n PROVE Upto(ss, k) = Flattening(first(k))[k]
  <2>1. Len(first(k)) = k /\ k # 0
    BY <1>1
  <2> HIDE DEF first
  <2>2. FlattenSeq(first(k)) = Flattening(first(k))[k]
    BY <2>1 DEF FlattenSeq, Flattening
  <2> QED BY <2>2 DEF Upto, first
<1>4. ASSUME NEW k \in 1..n
      PROVE  \A i \in 1..k : Flattening(first(k))[i] = Flattening(ss)[i]
  <2> DEFINE F == Flattening(first(k))
             G == Flattening(ss)
             Done == {m \in Nat : m + 1 <= k => F[m + 1] = G[m + 1]}
  <2>1. \A i \in 1..k : F[i] = IF i = 1 THEN ss[i] ELSE F[i - 1] \o ss[i]
    <3> DEFINE q == first(k)
    <3>1. q \in [1..k -> Seq(E)] /\ k \in Nat /\ \A i \in 1..k : q[i] = ss[i]
      BY <1>1
    <3> HIDE DEF q
    <3>2. \A i \in 1..k : /\ Flattening(q)[i] =
                               IF i = 1 THEN q[i] ELSE Flattening(q)[i - 1] \o q[i]
                          /\ Flattening(q)[i] \in Seq(E)
      BY ONLY <3>1, FlatteningSolved
    <3>3. \A i \in 1..k : Flattening(q)[i] = IF i = 1 THEN ss[i] ELSE Flattening(q)[i - 1] \o ss[i]
      BY <3>1, <3>2
    <3> QED BY <3>3 DEF q
  <2>2. \A i \in 1..n : G[i] = IF i = 1 THEN ss[i] ELSE G[i - 1] \o ss[i]
    BY FlatteningSolved
  <2> HIDE DEF F, G, first
  <2>3. 0 \in Done
    <3>1. 1 \in 1..k /\ 1 \in 1..n
      OBVIOUS
    <3>2. F[1] = ss[1] /\ G[1] = ss[1]
      BY <2>1, <2>2, <3>1
    <3> QED BY <3>2
  <2>4. ASSUME NEW m \in Nat, m \in Done PROVE m + 1 \in Done
    <3>1. CASE m + 2 <= k
      <4> DEFINE i == m + 2
      <4>1. i \in 1..k /\ i \in 1..n /\ i # 1 /\ i - 1 = m + 1 /\ m + 1 <= k /\ (m + 1) + 1 = i
        BY <3>1
      <4> HIDE DEF i
      <4>2. F[i - 1] = G[i - 1]
        BY <2>4, <4>1
      <4>3. F[i] = G[i]
        BY <2>1, <2>2, <4>1, <4>2
      <4> QED BY <4>1, <4>3
    <3>2. CASE ~(m + 2 <= k)
      BY <3>2
    <3> QED BY <3>1, <3>2
  <2> HIDE DEF Done
  <2>5. \A m \in Nat : m \in Done
    BY <2>3, <2>4, AllNaturals
  <2>6. ASSUME NEW i \in 1..k PROVE F[i] = G[i]
    <3>1. i - 1 \in Nat /\ (i - 1) + 1 = i
      OBVIOUS
    <3>2. i - 1 \in Done
      BY <2>5, <3>1
    <3> QED BY <3>1, <3>2 DEF Done
  <2> QED BY <2>6 DEF F, G
<1> HIDE DEF first
<1>5. ASSUME NEW k \in 1..n PROVE Upto(ss, k) = Flattening(ss)[k]
  BY <1>3, <1>4
<1>6. ASSUME NEW k \in 0..n PROVE Upto(ss, k) \in Seq(E)
  <2>1. CASE k = 0
    BY <1>2, <2>1, EmptySeq
  <2>2. CASE k # 0
    <3>1. k \in 1..n
      BY <2>2
    <3>2. Flattening(ss)[k] \in Seq(E)
      BY <3>1, FlatteningSolved
    <3> QED BY <1>5, <3>1, <3>2
  <2> QED BY <2>1, <2>2
<1>7. ASSUME NEW k \in 1..n PROVE Upto(ss, k) = Upto(ss, k - 1) \o ss[k]
  <2>1. Flattening(ss)[k] = IF k = 1 THEN ss[k] ELSE Flattening(ss)[k - 1] \o ss[k]
    BY FlatteningSolved
  <2>2. CASE k = 1
    <3>1. ss[k] \in Seq(E)
      OBVIOUS
    <3>2. <<>> \o ss[k] = ss[k]
      BY <3>1, ConcatEmptySeq
    <3>3. k - 1 = 0
      BY <2>2
    <3> QED BY <1>2, <1>5, <2>1, <2>2, <3>2, <3>3
  <2>3. CASE k # 1
    <3>1. k - 1 \in 1..n
      BY <2>3
    <3> QED BY <1>5, <2>1, <2>3, <3>1
  <2> QED BY <2>2, <2>3
<1>8. Upto(ss, n) = FlattenSeq(ss)
  <2>1. [i \in 1..n |-> ss[i]] = ss
    OBVIOUS
  <2> QED BY <2>1 DEF Upto
<1> QED BY <1>2, <1>6, <1>7, <1>8

\* Sequences that agree for a while, and sequences with nothing in them.
LEMMA SameUpto ==
  ASSUME NEW ss, NEW tt, NEW k \in Nat, \A i \in 1..k : ss[i] = tt[i]
  PROVE  Upto(ss, k) = Upto(tt, k)
<1>1. [i \in 1..k |-> ss[i]] = [i \in 1..k |-> tt[i]]
  OBVIOUS
<1> QED BY <1>1 DEF Upto

\* The first k of ss read as those of tt with X in front.
Behind(X, ss, tt, k) == Upto(ss, k) = X \o Upto(tt, k)

\* What is in front stays there when the sequences that follow are the same.
LEMMA BehindTheSame ==
  ASSUME NEW E, NEW n \in Nat, NEW ss \in [1..n -> Seq(E)], NEW tt \in [1..n -> Seq(E)],
         NEW X \in Seq(E), NEW a \in 0..n, Behind(X, ss, tt, a),
         \A i \in (a + 1)..n : ss[i] = tt[i]
  PROVE  Behind(X, ss, tt, n)
<1> DEFINE Done == {m \in Nat : a + m <= n => Upto(ss, a + m) = X \o Upto(tt, a + m)}
<1>1. 0 \in Done
  <2>1. a + 0 = a
    OBVIOUS
  <2> QED BY <2>1 DEF Behind
<1>2. ASSUME NEW m \in Nat, m \in Done PROVE m + 1 \in Done
  <2>1. CASE a + (m + 1) <= n
    <3> DEFINE k == a + (m + 1)
    <3>1. k \in 1..n /\ k \in (a + 1)..n /\ k - 1 = a + m /\ a + m <= n /\ a + m \in 0..n
      BY <2>1
    <3> HIDE DEF k
    <3>2. Upto(ss, k - 1) = X \o Upto(tt, k - 1)
      BY <1>2, <3>1
    <3>3. Upto(ss, k) = Upto(ss, k - 1) \o ss[k] /\ Upto(tt, k) = Upto(tt, k - 1) \o tt[k]
      BY <3>1, FlattenedOnce
    <3>4. ss[k] = tt[k] /\ tt[k] \in Seq(E) /\ Upto(tt, k - 1) \in Seq(E)
      BY <3>1, FlattenedOnce
    <3>5. (X \o Upto(tt, k - 1)) \o tt[k] = X \o (Upto(tt, k - 1) \o tt[k])
      <4> DEFINE u == Upto(tt, k - 1)
                 v == tt[k]
      <4>1. u \in Seq(E) /\ v \in Seq(E)
        BY <3>4
      <4> HIDE DEF u, v
      <4>2. (X \o u) \o v = X \o (u \o v)
        BY <4>1, ConcatAssociative
      <4> QED BY <4>2 DEF u, v
    <3>6. Upto(ss, k) = X \o Upto(tt, k)
      BY <3>2, <3>3, <3>4, <3>5
    <3> QED BY <3>6 DEF k
  <2> QED BY <2>1
<1> HIDE DEF Done
<1>3. \A m \in Nat : m \in Done
  BY <1>1, <1>2, AllNaturals
<1>4. n - a \in Nat /\ a + (n - a) = n /\ n <= n
  OBVIOUS
<1>5. n - a \in Done
  BY <1>3, <1>4
<1> QED BY <1>4, <1>5 DEF Done, Behind

\* There is nothing in the sequences after a up to c.
NoneIn(ss, a, c) == \A i \in (a + 1)..c : ss[i] = <<>>

\* Sequences with nothing in them add nothing.
LEMMA NothingBetween ==
  ASSUME NEW E, NEW n \in Nat, NEW ss \in [1..n -> Seq(E)],
         NEW a \in 0..n, NEW c \in a..n, NoneIn(ss, a, c)
  PROVE  Upto(ss, c) = Upto(ss, a)
<1> USE DEF NoneIn
<1> DEFINE Done == {m \in Nat : a + m <= c => Upto(ss, a + m) = Upto(ss, a)}
<1>1. 0 \in Done
  <2>1. a + 0 = a
    OBVIOUS
  <2> QED BY <2>1
<1>2. ASSUME NEW m \in Nat, m \in Done PROVE m + 1 \in Done
  <2>1. CASE a + (m + 1) <= c
    <3> DEFINE k == a + (m + 1)
    <3>1. k \in 1..n /\ k \in (a + 1)..c /\ k - 1 = a + m /\ a + m <= c /\ a + m \in 0..n
      BY <2>1
    <3> HIDE DEF k
    <3>2. Upto(ss, k - 1) = Upto(ss, a)
      BY <1>2, <3>1
    <3>3. Upto(ss, k) = Upto(ss, k - 1) \o ss[k] /\ Upto(ss, k - 1) \in Seq(E)
      BY <3>1, FlattenedOnce
    <3>4. ss[k] = <<>>
      BY <3>1
    <3>5. Upto(ss, k - 1) \o <<>> = Upto(ss, k - 1)
      BY <3>3, ConcatEmptySeq
    <3>6. Upto(ss, k) = Upto(ss, a)
      BY <3>2, <3>3, <3>4, <3>5
    <3> QED BY <3>6 DEF k
  <2> QED BY <2>1
<1> HIDE DEF Done
<1>3. \A m \in Nat : m \in Done
  BY <1>1, <1>2, AllNaturals
<1>4. c - a \in Nat /\ a + (c - a) = c /\ c <= c
  OBVIOUS
<1>5. c - a \in Done
  BY <1>3, <1>4
<1> QED BY <1>4, <1>5 DEF Done

\* A line holds objects of E.
LinesOf(E) == [text : Seq(E), bytes : {"whole", "cut", "broken"}, ended : BOOLEAN]
\* A journal is a file for each number from 0 to that of the oldest backup.
Journals(E, backups) == [0..backups -> Seq(LinesOf(E))]

\* So does a line that is written, whatever becomes of it.
LEMMA WrittenLines ==
  ASSUME NEW E, NEW e \in E, NEW line \in {Line(e)} \cup CutLines(e)
  PROVE  line \in LinesOf(E) /\ line.text \in {<<>>, <<e>>}
<1> DEFINE S == Seq(E)
           T == {<<e>>, <<>>}
           one == <<e>>
           none == <<>>
<1>1. one \in S /\ none \in S /\ T = {one, none}
  BY EmptySeq
<1>2. \/ line = [text |-> one, bytes |-> "whole", ended |-> TRUE]
      \/ line \in [text : T, bytes : {"whole"}, ended : {FALSE}]
      \/ line = [text |-> none, bytes |-> "cut", ended |-> FALSE]
  BY DEF Line, TornLines, CutLines
<1> HIDE DEF S, T, one, none
<1>3. line \in [text : S, bytes : {"whole", "cut", "broken"}, ended : BOOLEAN]
      /\ line.text \in {one, none}
  <2>1. CASE line = [text |-> one, bytes |-> "whole", ended |-> TRUE]
    BY ONLY <1>1, <2>1
  <2>2. CASE line \in [text : T, bytes : {"whole"}, ended : {FALSE}]
    BY ONLY <1>1, <2>2
  <2>3. CASE line = [text |-> none, bytes |-> "cut", ended |-> FALSE]
    BY ONLY <1>1, <2>3
  <2> QED BY <1>2, <2>1, <2>2, <2>3
<1> QED BY <1>3 DEF LinesOf, S, one, none

\* One sequence begins another.
Begins(E, part, long) == \E t \in Seq(E) : long = part \o t

\* What is read of the first lines of a file begins what is read of more of them.
LEMMA FirstLines ==
  ASSUME NEW E, NEW lines \in Seq(LinesOf(E)), NEW l \in 0..Len(lines), NEW k \in 0..l
  PROVE  /\ SubSeq(lines, 1, k) \in Seq(LinesOf(E))
         /\ SubSeq(lines, 1, k) = [i \in 1..k |-> lines[i]]
         /\ Parsed(lines) \in Seq(E) /\ Parsed(SubSeq(lines, 1, k)) \in Seq(E)
         /\ Begins(E, Parsed(SubSeq(lines, 1, k)), Parsed(SubSeq(lines, 1, l)))
<1> DEFINE n == Len(lines)
           ss == [i \in 1..n |-> lines[i].text]
<1>1. /\ n \in Nat /\ lines \in [1..n -> LinesOf(E)] /\ l \in 0..n /\ k \in 0..n
      /\ \A i \in 1..n : lines[i] \in LinesOf(E)
  BY LenProperties, ElementOfSeq
<1>2. ss \in [1..n -> Seq(E)]
  <2>1. \A i \in 1..n : lines[i].text \in Seq(E)
    BY <1>1 DEF LinesOf
  <2> QED BY <2>1
<1>3. ASSUME NEW m \in 0..n
      PROVE  /\ SubSeq(lines, 1, m) \in Seq(LinesOf(E))
             /\ SubSeq(lines, 1, m) = [i \in 1..m |-> lines[i]]
             /\ Parsed(SubSeq(lines, 1, m)) = Upto(ss, m) /\ Upto(ss, m) \in Seq(E)
  <2> DEFINE part == SubSeq(lines, 1, m)
             L == LinesOf(E)
  <2>1. m \in Int /\ 1 \in Int /\ \A i \in 1..m : lines[i] \in L
    BY <1>1
  <2>2. part \in Seq(L) /\ Len(part) = (IF 1 <= m THEN m - 1 + 1 ELSE 0)
        /\ \A i \in 1..(m - 1 + 1) : part[i] = lines[1 + i - 1]
    <3> HIDE DEF L
    <3> QED BY <2>1, SubSeqProperties
  <2>3. Len(part) = m /\ \A i \in 1..m : part[i] = lines[i]
    BY <1>1, <2>2
  <2> HIDE DEF part
  <2>4. part \in [1..m -> L]
    BY <2>2, <2>3, LenProperties
  <2> HIDE DEF L
  <2>5. part = [i \in 1..m |-> lines[i]]
    BY <2>3, <2>4
  <2>6. [i \in DOMAIN part |-> part[i].text] = [i \in 1..m |-> ss[i]]
    <3>1. DOMAIN part = 1..m /\ \A i \in 1..m : i \in 1..n
      BY <2>4, <1>1
    <3> QED BY <2>3, <3>1
  <2>7. Parsed(part) = Upto(ss, m)
    BY <2>6 DEF Parsed, Upto
  <2>8. Upto(ss, m) \in Seq(E)
    <3> HIDE DEF ss, n
    <3> QED BY <1>1, <1>2, FlattenedOnce
  <2> QED BY <2>2, <2>5, <2>7, <2>8 DEF part, L
<1>4. Parsed(lines) \in Seq(E)
  <2>1. n \in 0..n
    BY <1>1
  <2>2. SubSeq(lines, 1, n) = lines
    <3>1. SubSeq(lines, 1, n) = [i \in 1..n |-> lines[i]]
      BY <1>3, <2>1
    <3> QED BY <1>1, <3>1
  <2>3. Parsed(SubSeq(lines, 1, n)) \in Seq(E)
    BY <1>3, <2>1
  <2> QED BY <2>2, <2>3
<1>5. \E t \in Seq(E) : Upto(ss, l) = Upto(ss, k) \o t
  <2> DEFINE Done == {m \in Nat : k + m <= n => \E t \in Seq(E) : Upto(ss, k + m) = Upto(ss, k) \o t}
  <2> HIDE DEF ss, n
  <2>1. 0 \in Done
    <3>1. Upto(ss, k) \in Seq(E)
      BY <1>1, <1>3
    <3>2. Upto(ss, k) = Upto(ss, k) \o <<>> /\ <<>> \in Seq(E) /\ k + 0 = k
      BY <3>1, ConcatEmptySeq, EmptySeq
    <3>3. \E t \in Seq(E) : Upto(ss, k + 0) = Upto(ss, k) \o t
      BY <3>2
    <3> QED BY <3>3
  <2>2. ASSUME NEW m \in Nat, m \in Done PROVE m + 1 \in Done
    <3>1. CASE k + (m + 1) <= n
      <4> DEFINE h == k + (m + 1)
      <4>1. h \in 1..n /\ h - 1 = k + m /\ k + m <= n
        BY <1>1, <3>1
      <4> HIDE DEF h
      <4>2. PICK t \in Seq(E) : Upto(ss, h - 1) = Upto(ss, k) \o t
        BY <2>2, <4>1
      <4>3. Upto(ss, h) = Upto(ss, h - 1) \o ss[h] /\ ss[h] \in Seq(E)
        BY <1>1, <1>2, <4>1, FlattenedOnce
      <4> DEFINE u == Upto(ss, k)
                 v == ss[h]
      <4>4. u \in Seq(E) /\ v \in Seq(E)
        BY <1>1, <1>3, <4>3
      <4> HIDE DEF u, v
      <4>5. (u \o t) \o v = u \o (t \o v) /\ t \o v \in Seq(E)
        BY ONLY <4>4, t \in Seq(E), ConcatAssociative, ConcatProperties
      <4>6. Upto(ss, h) = u \o (t \o v)
        BY <4>2, <4>3, <4>5 DEF u, v
      <4>7. \E w \in Seq(E) : Upto(ss, h) = Upto(ss, k) \o w
        BY <4>5, <4>6 DEF u
      <4> QED BY <4>7 DEF h
    <3> QED BY <3>1
  <2> HIDE DEF Done
  <2>3. \A m \in Nat : m \in Done
    BY <2>1, <2>2, AllNaturals
  <2>4. l - k \in Nat /\ k + (l - k) = l /\ l <= n
    BY <1>1
  <2>5. l - k \in Done
    BY <2>3, <2>4
  <2> QED BY <2>4, <2>5 DEF Done
<1>6. Begins(E, Upto(ss, k), Upto(ss, l))
  BY <1>5 DEF Begins
<1> HIDE DEF ss
<1> QED BY <1>1, <1>3, <1>4, <1>6

\* What is appended is read after what was there, or takes the end of it away.
LEMMA AppendedReads ==
  ASSUME NEW E, NEW lines \in Seq(LinesOf(E)), NEW line \in LinesOf(E)
  PROVE  /\ Parsed(lines) \in Seq(E) /\ Parsed(Appended(lines, line)) \in Seq(E)
         /\ Appended(lines, line) \in Seq(LinesOf(E))
         /\ \/ Parsed(Appended(lines, line)) = Parsed(lines) \o line.text
            \/ \E t \in Seq(E) : Parsed(lines) = Parsed(Appended(lines, line)) \o t
<1> DEFINE Texts(f) == [i \in DOMAIN f |-> f[i].text]
           n == Len(lines)
           ss == Texts(lines)
           tt == Texts(Appended(lines, line))
<1>1. n \in Nat /\ DOMAIN lines = 1..n /\ \A i \in 1..n : lines[i] \in LinesOf(E)
  BY LenProperties, ElementOfSeq
<1>2. ss \in [1..n -> Seq(E)]
  <2>1. \A i \in 1..n : lines[i].text \in Seq(E)
    BY <1>1 DEF LinesOf
  <2> QED BY <1>1, <2>1
<1>3. Parsed(lines) = Upto(ss, n) /\ Parsed(lines) \in Seq(E)
  <2>1. n \in 0..n
    BY <1>1
  <2> HIDE DEF ss, n
  <2>2. Upto(ss, n) = FlattenSeq(ss) /\ Upto(ss, n) \in Seq(E)
    BY <1>1, <1>2, <2>1, FlattenedOnce
  <2> QED BY <2>2 DEF Parsed, ss
<1>4. Parsed(Appended(lines, line)) = FlattenSeq(tt)
  BY DEF Parsed
<1>5. line.text \in Seq(E) /\ line.ended \in BOOLEAN /\ line.bytes \in {"whole", "cut", "broken"}
  BY DEF LinesOf
<1>6. CASE IsOpen(lines)
  <2> DEFINE glued == [text |-> <<>>, ended |-> line.ended,
                       bytes |-> IF lines[n].bytes = "whole" THEN line.bytes ELSE "broken"]
  <2>1. glued \in LinesOf(E)
    <3>1. <<>> \in Seq(E)
      BY EmptySeq
    <3> QED BY <1>5, <3>1 DEF LinesOf
  <2>2. Appended(lines, line) = [lines EXCEPT ![n] = glued]
    BY <1>6 DEF Appended
  <2>3. n \in 1..n
    <3>1. lines # <<>>
      BY <1>6 DEF IsOpen
    <3>2. n \in Nat \ {0}
      BY <3>1, EmptySeq
    <3> QED BY <3>2
  <2> HIDE DEF glued
  <2>4. /\ Appended(lines, line) \in Seq(LinesOf(E)) /\ DOMAIN Appended(lines, line) = 1..n
        /\ \A i \in 1..n : Appended(lines, line)[i] = IF i = n THEN glued ELSE lines[i]
    BY <1>1, <2>1, <2>2, <2>3, ExceptSeq, LenProperties
  <2>5. \A i \in 1..n : tt[i] = IF i = n THEN <<>> ELSE ss[i]
    <3> SUFFICES ASSUME NEW i \in 1..n PROVE tt[i] = IF i = n THEN <<>> ELSE ss[i]
      OBVIOUS
    <3>1. tt[i] = Appended(lines, line)[i].text
      BY <2>4
    <3>2. ss[i] = lines[i].text
      BY <1>1
    <3>3. glued.text = <<>>
      BY DEF glued
    <3> QED BY <2>4, <3>1, <3>2, <3>3
  <2>6. tt \in [1..n -> Seq(E)]
    <3>1. \A i \in 1..n : tt[i] \in Seq(E)
      BY <1>2, <2>5, EmptySeq
    <3>2. DOMAIN tt = 1..n /\ tt = [i \in DOMAIN tt |-> tt[i]]
      BY <2>4
    <3> HIDE DEF tt
    <3> QED BY <3>1, <3>2
  <2> HIDE DEF tt, ss, n
  <2>7. n - 1 \in 0..n /\ \A i \in 1..(n - 1) : i \in 1..n /\ i # n
    BY <1>1, <2>3
  <2>8. Upto(tt, n - 1) = Upto(ss, n - 1)
    <3>1. \A i \in 1..(n - 1) : tt[i] = ss[i]
      BY <2>5, <2>7
    <3>2. n - 1 \in Nat
      BY <1>1, <2>3
    <3> QED BY <3>1, <3>2, SameUpto
  <2>9. /\ Upto(tt, n) = Upto(tt, n - 1) \o <<>> /\ Upto(tt, n - 1) \in Seq(E)
        /\ Upto(tt, n) = FlattenSeq(tt)
    <3>1. tt[n] = <<>>
      BY <2>3, <2>5
    <3>2. Upto(tt, n) = Upto(tt, n - 1) \o tt[n] /\ Upto(tt, n - 1) \in Seq(E)
          /\ Upto(tt, n) = FlattenSeq(tt)
      BY <1>1, <2>3, <2>6, <2>7, FlattenedOnce
    <3> QED BY <3>1, <3>2
  <2>10. Upto(ss, n) = Upto(ss, n - 1) \o ss[n] /\ ss[n] \in Seq(E)
    BY <1>1, <1>2, <2>3, FlattenedOnce
  <2>11. FlattenSeq(tt) = Upto(ss, n - 1) /\ FlattenSeq(tt) \in Seq(E)
    <3>1. Upto(tt, n - 1) \o <<>> = Upto(tt, n - 1)
      BY <2>9, ConcatEmptySeq
    <3> QED BY <2>8, <2>9, <3>1
  <2>12. Parsed(lines) = Parsed(Appended(lines, line)) \o ss[n]
    BY <1>3, <1>4, <2>10, <2>11
  <2> QED BY <1>3, <1>4, <2>4, <2>10, <2>11, <2>12
<1>7. CASE ~IsOpen(lines)
  <2>1. Appended(lines, line) = Append(lines, line)
    BY <1>7 DEF Appended
  <2>2. /\ Appended(lines, line) \in Seq(LinesOf(E)) /\ DOMAIN Appended(lines, line) = 1..(n + 1)
        /\ \A i \in 1..n : Appended(lines, line)[i] = lines[i]
        /\ Appended(lines, line)[n + 1] = line
    BY <2>1, AppendProperties, LenProperties
  <2>3. n + 1 \in 1..(n + 1) /\ n + 1 \in Nat /\ \A i \in 1..n : i \in 1..(n + 1)
    BY <1>1
  <2>4. (\A i \in 1..n : tt[i] = ss[i]) /\ tt[n + 1] = line.text
    BY <1>1, <2>2, <2>3
  <2>5. tt \in [1..(n + 1) -> Seq(E)]
    <3>1. \A i \in 1..(n + 1) : i = n + 1 \/ i \in 1..n
      BY <1>1
    <3>2. \A i \in 1..(n + 1) : tt[i] \in Seq(E)
      BY <1>2, <1>5, <2>4, <3>1
    <3>3. DOMAIN tt = 1..(n + 1) /\ tt = [i \in DOMAIN tt |-> tt[i]]
      BY <2>2
    <3> HIDE DEF tt
    <3> QED BY <3>2, <3>3
  <2> HIDE DEF tt, ss, n
  <2>6. Upto(tt, n) = Upto(ss, n)
    BY <1>1, <2>4, SameUpto
  <2> DEFINE m == n + 1
  <2>7. m \in Nat /\ m \in 1..m /\ m - 1 = n /\ tt \in [1..m -> Seq(E)] /\ tt[m] = line.text
    BY <1>1, <2>3, <2>4, <2>5
  <2> HIDE DEF m
  <2>8. Upto(tt, m) = Upto(tt, m - 1) \o tt[m] /\ Upto(tt, m) = FlattenSeq(tt)
    BY <2>7, FlattenedOnce
  <2>9. FlattenSeq(tt) = Parsed(lines) \o line.text
    BY <1>3, <2>6, <2>7, <2>8
  <2>10. Parsed(lines) \o line.text \in Seq(E)
    BY <1>3, <1>5, ConcatProperties
  <2> QED BY <1>3, <1>4, <2>2, <2>9, <2>10
<1> QED BY <1>6, <1>7

\* Of an empty file nothing is read.
LEMMA NothingParsed == Parsed(<<>>) = <<>>
<1>1. [i \in DOMAIN <<>> |-> <<>>[i].text] = <<>>
  OBVIOUS
<1> QED BY <1>1 DEF Parsed, FlattenSeq

\* The objects of a journal, the oldest first, and those of its files apart.
Parts(j, b) == [i \in 1..(b + 1) |-> Parsed(j[b + 1 - i])]
\* All objects that can be read of a journal, the oldest first.
Chain(j, b) == Oldest2Newest(j, AllFiles(b))

\* The chain is what is read of the files, one after the other.
LEMMA ChainOfParts ==
  ASSUME NEW E, NEW b \in Nat, NEW j \in Journals(E, b)
  PROVE  /\ Parts(j, b) \in [1..(b + 1) -> Seq(E)]
         /\ \A i \in 0..b : Parsed(j[i]) \in Seq(E) /\ Parts(j, b)[b + 1 - i] = Parsed(j[i])
         /\ Chain(j, b) = Upto(Parts(j, b), b + 1) /\ Chain(j, b) \in Seq(E)
<1>1. \A i \in 0..b : Parsed(j[i]) \in Seq(E)
  <2> SUFFICES ASSUME NEW i \in 0..b PROVE Parsed(j[i]) \in Seq(E)
    OBVIOUS
  <2>1. j[i] \in Seq(LinesOf(E))
    BY DEF Journals
  <2> DEFINE lines == j[i]
             none == 0
  <2>2. lines \in Seq(LinesOf(E)) /\ none \in 0..Len(lines) /\ none \in 0..none
    BY <2>1, LenProperties
  <2> HIDE DEF lines, none
  <2>3. Parsed(lines) \in Seq(E)
    BY ONLY <2>2, FirstLines
  <2> QED BY <2>3 DEF lines
<1>2. \A i \in 1..(b + 1) : b + 1 - i \in 0..b
  OBVIOUS
<1>3. Parts(j, b) \in [1..(b + 1) -> Seq(E)]
  BY <1>1, <1>2 DEF Parts
<1>4. \A i \in 0..b : Parts(j, b)[b + 1 - i] = Parsed(j[i])
  <2> SUFFICES ASSUME NEW i \in 0..b PROVE Parts(j, b)[b + 1 - i] = Parsed(j[i])
    OBVIOUS
  <2>1. b + 1 - i \in 1..(b + 1) /\ b + 1 - (b + 1 - i) = i
    OBVIOUS
  <2> QED BY <2>1 DEF Parts
<1>5. Chain(j, b) = FlattenSeq(Parts(j, b))
  <2>1. DOMAIN AllFiles(b) = 1..(b + 1) /\ \A i \in 1..(b + 1) : AllFiles(b)[i] = b + 1 - i
    BY DEF AllFiles
  <2>2. [i \in DOMAIN AllFiles(b) |-> Parsed(j[AllFiles(b)[i]])] = Parts(j, b)
    BY <2>1 DEF Parts
  <2> QED BY <2>2 DEF Chain, Oldest2Newest
<1> DEFINE n == b + 1
<1>6. n \in Nat /\ n \in 0..n /\ Parts(j, b) \in [1..n -> Seq(E)]
  BY <1>3
<1> HIDE DEF n
<1>7. Upto(Parts(j, b), n) = FlattenSeq(Parts(j, b)) /\ Upto(Parts(j, b), n) \in Seq(E)
  BY <1>6, FlattenedOnce
<1> QED BY <1>1, <1>3, <1>4, <1>5, <1>7 DEF n

\* Journals in which the same can be read of every file.
LEMMA ChainEndsWith ==
  ASSUME NEW E, NEW b \in Nat, NEW j \in Journals(E, b)
  PROVE  /\ Chain(j, b) = Upto(Parts(j, b), b) \o Parsed(j[0])
         /\ Upto(Parts(j, b), b) \in Seq(E)
<1> DEFINE n == b + 1
           ss == Parts(j, b)
<1>1. n \in Nat /\ n \in 1..n /\ n - 1 = b /\ b \in 0..n /\ 0 \in 0..b /\ b + 1 - 0 = n
  OBVIOUS
<1>2. ss \in [1..n -> Seq(E)] /\ Chain(j, b) = Upto(ss, n) /\ ss[n] = Parsed(j[0])
  <2>1. Parts(j, b)[b + 1 - 0] = Parsed(j[0])
    BY <1>1, ChainOfParts
  <2> QED BY <1>1, <2>1, ChainOfParts
<1> HIDE DEF n, ss
<1>3. Upto(ss, n) = Upto(ss, n - 1) \o ss[n] /\ Upto(ss, b) \in Seq(E)
  BY <1>1, <1>2, FlattenedOnce
<1> QED BY <1>1, <1>2, <1>3 DEF ss

\* An object is appended behind the others, or glued to the last.
LongerOrCut(E, before, after, more) ==
  after = before \o more \/ \E t \in Seq(E) : before = after \o t

\* So it is with the chain when it is so with the current file.
LEMMA ChainLengthened ==
  ASSUME NEW E, NEW b \in Nat, NEW j \in Journals(E, b), NEW k \in Journals(E, b),
         NEW x \in Seq(E), \A i \in 1..b : k[i] = j[i],
         LongerOrCut(E, Parsed(j[0]), Parsed(k[0]), x)
  PROVE  LongerOrCut(E, Chain(j, b), Chain(k, b), x)
<1> DEFINE U == Upto(Parts(j, b), b)
           P == Parsed(j[0])
           Q == Parsed(k[0])
<1>1. P \in Seq(E) /\ Q \in Seq(E)
  <2>1. 0 \in 0..b
    OBVIOUS
  <2> QED BY <2>1, ChainOfParts
<1>2. Upto(Parts(k, b), b) = U
  <2>1. \A i \in 1..b : i \in 1..(b + 1) /\ b + 1 - i \in 1..b
    OBVIOUS
  <2>2. \A i \in 1..b : Parts(k, b)[i] = Parts(j, b)[i]
    BY <2>1 DEF Parts
  <2> QED BY <2>2, SameUpto
<1>3. Chain(j, b) = U \o P /\ Chain(k, b) = U \o Q /\ U \in Seq(E)
  BY <1>2, ChainEndsWith
<1> HIDE DEF U, P, Q
<1>4. CASE Q = P \o x
  <2>1. U \in Seq(E) /\ P \in Seq(E) /\ x \in Seq(E)
    BY <1>1, <1>3
  <2>2. (U \o P) \o x = U \o (P \o x)
    BY <2>1, ConcatAssociative
  <2> QED BY <1>3, <1>4, <2>2 DEF LongerOrCut
<1>5. CASE \E t \in Seq(E) : P = Q \o t
  <2>1. PICK t \in Seq(E) : P = Q \o t
    BY <1>5
  <2>2. U \in Seq(E) /\ Q \in Seq(E) /\ t \in Seq(E)
    BY <1>1, <1>3, <2>1
  <2>3. (U \o Q) \o t = U \o (Q \o t)
    BY <2>2, ConcatAssociative
  <2>4. Chain(j, b) = Chain(k, b) \o t
    BY ONLY <1>3, <2>1, <2>3, Zenon
  <2> QED BY <2>1, <2>4 DEF LongerOrCut
<1> QED BY <1>4, <1>5 DEF LongerOrCut, P, Q

\* What is written is in the current file.
LEMMA LongerJournal ==
  ASSUME NEW E, NEW b \in Nat, NEW j \in Journals(E, b), NEW line \in LinesOf(E)
  PROVE  /\ Longer(j, line) \in Journals(E, b)
         /\ Longer(j, line)[0] = Appended(j[0], line) /\ j[0] \in Seq(LinesOf(E))
         /\ \A i \in 1..b : Longer(j, line)[i] = j[i]
<1>1. j \in [0..b -> Seq(LinesOf(E))] /\ 0 \in 0..b /\ \A i \in 1..b : i \in 0..b /\ i # 0
  BY DEF Journals
<1>2. Appended(j[0], line) \in Seq(LinesOf(E))
  BY <1>1, AppendedReads
<1> QED BY <1>1, <1>2 DEF Journals, Longer

\* What is written ends the chain, or takes the last of it away.
LEMMA ChainAppended ==
  ASSUME NEW E, NEW b \in Nat, NEW j \in Journals(E, b), NEW line \in LinesOf(E)
  PROVE  /\ Longer(j, line) \in Journals(E, b)
         /\ \A i \in 1..b : Longer(j, line)[i] = j[i]
         /\ LongerOrCut(E, Chain(j, b), Chain(Longer(j, line), b), line.text)
<1> DEFINE k == Longer(j, line)
           x == line.text
<1>1. /\ k \in Journals(E, b) /\ k[0] = Appended(j[0], line) /\ j[0] \in Seq(LinesOf(E))
      /\ \A i \in 1..b : k[i] = j[i]
  BY LongerJournal
<1>2. x \in Seq(E)
  BY DEF LinesOf
<1> HIDE DEF k
<1>3. LongerOrCut(E, Parsed(j[0]), Parsed(k[0]), x)
  <2> DEFINE lines == j[0]
             g == k[0]
  <2>1. lines \in Seq(LinesOf(E)) /\ g = Appended(lines, line)
    BY <1>1
  <2> HIDE DEF lines, g
  <2>2. Parsed(g) = Parsed(lines) \o line.text \/ \E t \in Seq(E) : Parsed(lines) = Parsed(g) \o t
    BY ONLY <2>1, line \in LinesOf(E), AppendedReads
  <2> QED BY <2>2 DEF LongerOrCut, lines, g
<1> HIDE DEF x
<1>4. LongerOrCut(E, Chain(j, b), Chain(k, b), x)
  BY <1>1, <1>2, <1>3, ChainLengthened
<1> QED BY <1>1, <1>4 DEF k, x

\* Removing the oldest file takes away the beginning.
WithoutOldest(j, b) == [j EXCEPT ![b] = <<>>]

\* The chain without that file is the rest.
LEMMA ChainWithoutOldest ==
  ASSUME NEW E, NEW b \in Nat, NEW j \in Journals(E, b)
  PROVE  /\ WithoutOldest(j, b) \in Journals(E, b) /\ WithoutOldest(j, b)[b] = <<>>
         /\ Parsed(j[b]) \in Seq(E)
         /\ Chain(j, b) = Parsed(j[b]) \o Chain(WithoutOldest(j, b), b)
<1> DEFINE n == b + 1
           k == WithoutOldest(j, b)
           ss == Parts(j, b)
           tt == Parts(k, b)
           X  == Parsed(j[b])
<1>1. k \in Journals(E, b) /\ k[b] = <<>> /\ b \in 0..b /\ \A i \in 0..(b - 1) : k[i] = j[i]
  <2>1. j \in [0..b -> Seq(LinesOf(E))] /\ <<>> \in Seq(LinesOf(E))
    BY EmptySeq DEF Journals
  <2>2. b \in 0..b /\ \A i \in 0..(b - 1) : i \in 0..b /\ i # b
    OBVIOUS
  <2> QED BY <2>1, <2>2 DEF Journals, WithoutOldest
<1> HIDE DEF k
<1>2. /\ ss \in [1..n -> Seq(E)] /\ tt \in [1..n -> Seq(E)] /\ X \in Seq(E)
      /\ Chain(j, b) = Upto(ss, n) /\ Chain(k, b) = Upto(tt, n)
  BY <1>1, ChainOfParts
<1>3. ss[1] = X /\ tt[1] = <<>>
  <2>1. 1 \in 1..(b + 1) /\ b + 1 - 1 = b
    OBVIOUS
  <2>2. Parsed(<<>>) = <<>>
    BY NothingParsed
  <2> QED BY <1>1, <2>1, <2>2 DEF Parts
<1>4. \A i \in 2..n : ss[i] = tt[i]
  <2>1. \A i \in 2..n : i \in 1..(b + 1) /\ b + 1 - i \in 0..(b - 1)
    OBVIOUS
  <2> QED BY <1>1, <2>1 DEF Parts
<1>5. n \in Nat /\ 1 \in 1..n /\ 1 - 1 = 0 /\ 1 \in 0..n /\ 1 + 1 = 2
  OBVIOUS
<1> HIDE DEF n, ss, tt, X
<1>6. Upto(ss, 1) = Upto(ss, 0) \o ss[1] /\ Upto(tt, 1) = Upto(tt, 0) \o tt[1]
  BY <1>2, <1>5, FlattenedOnce
<1>7. Upto(ss, 0) = <<>> /\ Upto(tt, 0) = <<>>
  BY <1>2, <1>5, FlattenedOnce
<1>8. Upto(ss, 1) = X /\ Upto(tt, 1) = <<>>
  BY <1>2, <1>3, <1>6, <1>7, ConcatEmptySeq, EmptySeq
<1>9. Upto(ss, 1) = X \o Upto(tt, 1)
  BY <1>2, <1>8, ConcatEmptySeq
<1>10. Upto(ss, n) = X \o Upto(tt, n)
  <2> DEFINE a == 1
  <2>1. /\ n \in Nat /\ ss \in [1..n -> Seq(E)] /\ tt \in [1..n -> Seq(E)] /\ X \in Seq(E)
        /\ a \in 0..n /\ Behind(X, ss, tt, a)
    BY <1>2, <1>5, <1>9 DEF Behind
  <2>2. \A i \in (a + 1)..n : ss[i] = tt[i]
    BY <1>4, <1>5
  <2> HIDE DEF a
  <2>3. Behind(X, ss, tt, n)
    BY <2>1, <2>2, BehindTheSame
  <2> QED BY <2>3 DEF Behind
<1> QED BY <1>1, <1>2, <1>10 DEF X, k

\* Moving a file to the next number, which is free, changes nothing.
LEMMA ChainShifted ==
  ASSUME NEW E, NEW b \in Nat, NEW j \in Journals(E, b), NEW f \in 0..(b - 1), j[f + 1] = <<>>
  PROVE  /\ Shifted(j, f) \in Journals(E, b) /\ Shifted(j, f)[f] = <<>>
         /\ Chain(Shifted(j, f), b) = Chain(j, b)
<1> DEFINE k == Shifted(j, f)
<1>1. CASE j[f] = <<>>
  BY <1>1 DEF Shifted
<1>2. CASE j[f] # <<>>
  <2> DEFINE n == b + 1
             ss == Parts(j, b)
             tt == Parts(k, b)
             a  == b - f
             c  == a + 1
             P  == Parsed(j[f])
             U  == Upto(ss, a - 1)
  <2>1. /\ k \in Journals(E, b) /\ k[f] = <<>> /\ k[f + 1] = j[f]
        /\ \A i \in 0..b : i # f /\ i # f + 1 => k[i] = j[i]
    <3>1. j \in [0..b -> Seq(LinesOf(E))] /\ <<>> \in Seq(LinesOf(E))
      BY EmptySeq DEF Journals
    <3>2. f \in 0..b /\ f + 1 \in 0..b /\ f # f + 1
      OBVIOUS
    <3>3. k = [j EXCEPT ![f + 1] = j[f], ![f] = <<>>]
      BY <1>2 DEF Shifted
    <3> HIDE DEF k
    <3> QED BY <3>1, <3>2, <3>3 DEF Journals
  <2> HIDE DEF k
  <2>2. /\ ss \in [1..n -> Seq(E)] /\ tt \in [1..n -> Seq(E)]
        /\ Chain(j, b) = Upto(ss, n) /\ Chain(k, b) = Upto(tt, n)
    BY <2>1, ChainOfParts
  <2>3. /\ n \in Nat /\ a \in 1..n /\ c \in 1..n /\ c - 1 = a /\ a - 1 \in 0..n /\ a - 1 \in Nat
        /\ c \in 0..n
    OBVIOUS
  <2>4. P \in Seq(E)
    <3>1. f \in 0..b
      OBVIOUS
    <3> QED BY <3>1, ChainOfParts
  <2>5. ss[a] = <<>> /\ ss[c] = P /\ tt[a] = P /\ tt[c] = <<>>
    <3>1. a \in 1..(b + 1) /\ c \in 1..(b + 1) /\ b + 1 - a = f + 1 /\ b + 1 - c = f
      OBVIOUS
    <3> HIDE DEF a, c
    <3>2. /\ Parts(j, b)[a] = Parsed(j[f + 1]) /\ Parts(j, b)[c] = Parsed(j[f])
          /\ Parts(k, b)[a] = Parsed(k[f + 1]) /\ Parts(k, b)[c] = Parsed(k[f])
      BY <3>1 DEF Parts
    <3> QED BY <2>1, <3>2, NothingParsed
  <2>6. \A i \in 1..n : i # a /\ i # c => ss[i] = tt[i]
    <3> SUFFICES ASSUME NEW i \in 1..n, i # a, i # c PROVE ss[i] = tt[i]
      OBVIOUS
    <3>1. b + 1 - i \in 0..b /\ b + 1 - i # f /\ b + 1 - i # f + 1
      OBVIOUS
    <3>2. k[b + 1 - i] = j[b + 1 - i]
      BY <2>1, <3>1
    <3> QED BY <3>2 DEF Parts
  <2>7. (\A i \in 1..(a - 1) : i \in 1..n /\ i # a /\ i # c) /\ \A i \in (c + 1)..n : i \in 1..n /\ i # a /\ i # c
    OBVIOUS
  <2> HIDE DEF n, ss, tt, a, c, P
  <2>8. Upto(tt, a - 1) = U
    <3>1. \A i \in 1..(a - 1) : ss[i] = tt[i]
      BY <2>6, <2>7
    <3> QED BY <2>3, <3>1, SameUpto
  <2>9. U \in Seq(E)
    BY <2>2, <2>3, FlattenedOnce
  <2> HIDE DEF U
  <2>10. Upto(ss, a) = U \o <<>> /\ Upto(tt, a) = U \o P
    <3>1. Upto(ss, a) = Upto(ss, a - 1) \o ss[a] /\ Upto(tt, a) = Upto(tt, a - 1) \o tt[a]
      BY <2>2, <2>3, FlattenedOnce
    <3> QED BY <2>5, <2>8, <3>1 DEF U
  <2>11. Upto(ss, c) = Upto(ss, a) \o P /\ Upto(tt, c) = Upto(tt, a) \o <<>>
    <3>1. Upto(ss, c) = Upto(ss, c - 1) \o ss[c] /\ Upto(tt, c) = Upto(tt, c - 1) \o tt[c]
      BY <2>2, <2>3, FlattenedOnce
    <3> QED BY <2>3, <2>5, <3>1
  <2>12. U \o <<>> = U /\ U \o P \in Seq(E)
    BY <2>4, <2>9, ConcatEmptySeq, ConcatProperties
  <2>13. (U \o P) \o <<>> = U \o P
    BY <2>12, ConcatEmptySeq
  <2>14. Upto(ss, c) = U \o P /\ Upto(tt, c) = U \o P
    BY <2>10, <2>11, <2>12, <2>13
  <2>15. Upto(ss, c) = <<>> \o Upto(tt, c) /\ <<>> \in Seq(E)
    BY <2>12, <2>14, ConcatEmptySeq, EmptySeq
  <2>16. \A i \in (c + 1)..n : ss[i] = tt[i]
    BY <2>6, <2>7
  <2>17. Upto(ss, n) = <<>> \o Upto(tt, n)
    <3> DEFINE X == <<>>
    <3>1. /\ n \in Nat /\ ss \in [1..n -> Seq(E)] /\ tt \in [1..n -> Seq(E)] /\ X \in Seq(E)
          /\ c \in 0..n /\ Behind(X, ss, tt, c)
      BY <2>2, <2>3, <2>15 DEF Behind
    <3> HIDE DEF X
    <3>2. Behind(X, ss, tt, n)
      BY <2>16, <3>1, BehindTheSame
    <3> QED BY <3>2 DEF X, Behind
  <2>18. Upto(tt, n) \in Seq(E)
    BY <2>1, <2>2, ChainOfParts
  <2>19. Upto(ss, n) = Upto(tt, n)
    BY <2>17, <2>18, ConcatEmptySeq
  <2> QED BY <2>1, <2>2, <2>19 DEF k
<1> QED BY <1>1, <1>2

-----------------------------------------------------------------------------
(* The audit trail.                                                         *)

\* An event has a hash and names the hash before it.
AuditEvents == [hash : Nat, previous : Nat]

\* Every event but the first names the one before it.
LinkedUp(s) == \A i \in 2..Len(s) : s[i].previous = s[i - 1].hash

\* Parts of a chain of linked events are linked.
LEMMA LinkedParts ==
  ASSUME NEW s \in Seq(AuditEvents), NEW t \in Seq(AuditEvents), LinkedUp(s \o t)
  PROVE  LinkedUp(s) /\ LinkedUp(t) /\ (t # <<>> => Last(s \o t) = Last(t))
<1>1. /\ Len(s \o t) = Len(s) + Len(t)
      /\ \A i \in 1..(Len(s) + Len(t)) : (s \o t)[i] = IF i <= Len(s) THEN s[i] ELSE t[i - Len(s)]
  BY ConcatProperties
<1>2. Len(s) \in Nat /\ Len(t) \in Nat /\ (t # <<>> => Len(t) > 0)
  BY LenProperties, EmptySeq
<1> DEFINE u == s \o t
           m == Len(s)
           n == Len(t)
<1>3. /\ Len(u) = m + n /\ m \in Nat /\ n \in Nat
      /\ \A i \in 1..(m + n) : u[i] = IF i <= m THEN s[i] ELSE t[i - m]
      /\ \A i \in 2..(m + n) : u[i].previous = u[i - 1].hash
  BY <1>1, <1>2 DEF LinkedUp
<1> HIDE DEF u, m, n
<1>4. ASSUME NEW i \in 2..m PROVE s[i].previous = s[i - 1].hash
  <2>1. i \in 2..(m + n) /\ i \in 1..(m + n) /\ i - 1 \in 1..(m + n) /\ i <= m /\ i - 1 <= m
    BY <1>3
  <2> QED BY <1>3, <2>1
<1>5. ASSUME NEW i \in 2..n PROVE t[i].previous = t[i - 1].hash
  <2> DEFINE j == m + i
  <2>1. /\ j \in 2..(m + n) /\ j \in 1..(m + n) /\ j - 1 \in 1..(m + n)
        /\ ~(j <= m) /\ ~(j - 1 <= m) /\ j - m = i /\ (j - 1) - m = i - 1
    BY <1>3
  <2> HIDE DEF j
  <2>2. u[j].previous = u[j - 1].hash /\ u[j] = t[j - m] /\ u[j - 1] = t[(j - 1) - m]
    BY <1>3, <2>1
  <2> QED BY <2>1, <2>2
<1>6. ASSUME n > 0 PROVE u[m + n] = t[n]
  <2>1. m + n \in 1..(m + n) /\ ~(m + n <= m) /\ (m + n) - m = n
    BY <1>3, <1>6
  <2> QED BY <1>3, <2>1
<1> QED BY <1>2, <1>3, <1>4, <1>5, <1>6 DEF u, m, n, LinkedUp, Last

\* An event that names the last one may follow it.
LEMMA LinkedNext ==
  ASSUME NEW s \in Seq(AuditEvents), LinkedUp(s), NEW e \in AuditEvents,
         s # <<>> => e.previous = Last(s).hash
  PROVE  LinkedUp(s \o <<e>>)
<1> DEFINE n == Len(s)
           u == Append(s, e)
<1>1. u = s \o <<e>>
  BY AppendIsConcat
<1>2. n \in Nat /\ Len(u) = n + 1 /\ (\A i \in 1..n : u[i] = s[i]) /\ u[n + 1] = e
  BY AppendProperties, LenProperties
<1>3. n # 0 => e.previous = s[n].hash
  BY DEF Last
<1>4. \A i \in 2..n : s[i].previous = s[i - 1].hash
  BY DEF LinkedUp
<1> HIDE DEF n, u
<1>5. ASSUME NEW i \in 2..(n + 1) PROVE u[i].previous = u[i - 1].hash
  <2>1. CASE i = n + 1
    <3>1. i - 1 = n /\ n \in 1..n /\ n # 0
      BY <1>2, <2>1
    <3> QED BY <1>2, <1>3, <2>1, <3>1
  <2>2. CASE i # n + 1
    <3>1. i \in 2..n /\ i \in 1..n /\ i - 1 \in 1..n
      BY <1>2, <2>2
    <3> QED BY <1>2, <1>4, <3>1
  <2> QED BY <2>1, <2>2
<1> QED BY <1>1, <1>2, <1>5 DEF LinkedUp

\* The files hold events, a writer writes one, and a report has read some.
AuditTyped ==
  /\ trail \in Journals(AuditEvents, AuditBackups)
  /\ events \in Nat
  /\ writing \in [Writers -> {NotWriting} \cup
       [step : {"rotate", "append"}, file : 0..AuditBackups, previous : Nat]]
  /\ report \in [todo : SUBSET (0..AuditBackups), read : Seq(AuditEvents), moved : BOOLEAN]

\* One writer at a time works under the lock.  The number behind the file it
\* moves next is free, and it knows the last event that can be read.
Locked ==
  \A w \in Writers : writing[w] # NotWriting =>
    /\ lock = {w}
    /\ writing[w].step = "rotate" /\ writing[w].file < AuditBackups
       => trail[writing[w].file + 1] = <<>>
    /\ Chain(trail, AuditBackups) # <<>>
       => writing[w].previous = Last(Chain(trail, AuditBackups)).hash

\* As long as no file moved, a report has read the beginning of the chain: the
\* files from the oldest to the one it reads next.
ReadSoFar ==
  \E m \in report.todo :
    /\ \A i \in report.todo : i <= m
    /\ report.read = Upto(Parts(trail, AuditBackups), AuditBackups - m)
    /\ \A i \in 0..m : i \in report.todo \/ trail[i] = <<>>
\* When it has read all files, what it read is linked.
Reported ==
  ~report.moved =>
    /\ report.todo = {} => LinkedUp(report.read)
    /\ report.todo # {} => 0 \in report.todo /\ ReadSoFar

\* The inductive invariant.
AuditInv == AuditTyped /\ Locked /\ LinkedUp(Chain(trail, AuditBackups)) /\ Reported

\* Of files in which nothing is nothing is read.
LEMMA ChainOfNothing ==
  ASSUME NEW E, NEW b \in Nat
  PROVE  /\ [i \in 0..b |-> <<>>] \in Journals(E, b)
         /\ Chain([i \in 0..b |-> <<>>], b) = <<>>
<1> DEFINE j == [i \in 0..b |-> <<>>]
           n == b + 1
           ss == Parts(j, b)
<1>1. j \in Journals(E, b)
  <2>1. <<>> \in Seq(LinesOf(E))
    BY EmptySeq
  <2> QED BY <2>1 DEF Journals
<1>2. \A i \in 1..n : ss[i] = <<>>
  <2>1. \A i \in 1..n : b + 1 - i \in 0..b
    OBVIOUS
  <2> QED BY <2>1, NothingParsed DEF Parts
<1>3. n \in Nat
  OBVIOUS
<1> HIDE DEF j
<1>4. ss \in [1..n -> Seq(E)] /\ Chain(j, b) = Upto(ss, n)
  BY <1>1, ChainOfParts
<1> HIDE DEF n, ss
<1>5. Upto(ss, n) = <<>>
  <2> DEFINE a == 0
  <2>1. a \in 0..n /\ n \in a..n /\ NoneIn(ss, a, n)
    BY <1>2, <1>3 DEF NoneIn
  <2>2. Upto(ss, a) = <<>>
    BY <1>3, <1>4, FlattenedOnce
  <2> HIDE DEF a
  <2>3. Upto(ss, n) = Upto(ss, a)
    BY <1>3, <1>4, <2>1, NothingBetween
  <2> QED BY <2>2, <2>3
<1> QED BY <1>1, <1>4, <1>5 DEF j

\* It holds at the start.
LEMMA AuditBegins == AuditInit => AuditInv
<1> SUFFICES ASSUME AuditInit PROVE AuditInv
  OBVIOUS
<1> USE DEF AuditInit
<1>1. AuditBackups \in Nat
  BY AuditAssumption
<1>2. trail \in Journals(AuditEvents, AuditBackups) /\ \A i \in 0..AuditBackups : trail[i] = <<>>
  <2>1. <<>> \in Seq(LinesOf(AuditEvents))
    BY EmptySeq
  <2> QED BY <2>1 DEF Journals
<1>3. AuditTyped
  BY <1>2, EmptySeq DEF AuditTyped
<1>4. Chain(trail, AuditBackups) = <<>>
  <2> DEFINE B == AuditBackups
             E == AuditEvents
  <2>1. B \in Nat
    BY <1>1
  <2> HIDE DEF B, E
  <2>2. Chain([i \in 0..B |-> <<>>], B) = <<>>
    BY <2>1, ChainOfNothing
  <2> QED BY <2>2 DEF B
<1>5. LinkedUp(<<>>)
  BY DEF LinkedUp
<1>6. Locked /\ Reported
  BY <1>5 DEF Locked, Reported
<1> QED BY <1>3, <1>4, <1>5, <1>6 DEF AuditInv

\* What the others do not do while one writer works.
LEMMA OneWriter ==
  ASSUME Locked, NEW w \in Writers, writing[w] # NotWriting, NEW v \in Writers, v # w
  PROVE  writing[v] = NotWriting /\ lock = {w}
BY DEF Locked

\* A writer takes the lock and looks up the last hash.
LEMMA BeginWriteKeeps == ASSUME AuditInv, NEW w \in Writers, BeginWrite(w) PROVE AuditInv'
<1> DEFINE B == AuditBackups
           chain == Chain(trail, B)
           begun == [step |-> IF IsFull(trail) THEN "rotate" ELSE "append",
                     file |-> B, previous |-> LastHash(trail)]
<1>1. B \in Nat /\ AuditTyped /\ Locked
  BY AuditAssumption DEF AuditInv
<1>2. chain \in Seq(AuditEvents)
  <2> HIDE DEF B
  <2> QED BY <1>1, ChainOfParts DEF B, AuditTyped
<1>3. LastHash(trail) = IF chain = <<>> THEN 0 ELSE Last(chain).hash
  BY DEF LastHash, Chain
<1> HIDE DEF chain
<1>4. LastHash(trail) \in Nat
  <2>1. CASE chain = <<>>
    BY <1>3, <2>1
  <2>2. CASE chain # <<>>
    <3>1. Len(chain) \in 1..Len(chain)
      BY <1>2, <2>2, EmptySeq
    <3>2. Last(chain) \in AuditEvents
      BY <1>2, <3>1, ElementOfSeq DEF Last
    <3> QED BY <1>3, <2>2, <3>2 DEF AuditEvents
  <2> QED BY <2>1, <2>2
<1>5. /\ writing' = [writing EXCEPT ![w] = begun] /\ lock' = {w} /\ lock = {}
      /\ UNCHANGED <<trail, events, report>>
  BY DEF BeginWrite
<1>6. begun \in [step : {"rotate", "append"}, file : 0..B, previous : Nat]
  BY <1>1, <1>4
<1>7. begun.file = B /\ begun.previous = LastHash(trail)
  OBVIOUS
<1> HIDE DEF begun, B
<1>8. AuditTyped'
  BY <1>1, <1>5, <1>6 DEF AuditTyped, B
<1>9. Locked'
  <2>1. \A v \in Writers : v # w => writing'[v] = NotWriting
    BY <1>1, <1>5 DEF Locked, AuditTyped
  <2>2. writing'[w] = begun
    BY <1>1, <1>5 DEF AuditTyped
  <2>3. chain' = chain /\ (chain # <<>> => begun.previous = Last(chain).hash)
    BY <1>3, <1>5, <1>7 DEF chain
  <2>4. ~(begun.file < B)
    BY <1>1, <1>7
  <2> QED BY <1>5, <2>1, <2>2, <2>3, <2>4 DEF Locked, chain, B
<1>10. Reported' /\ LinkedUp(Chain(trail, AuditBackups))'
  BY <1>5 DEF AuditInv, Reported, ReadSoFar
<1> QED BY <1>8, <1>9, <1>10 DEF AuditInv

\* A file is moved: the chain may lose its beginning, and a report is marked.
LEMMA RotateOneKeeps == ASSUME AuditInv, NEW w \in Writers, RotateOne(w) PROVE AuditInv'
<1> DEFINE B == AuditBackups
           E == AuditEvents
           chain == Chain(trail, B)
           moving == writing[w].file
<1>1. B \in Nat /\ AuditTyped /\ Locked /\ trail \in Journals(E, B)
  BY AuditAssumption DEF AuditInv, AuditTyped
<1>2. /\ writing[w].step = "rotate" /\ UNCHANGED <<lock, events>>
      /\ trail' = IF moving = B THEN [trail EXCEPT ![moving] = <<>>] ELSE Shifted(trail, moving)
      /\ writing' = IF moving = 0 THEN [writing EXCEPT ![w].step = "append"]
                                 ELSE [writing EXCEPT ![w].file = moving - 1]
      /\ report' = [report EXCEPT !.moved = TRUE]
  BY DEF RotateOne
<1>3. /\ writing[w] \in [step : {"rotate", "append"}, file : 0..B, previous : Nat]
      /\ writing[w] # NotWriting /\ moving \in 0..B
  <2>1. writing[w] # NotWriting
    BY <1>2 DEF NotWriting
  <2>2. writing[w] \in {NotWriting} \cup [step : {"rotate", "append"}, file : 0..B, previous : Nat]
    BY <1>1 DEF AuditTyped
  <2> QED BY <2>1, <2>2
<1>4. /\ moving < B => trail[moving + 1] = <<>>
      /\ chain # <<>> => writing[w].previous = Last(chain).hash
      /\ lock = {w}
  BY <1>1, <1>2, <1>3 DEF Locked
<1>5. /\ trail' \in Journals(E, B) /\ trail'[moving] = <<>>
      /\ \E X \in Seq(E) : chain = X \o chain'
  <2> HIDE DEF B, E, moving
  <2>1. CASE moving = B
    <3>1. trail' = [trail EXCEPT ![B] = <<>>]
      BY <1>2, <2>1
    <3>2. /\ trail' \in Journals(E, B) /\ trail'[B] = <<>>
          /\ Parsed(trail[B]) \in Seq(E) /\ Chain(trail, B) = Parsed(trail[B]) \o Chain(trail', B)
      <4>1. trail' = WithoutOldest(trail, B)
        BY <3>1 DEF WithoutOldest
      <4> QED BY <1>1, <4>1, ChainWithoutOldest
    <3> QED BY <2>1, <3>2 DEF B
  <2>2. CASE moving # B
    <3>1. moving \in 0..(B - 1) /\ trail[moving + 1] = <<>>
      BY <1>1, <1>3, <1>4, <2>2
    <3>2. trail' = Shifted(trail, moving)
      BY <1>2, <2>2
    <3>3. /\ trail' \in Journals(E, B) /\ trail'[moving] = <<>>
          /\ Chain(trail', B) = Chain(trail, B)
      BY <1>1, <3>1, <3>2, ChainShifted
    <3>4. Chain(trail, B) \in Seq(E)
      BY <1>1, ChainOfParts
    <3>5. Chain(trail, B) = <<>> \o Chain(trail', B) /\ <<>> \in Seq(E)
      BY <3>3, <3>4, ConcatEmptySeq, EmptySeq
    <3> QED BY <3>3, <3>5 DEF B
  <2> QED BY <2>1, <2>2
<1>6. PICK X \in Seq(E) : chain = X \o chain'
  BY <1>5
<1>7. LinkedUp(chain') /\ (chain' # <<>> => Last(chain) = Last(chain') /\ chain # <<>>)
  <2> HIDE DEF B, E
  <2>1. chain \in Seq(E) /\ Chain(trail', B) \in Seq(E)
    BY <1>1, <1>5, ChainOfParts
  <2> DEFINE rest == Chain(trail', B)
  <2>2. chain' = rest
    BY DEF B
  <2>3. LinkedUp(X \o rest) /\ rest \in Seq(E) /\ chain = X \o rest
    BY <1>6, <2>1, <2>2 DEF AuditInv, B
  <2> HIDE DEF rest, chain
  <2>4. LinkedUp(rest) /\ (rest # <<>> => Last(X \o rest) = Last(rest))
    BY <2>3, LinkedParts DEF E
  <2>5. rest # <<>> => chain # <<>>
    BY <2>3, ConcatEqualIffEmpty DEF E
  <2> QED BY <2>2, <2>3, <2>4, <2>5
<1> HIDE DEF chain
<1>8. /\ writing' \in [Writers -> {NotWriting} \cup [step : {"rotate", "append"}, file : 0..B, previous : Nat]]
      /\ writing'[w].previous = writing[w].previous
      /\ writing'[w].step = "rotate" => moving # 0 /\ writing'[w].file = moving - 1
      /\ \A v \in Writers : v # w => writing'[v] = writing[v]
  <2>1. writing \in [Writers -> {NotWriting} \cup [step : {"rotate", "append"}, file : 0..B, previous : Nat]]
    BY <1>1 DEF AuditTyped
  <2> HIDE DEF B
  <2>2. CASE moving = 0
    <3> DEFINE now == [writing[w] EXCEPT !.step = "append"]
    <3>1. now \in [step : {"rotate", "append"}, file : 0..B, previous : Nat]
          /\ now.previous = writing[w].previous /\ now.step = "append"
      BY <1>3
    <3>2. writing' = [writing EXCEPT ![w] = now]
      BY <1>2, <2>2
    <3> HIDE DEF now
    <3> QED BY <2>1, <3>1, <3>2
  <2>3. CASE moving # 0
    <3> DEFINE now == [writing[w] EXCEPT !.file = moving - 1]
    <3>1. moving - 1 \in 0..B
      BY <1>1, <1>3, <2>3
    <3>2. now \in [step : {"rotate", "append"}, file : 0..B, previous : Nat]
          /\ now.previous = writing[w].previous /\ now.file = moving - 1
      BY <1>3, <3>1
    <3>3. writing' = [writing EXCEPT ![w] = now]
      BY <1>2, <2>3
    <3> HIDE DEF now
    <3> QED BY <2>1, <2>3, <3>2, <3>3
  <2> QED BY <2>2, <2>3
<1>9. AuditTyped'
  <2>1. report' \in [todo : SUBSET (0..B), read : Seq(E), moved : BOOLEAN]
    <3>1. report \in [todo : SUBSET (0..B), read : Seq(E), moved : BOOLEAN]
      BY <1>1 DEF AuditTyped
    <3> QED BY <1>2, <3>1
  <2> QED BY <1>1, <1>2, <1>5, <1>8, <2>1 DEF AuditTyped
<1>10. Locked'
  <2>1. \A v \in Writers : v # w => writing'[v] = NotWriting
    BY <1>1, <1>3, <1>8, OneWriter
  <2>2. writing'[w].step = "rotate" => trail'[writing'[w].file + 1] = <<>>
    <3>1. moving - 1 + 1 = moving
      BY <1>1, <1>3
    <3> QED BY <1>5, <1>8, <3>1
  <2>3. chain' # <<>> => writing'[w].previous = Last(chain').hash
    BY <1>4, <1>7, <1>8
  <2> QED BY <1>2, <1>4, <2>1, <2>2, <2>3 DEF Locked, chain
<1>11. Reported'
  <2>1. report'.moved
    BY <1>1, <1>2 DEF AuditTyped
  <2> QED BY <2>1 DEF Reported
<1> QED BY <1>7, <1>9, <1>10, <1>11 DEF AuditInv, chain

\* An event is written after the one it names, or glued to it and lost.
LEMMA AppendEventKeeps == ASSUME AuditInv, NEW w \in Writers, AppendEvent(w) PROVE AuditInv'
<1> DEFINE B == AuditBackups
           E == AuditEvents
           chain == Chain(trail, B)
           event == [hash |-> events + 1, previous |-> writing[w].previous]
<1>1. B \in Nat /\ AuditTyped /\ Locked /\ trail \in Journals(E, B)
  BY AuditAssumption DEF AuditInv, AuditTyped
<1>2. PICK line \in {Line(event)} \cup TornLines(event) : trail' = Longer(trail, line)
  BY DEF AppendEvent
<1>3. /\ writing[w].step = "append" /\ events' = events + 1
      /\ writing' = [writing EXCEPT ![w] = NotWriting] /\ lock' = lock \ {w}
      /\ UNCHANGED report
  BY DEF AppendEvent
<1>4. writing[w] # NotWriting /\ event \in E
  <2>1. writing[w] # NotWriting
    BY <1>3 DEF NotWriting
  <2>2. writing[w] \in [step : {"rotate", "append"}, file : 0..B, previous : Nat]
    BY <1>1, <2>1 DEF AuditTyped
  <2> QED BY <1>1, <2>1, <2>2 DEF AuditTyped, AuditEvents
<1>5. chain # <<>> => event.previous = Last(chain).hash
  BY <1>1, <1>4 DEF Locked
<1> HIDE DEF event
<1>6. line \in LinesOf(E) /\ line.text \in {<<>>, <<event>>}
  <2>1. line \in {Line(event)} \cup CutLines(event)
    BY <1>2 DEF CutLines
  <2> HIDE DEF E
  <2> QED BY <1>4, <2>1, WrittenLines
<1> DEFINE after == Chain(trail', B)
<1>7. /\ trail' \in Journals(E, B) /\ \A i \in 1..B : trail'[i] = trail[i]
      /\ (after = chain \o line.text \/ \E t \in Seq(E) : chain = after \o t)
  <2> HIDE DEF E, B, chain, after
  <2> DEFINE k == Longer(trail, line)
  <2>1. /\ k \in Journals(E, B) /\ \A i \in 1..B : k[i] = trail[i]
        /\ \/ Chain(k, B) = Chain(trail, B) \o line.text
           \/ \E t \in Seq(E) : Chain(trail, B) = Chain(k, B) \o t
    <3>1. B \in Nat /\ trail \in Journals(E, B) /\ line \in LinesOf(E)
      BY <1>1, <1>6
    <3>2. Longer(trail, line) \in Journals(E, B)
      BY ONLY <3>1, ChainAppended
    <3>3. \A i \in 1..B : Longer(trail, line)[i] = trail[i]
      BY ONLY <3>1, ChainAppended
    <3>4. LongerOrCut(E, Chain(trail, B), Chain(Longer(trail, line), B), line.text)
      BY ONLY <3>1, ChainAppended
    <3> QED BY <3>2, <3>3, <3>4 DEF LongerOrCut
  <2>2. trail' = k
    BY <1>2
  <2> HIDE DEF k
  <2>3. after = Chain(k, B) /\ chain = Chain(trail, B)
    BY <2>2 DEF after, chain
  <2> QED BY <2>1, <2>2, <2>3
<1>8. chain \in Seq(E) /\ after \in Seq(E)
  <2> HIDE DEF E, B
  <2> QED BY <1>1, <1>7, ChainOfParts
<1>9. LinkedUp(chain)
  BY DEF AuditInv
<1> HIDE DEF chain, after
<1>10. LinkedUp(after)
  <2>1. CASE after = chain \o line.text /\ line.text = <<>>
    BY <1>8, <1>9, <2>1, ConcatEmptySeq
  <2>2. CASE after = chain \o line.text /\ line.text = <<event>>
    BY <1>4, <1>5, <1>8, <1>9, <2>2, LinkedNext
  <2>3. CASE \E t \in Seq(E) : chain = after \o t
    BY <1>8, <1>9, <2>3, LinkedParts
  <2> QED BY <1>6, <1>7, <2>1, <2>2, <2>3
<1>11. AuditTyped'
  <2>1. events' \in Nat
    BY <1>1, <1>3 DEF AuditTyped
  <2>2. writing' \in [Writers -> {NotWriting} \cup
          [step : {"rotate", "append"}, file : 0..AuditBackups, previous : Nat]]
    BY <1>1, <1>3 DEF AuditTyped
  <2>3. report' \in [todo : SUBSET (0..AuditBackups), read : Seq(AuditEvents), moved : BOOLEAN]
    BY <1>1, <1>3 DEF AuditTyped
  <2> QED BY <1>7, <2>1, <2>2, <2>3 DEF AuditTyped
<1>12. Locked'
  <2>1. \A v \in Writers : writing'[v] = NotWriting
    <3>1. \A v \in Writers : v # w => writing[v] = NotWriting
      BY <1>1, <1>4, OneWriter
    <3> QED BY <1>1, <1>3, <3>1 DEF AuditTyped
  <2> QED BY <2>1 DEF Locked
<1>13. Reported'
  <2>1. CASE ~report.moved /\ report.todo # {}
    <3>1. 0 \in report.todo /\ ReadSoFar
      BY <2>1 DEF AuditInv, Reported
    <3>2. PICK m \in report.todo :
            /\ \A i \in report.todo : i <= m
            /\ report.read = Upto(Parts(trail, B), B - m)
            /\ \A i \in 0..m : i \in report.todo \/ trail[i] = <<>>
      BY <3>1 DEF ReadSoFar
    <3>3. m \in 0..B
      BY <1>1 DEF AuditTyped
    <3>4. Upto(Parts(trail', B), B - m) = Upto(Parts(trail, B), B - m)
      <4>1. \A i \in 1..(B - m) : i \in 1..(B + 1) /\ B + 1 - i \in 1..B
        BY <1>1, <3>3
      <4>2. \A i \in 1..(B - m) : Parts(trail', B)[i] = Parts(trail, B)[i]
        BY <1>7, <4>1 DEF Parts
      <4>3. B - m \in Nat
        BY <1>1, <3>3
      <4> HIDE DEF B
      <4> QED BY <4>2, <4>3, SameUpto
    <3>5. \A i \in 0..m : i \in report.todo \/ trail'[i] = <<>>
      <4>1. \A i \in 0..m : i = 0 \/ i \in 1..B
        BY <1>1, <3>3
      <4> QED BY <1>7, <3>1, <3>2, <4>1
    <3>6. ReadSoFar'
      BY <1>3, <3>2, <3>4, <3>5 DEF ReadSoFar
    <3> QED BY <1>3, <2>1, <3>1, <3>6 DEF Reported
  <2>2. CASE report.moved \/ report.todo = {}
    BY <1>3, <2>2 DEF AuditInv, Reported
  <2> QED BY <2>1, <2>2
<1> QED BY <1>10, <1>11, <1>12, <1>13 DEF AuditInv, after

\* A writer that dies leaves the files as they are.
LEMMA GiveUpKeeps == ASSUME AuditInv, NEW w \in Writers, GiveUpWrite(w) PROVE AuditInv'
<1>1. AuditTyped /\ Locked
  BY DEF AuditInv
<1>2. /\ writing[w] # NotWriting /\ writing' = [writing EXCEPT ![w] = NotWriting]
      /\ lock' = lock \ {w} /\ UNCHANGED <<trail, events, short, report>>
  BY DEF GiveUpWrite
<1>3. AuditTyped'
  BY <1>1, <1>2 DEF AuditTyped
<1>4. Locked'
  <2>1. \A v \in Writers : writing'[v] = NotWriting
    <3>1. \A v \in Writers : v # w => writing[v] = NotWriting
      BY <1>1, <1>2, OneWriter
    <3> QED BY <1>1, <1>2, <3>1 DEF AuditTyped
  <2> QED BY <2>1 DEF Locked
<1> QED BY <1>2, <1>3, <1>4 DEF AuditInv, Reported, ReadSoFar

\* Some numbers up to the highest file have a highest one, and it is Max.
LEMMA HighestFile ==
  ASSUME NEW b \in Nat, NEW T \in SUBSET (0..b), T # {}
  PROVE  /\ Max(T) \in T /\ \A i \in T : i <= Max(T)
         /\ \A m \in T : (\A i \in T : i <= m) => m = Max(T)
<1> DEFINE room == {b - i : i \in T}
<1>1. \A i \in T : i \in Int /\ b - i \in Nat
  OBVIOUS
<1>2. room \in SUBSET Nat /\ room # {}
  BY <1>1
<1>3. PICK r \in room : \A x \in room : r <= x
  <2> HIDE DEF room
  <2> QED BY <1>2, LeastIn
<1>4. PICK m \in T : r = b - m
  OBVIOUS
<1>5. \A i \in T : i <= m
  <2> SUFFICES ASSUME NEW i \in T PROVE i <= m
    OBVIOUS
  <2>1. b - i \in room
    OBVIOUS
  <2>2. b - m <= b - i
    BY <1>3, <1>4, <2>1
  <2> QED BY <1>1, <2>2
<1>6. Max(T) \in T /\ \A i \in T : i <= Max(T)
  BY <1>5 DEF Max
<1>7. ASSUME NEW n \in T, \A i \in T : i <= n PROVE n = Max(T)
  <2>1. n <= Max(T) /\ Max(T) <= n
    BY <1>6, <1>7
  <2> DEFINE top == Max(T)
  <2>2. n \in Int /\ top \in Int
    BY <1>1, <1>6
  <2> HIDE DEF top
  <2> QED BY <2>1, <2>2 DEF top
<1> QED BY <1>6, <1>7

\* Files in which nothing is add nothing to what is read.
LEMMA Skipped ==
  ASSUME NEW E, NEW b \in Nat, NEW j \in Journals(E, b), NEW q \in 1..(b + 1), NEW m \in 0..(q - 1),
         \A i \in (m + 1)..(q - 1) : j[i] = <<>>
  PROVE  Upto(Parts(j, b), b - m) = Upto(Parts(j, b), b + 1 - q)
<1> DEFINE n == b + 1
           ss == Parts(j, b)
           a == b + 1 - q
           c == b - m
<1>1. n \in Nat /\ a \in 0..n /\ c \in a..n
  OBVIOUS
<1>2. ss \in [1..n -> Seq(E)]
  BY ChainOfParts
<1>3. \A i \in (a + 1)..c : ss[i] = <<>>
  <2> SUFFICES ASSUME NEW i \in (a + 1)..c PROVE ss[i] = <<>>
    OBVIOUS
  <2>1. i \in 1..(b + 1) /\ b + 1 - i \in (m + 1)..(q - 1)
    OBVIOUS
  <2>2. ss[i] = Parsed(<<>>)
    BY <2>1 DEF Parts
  <2> QED BY <2>2, NothingParsed
<1> HIDE DEF n, ss, a, c
<1>4. NoneIn(ss, a, c)
  BY <1>3 DEF NoneIn
<1>5. Upto(ss, c) = Upto(ss, a)
  BY ONLY <1>1, <1>2, <1>4, NothingBetween
<1> QED BY <1>5 DEF ss, a, c

\* A report that begins has read nothing: above its highest file nothing is.
LEMMA BeginReportKeeps == ASSUME AuditInv, BeginReport PROVE AuditInv'
<1> DEFINE B == AuditBackups
           E == AuditEvents
           T == {i \in 0..B : i = 0 \/ trail[i] # <<>>}
<1>1. B \in Nat /\ AuditTyped /\ trail \in Journals(E, B)
  BY AuditAssumption DEF AuditInv, AuditTyped
<1>2. /\ report' = [todo |-> T, read |-> <<>>, moved |-> FALSE]
      /\ UNCHANGED <<trail, lock, writing, events>>
  BY DEF BeginReport
<1>3. T \in SUBSET (0..B) /\ 0 \in T
  BY <1>1
<1>4. AuditTyped'
  <2>1. <<>> \in Seq(E)
    BY EmptySeq
  <2>2. report' \in [todo : SUBSET (0..B), read : Seq(E), moved : BOOLEAN]
    BY <1>2, <1>3, <2>1
  <2> QED BY <1>1, <1>2, <2>2 DEF AuditTyped
<1> DEFINE m == Max(T)
           q == B + 1
<1>5. m \in T /\ \A i \in T : i <= m
  <2> HIDE DEF T, B
  <2> QED BY <1>1, <1>3, HighestFile
<1>6. q \in 1..(B + 1) /\ m \in 0..(q - 1) /\ B + 1 - q = 0
  BY <1>1, <1>3, <1>5
<1>7. \A i \in (m + 1)..(q - 1) : trail[i] = <<>>
  <2> SUFFICES ASSUME NEW i \in (m + 1)..(q - 1) PROVE trail[i] = <<>>
    OBVIOUS
  <2> HIDE DEF m
  <2>1. i \in 0..B /\ i # 0 /\ ~(i <= m)
    BY <1>1, <1>6
  <2> QED BY <1>5, <2>1
<1>8. \A i \in 0..B : i \in T \/ trail[i] = <<>>
  OBVIOUS
<1> HIDE DEF T, B, E, m, q
<1>9. <<>> = Upto(Parts(trail, B), B - m)
  <2>1. Upto(Parts(trail, B), B - m) = Upto(Parts(trail, B), B + 1 - q)
    BY <1>1, <1>6, <1>7, Skipped
  <2> DEFINE n == B + 1
  <2>2. n \in Nat /\ Parts(trail, B) \in [1..n -> Seq(E)]
    BY <1>1, ChainOfParts
  <2> HIDE DEF n
  <2>3. Upto(Parts(trail, B), 0) = <<>>
    BY <2>2, FlattenedOnce
  <2> QED BY <1>6, <2>1, <2>3
<1>10. Reported'
  <2>1. \A i \in 0..m : i \in T \/ trail[i] = <<>>
    <3>1. \A i \in 0..m : i \in 0..B
      BY <1>1, <1>3, <1>5
    <3> QED BY <1>8, <3>1
  <2>2. report'.todo = T /\ report'.read = <<>> /\ trail' = trail
    BY <1>2
  <2>3. ReadSoFar'
    BY <1>5, <1>9, <2>1, <2>2 DEF ReadSoFar, B
  <2> QED BY <1>3, <2>2, <2>3 DEF Reported
<1> QED BY <1>2, <1>4, <1>10 DEF AuditInv, Locked

\* A report reads its next file: between it and the one after nothing is.
LEMMA ReadOneFileKeeps == ASSUME AuditInv, ReadOneFile PROVE AuditInv'
<1> DEFINE B == AuditBackups
           E == AuditEvents
           T == report.todo
           f == Max(T)
           rest == T \ {f}
           ss == Parts(trail, B)
           read == report.read
           now == read \o Parsed(trail[f])
<1>1. /\ B \in Nat /\ AuditTyped /\ trail \in Journals(E, B)
      /\ T \in SUBSET (0..B) /\ read \in Seq(E)
  BY AuditAssumption DEF AuditInv, AuditTyped
<1>2. /\ T # {} /\ report' = [report EXCEPT !.todo = rest, !.read = now]
      /\ UNCHANGED <<trail, lock, writing, events>>
  BY DEF ReadOneFile
<1>3. f \in T /\ (\A i \in T : i <= f) /\ \A m \in T : (\A i \in T : i <= m) => m = f
  <2> HIDE DEF T, B
  <2> QED BY <1>1, <1>2, HighestFile
<1>4. f \in 0..B /\ Parsed(trail[f]) \in Seq(E) /\ ss[B + 1 - f] = Parsed(trail[f])
  <2>1. f \in 0..B
    BY <1>1, <1>3
  <2> HIDE DEF T, B, E, f
  <2> QED BY <1>1, <2>1, ChainOfParts
<1>5. now \in Seq(E)
  BY <1>1, <1>4, ConcatProperties
<1>6. report'.todo = rest /\ report'.read = now /\ report'.moved = report.moved
  BY <1>1, <1>2 DEF AuditTyped
<1>7. AuditTyped'
  <2>1. rest \in SUBSET (0..B)
    BY <1>1
  <2> HIDE DEF rest, now, B, E
  <2>2. report' \in [todo : SUBSET (0..B), read : Seq(E), moved : BOOLEAN]
    <3>1. report \in [todo : SUBSET (0..B), read : Seq(E), moved : BOOLEAN]
      BY <1>1 DEF AuditTyped, B, E
    <3> QED BY <1>2, <1>5, <2>1, <3>1
  <2> QED BY <1>1, <1>2, <2>2 DEF AuditTyped, B, E
<1>8. ASSUME ~report.moved
      PROVE  /\ rest = {} => LinkedUp(now)
             /\ rest # {} => 0 \in rest /\ ReadSoFar'
  <2>1. 0 \in T /\ ReadSoFar
    BY <1>2, <1>8 DEF AuditInv, Reported
  <2>2. read = Upto(ss, B - f) /\ \A i \in 0..f : i \in T \/ trail[i] = <<>>
    BY <1>3, <2>1 DEF ReadSoFar
  <2> DEFINE n == B + 1
             k == B + 1 - f
  <2>3. n \in Nat /\ k \in 1..n /\ k - 1 = B - f /\ ss \in [1..n -> Seq(E)]
    <3> HIDE DEF T, f, E
    <3> QED BY <1>1, <1>4, ChainOfParts
  <2>4. Upto(ss, k) = Upto(ss, k - 1) \o ss[k]
    <3> HIDE DEF ss, n, k, E
    <3> QED BY <2>3, FlattenedOnce
  <2>5. now = Upto(ss, B + 1 - f)
    BY <1>4, <2>2, <2>3, <2>4
  <2>6. ASSUME rest = {} PROVE LinkedUp(now)
    <3>1. f = 0
      BY <2>1, <2>6
    <3>2. B + 1 - f = B + 1
      BY <1>1, <3>1
    <3>3. now = Chain(trail, B)
      <4> HIDE DEF f, T, now, E
      <4> QED BY <1>1, <2>5, <3>2, ChainOfParts
    <3> QED BY <3>3 DEF AuditInv
  <2>7. ASSUME rest # {} PROVE 0 \in rest /\ ReadSoFar'
    <3> DEFINE m == Max(rest)
    <3>1. m \in rest /\ \A i \in rest : i <= m
      <4>1. rest \in SUBSET (0..B)
        BY <1>1
      <4> HIDE DEF rest, B
      <4> QED BY <1>1, <2>7, <4>1, HighestFile
    <3> HIDE DEF m
    <3>2. m \in T /\ m # f /\ m <= f /\ m \in 0..B
      BY <1>1, <1>3, <3>1
    <3> HIDE DEF f
    <3>3. m < f /\ m \in 0..(f - 1) /\ f \in 1..(B + 1) /\ f # 0
      BY <1>1, <1>4, <3>2
    <3>4. \A i \in (m + 1)..(f - 1) : trail[i] = <<>>
      <4> SUFFICES ASSUME NEW i \in (m + 1)..(f - 1) PROVE trail[i] = <<>>
        OBVIOUS
      <4>1. i \in 0..f /\ i # f /\ ~(i <= m)
        BY <1>4, <3>2
      <4>2. i \notin T
        BY <3>1, <4>1
      <4> QED BY <2>2, <4>1, <4>2
    <3>5. Upto(ss, B - m) = Upto(ss, B + 1 - f)
      <4> HIDE DEF B, E
      <4> QED BY <1>1, <3>3, <3>4, Skipped
    <3>6. now = Upto(ss, B - m)
      BY <2>5, <3>5
    <3>7. \A i \in 0..m : i \in rest \/ trail[i] = <<>>
      <4> SUFFICES ASSUME NEW i \in 0..m PROVE i \in rest \/ trail[i] = <<>>
        OBVIOUS
      <4>1. i \in 0..f /\ i # f
        BY <1>4, <3>2, <3>3
      <4> QED BY <2>2, <4>1
    <3>8. ss' = ss
      BY <1>2
    <3>9. ReadSoFar'
      <4> HIDE DEF rest, now
      <4> QED BY <1>2, <1>6, <3>1, <3>6, <3>7 DEF ReadSoFar
    <3> QED BY <2>1, <3>3, <3>9
  <2> QED BY <2>6, <2>7
<1>9. Reported'
  <2> HIDE DEF rest, now
  <2> QED BY <1>6, <1>8 DEF Reported
<1>10. Locked' /\ LinkedUp(Chain(trail, AuditBackups))'
  BY <1>2 DEF AuditInv, Locked
<1> QED BY <1>7, <1>9, <1>10 DEF AuditInv

\* Every step keeps the invariant.
LEMMA AuditStep == ASSUME AuditInv, [AuditNext]_auditVars PROVE AuditInv'
<1>1. ASSUME NEW w \in Writers, BeginWrite(w) \/ RotateOne(w) \/ AppendEvent(w) \/ GiveUpWrite(w)
      PROVE  AuditInv'
  BY <1>1, BeginWriteKeeps, RotateOneKeeps, AppendEventKeeps, GiveUpKeeps
<1>2. CASE BeginReport
  BY <1>2, BeginReportKeeps
<1>3. CASE ReadOneFile
  BY <1>3, ReadOneFileKeeps
<1>4. CASE UNCHANGED auditVars
  BY <1>4 DEF auditVars, AuditInv, AuditTyped, Locked, Reported, ReadSoFar
<1> QED BY <1>1, <1>2, <1>3, <1>4 DEF AuditNext

\* Whatever writers interleave, die in the middle of a rotation or have their
\* lines cut, a report during which no file moved finds every event but the
\* first linked to the one read before it.
THEOREM ReportVerifies == AuditSpec => []LinksVerify
<1>1. AuditInv => LinksVerify
  <2> SUFFICES ASSUME AuditInv, report.todo = {}, ~report.moved
               PROVE  ChainErrors(report.read) \subseteq {1}
    BY DEF LinksVerify
  <2> DEFINE read == report.read
  <2>1. LinkedUp(read) /\ read \in Seq(AuditEvents)
    BY DEF AuditInv, Reported, AuditTyped
  <2>2. DOMAIN read = 1..Len(read) /\ Len(read) \in Nat
    BY <2>1, LenProperties
  <2> HIDE DEF read
  <2>3. \A i \in DOMAIN read : i # 1 => read[i].previous = read[i - 1].hash
    <3>1. \A i \in DOMAIN read : i # 1 => i \in 2..Len(read)
      BY <2>2
    <3> QED BY <2>1, <3>1 DEF LinkedUp
  <2> QED BY <2>3 DEF ChainErrors, read
<1> QED BY <1>1, AuditBegins, AuditStep, PTL DEF AuditSpec

-----------------------------------------------------------------------------
(* The conversation log.                                                    *)

\* What Max and Min choose of two numbers.
LEMMA LargerOfTwo ==
  ASSUME NEW a \in Int, NEW b \in Int
  PROVE  Max({a, b}) = (IF a >= b THEN a ELSE b) /\ Min({a, b}) = IF a >= b THEN b ELSE a
<1> DEFINE top == IF a >= b THEN a ELSE b
           low == IF a >= b THEN b ELSE a
<1>1. /\ top \in {a, b} /\ \A x \in {a, b} : top >= x
      /\ low \in {a, b} /\ \A x \in {a, b} : low <= x
  OBVIOUS
<1>2. Max({a, b}) \in {a, b} /\ \A x \in {a, b} : Max({a, b}) >= x
  <2> HIDE DEF top, low
  <2> QED BY <1>1 DEF Max
<1>3. Min({a, b}) \in {a, b} /\ \A x \in {a, b} : Min({a, b}) <= x
  <2> HIDE DEF top, low
  <2> QED BY <1>1 DEF Min
<1> DEFINE hi == Max({a, b})
           lo == Min({a, b})
<1>4. (hi = a \/ hi = b) /\ hi >= a /\ hi >= b /\ (lo = a \/ lo = b) /\ lo <= a /\ lo <= b
  BY <1>2, <1>3
<1> HIDE DEF hi, lo
<1>5. hi = top /\ lo = low
  BY <1>4
<1> QED BY <1>5 DEF hi, lo

\* How many pages there are, and the one that is shown for the one asked for:
\* there is a record on it.
Pages(total, size) == Max({1, (total + size - 1) \div size})
PageFor(total, size, asked) == Min({asked, Pages(total, size) - 1})

LEMMA PageThere ==
  ASSUME NEW total \in Nat \ {0}, NEW asked \in Nat, NEW size \in Nat \ {0}
  PROVE  /\ Pages(total, size) \in Nat
         /\ PageFor(total, size, asked) \in Nat /\ PageFor(total, size, asked) <= asked
         /\ PageFor(total, size, asked) * size \in Nat
         /\ PageFor(total, size, asked) * size < total
         /\ PageFor(total, size, asked) * size <= asked * size
         /\ (PageFor(total, size, asked) + 1) * size = PageFor(total, size, asked) * size + size
<1> DEFINE all == (total + size - 1) \div size
           pages == Pages(total, size)
           page == PageFor(total, size, asked)
<1>1. all \in Nat /\ all * size <= total + size - 1 /\ total <= all * size
  OBVIOUS
<1>2. all >= 1
  <2>1. CASE all = 0
    BY <1>1, <2>1
  <2> QED BY <1>1, <2>1
<1> HIDE DEF all
<1>3. pages = all
  <2>1. pages = Max({1, all})
    BY DEF all, Pages
  <2> QED BY <1>1, <1>2, <2>1, LargerOfTwo
<1>4. page = IF asked >= pages - 1 THEN pages - 1 ELSE asked
  <2> DEFINE last == pages - 1
  <2>1. last \in Int /\ asked \in Int
    BY <1>1, <1>3
  <2> HIDE DEF last
  <2>2. Min({asked, last}) = IF asked >= last THEN last ELSE asked
    BY ONLY <2>1, LargerOfTwo
  <2> QED BY <2>2 DEF last, PageFor
<1> HIDE DEF pages, page
<1>5. page \in Nat /\ page <= asked /\ page <= pages - 1
  BY <1>1, <1>2, <1>3, <1>4
<1>6. page * size <= (pages - 1) * size /\ page * size <= asked * size /\ page * size \in Nat
  BY <1>1, <1>3, <1>5
<1>7. (pages - 1) * size < total
  BY <1>1, <1>3
<1>8. (page + 1) * size = page * size + size
  BY <1>5
<1> QED BY <1>1, <1>3, <1>5, <1>6, <1>7, <1>8 DEF pages, page

\* The lines of a file that are no text, and how many lines are read of it.
Bad(lines) == {i \in DOMAIN lines : lines[i].bytes # "whole"}
LinesRead(lines) ==
  IF Bad(lines) = {} THEN Len(lines)
  ELSE IF lines[Min(Bad(lines))].bytes = "cut" THEN Min(Bad(lines)) - 1
  ELSE BufferLines * ((Min(Bad(lines)) - 1) \div BufferLines)

\* Only lines before the first of those are read.
LEMMA ReadBeforeBad ==
  ASSUME NEW E, NEW lines \in Seq(LinesOf(E))
  PROVE  /\ Len(lines) \in Nat /\ DOMAIN lines = 1..Len(lines)
         /\ LinesRead(lines) \in 0..Len(lines)
         /\ Decoded(lines) = SubSeq(lines, 1, LinesRead(lines))
         /\ Bad(lines) # {} =>
              /\ Min(Bad(lines)) \in Bad(lines) /\ \A i \in Bad(lines) : Min(Bad(lines)) <= i
              /\ LinesRead(lines) < Min(Bad(lines))
              /\ BufferLines * ((Min(Bad(lines)) - 1) \div BufferLines) <= Min(Bad(lines)) - 1
<1> DEFINE n == Len(lines)
           m == Min(Bad(lines))
<1>1. n \in Nat /\ DOMAIN lines = 1..n /\ lines \in [1..n -> LinesOf(E)]
  BY LenProperties
<1>2. CASE Bad(lines) = {}
  <2>1. n \in 0..n /\ 0 \in 0..n
    BY <1>1
  <2>2. SubSeq(lines, 1, n) = [i \in 1..n |-> lines[i]]
    BY <2>1, FirstLines
  <2>3. SubSeq(lines, 1, n) = lines
    BY <1>1, <2>2
  <2> QED BY <1>1, <1>2, <2>1, <2>3 DEF LinesRead, Decoded, Bad
<1>3. CASE Bad(lines) # {}
  <2>1. Bad(lines) \in SUBSET Nat
    BY <1>1 DEF Bad
  <2>2. m \in Bad(lines) /\ \A i \in Bad(lines) : m <= i
    <3>1. \E x \in Bad(lines) : \A y \in Bad(lines) : x <= y
      BY <1>3, <2>1, LeastIn
    <3> QED BY <3>1 DEF Min
  <2> HIDE DEF m
  <2>3. m \in 1..n
    BY <1>1, <2>2 DEF Bad
  <2> DEFINE B == BufferLines
             whole == B * ((m - 1) \div B)
  <2>4. whole \in Nat /\ whole <= m - 1
    <3>1. B \in Nat \ {0} /\ m - 1 \in Nat
      BY <1>1, <2>3, LogAssumption
    <3> HIDE DEF B
    <3> QED BY <3>1
  <2> HIDE DEF whole
  <2>5. LinesRead(lines) = IF lines[m].bytes = "cut" THEN m - 1 ELSE whole
    BY <1>3 DEF LinesRead, m, whole
  <2>6. Decoded(lines) = SubSeq(lines, 1, LinesRead(lines))
    BY <1>3 DEF LinesRead, Decoded, Bad
  <2>7. LinesRead(lines) \in 0..n /\ LinesRead(lines) < m
    BY <1>1, <2>3, <2>4, <2>5
  <2> QED BY <1>1, <2>2, <2>4, <2>6, <2>7 DEF m, whole
<1> QED BY <1>2, <1>3

\* What is appended to a file is read after what was, or less is read of it.
LEMMA DecodedAppended ==
  ASSUME NEW E, NEW lines \in Seq(LinesOf(E)), NEW line \in LinesOf(E)
  PROVE  LongerOrCut(E, Parsed(Decoded(lines)), Parsed(Decoded(Appended(lines, line))), line.text)
<1> DEFINE g == Appended(lines, line)
           n == Len(lines)
           glued == [text |-> <<>>, ended |-> line.ended,
                     bytes |-> IF lines[n].bytes = "whole" THEN line.bytes ELSE "broken"]
<1>1. g \in Seq(LinesOf(E)) /\ n \in Nat /\ DOMAIN lines = 1..n /\ lines \in [1..n -> LinesOf(E)]
  BY AppendedReads, LenProperties
<1>2. \/ Len(g) = n /\ n # 0 /\ g[n] = glued /\ \A i \in 1..(n - 1) : g[i] = lines[i]
      \/ Len(g) = n + 1 /\ g[n + 1] = line /\ \A i \in 1..n : g[i] = lines[i]
  <2>1. CASE IsOpen(lines)
    <3>1. g = [lines EXCEPT ![n] = glued] /\ lines # <<>>
      BY <2>1 DEF Appended, IsOpen
    <3>2. n # 0
      BY <1>1, <3>1, EmptySeq
    <3> HIDE DEF glued
    <3>3. DOMAIN g = 1..n /\ n \in 1..n /\ \A i \in 1..n : g[i] = IF i = n THEN glued ELSE lines[i]
      <4> HIDE DEF g, n
      <4> QED BY <1>1, <3>1, <3>2
    <3>4. Len(g) = n
      <4> HIDE DEF g, n
      <4> QED BY <1>1, <3>3, LenProperties
    <3> HIDE DEF g, n
    <3>5. g[n] = glued /\ \A i \in 1..(n - 1) : g[i] = lines[i]
      BY <1>1, <3>3
    <3> QED BY <3>2, <3>4, <3>5 DEF glued
  <2>2. CASE ~IsOpen(lines)
    <3>1. g = Append(lines, line)
      BY <2>2 DEF Appended
    <3>2. /\ Len(Append(lines, line)) = n + 1 /\ Append(lines, line)[n + 1] = line
          /\ \A i \in 1..n : Append(lines, line)[i] = lines[i]
      BY AppendProperties
    <3> HIDE DEF g, n, glued
    <3> QED BY <3>1, <3>2
  <2> QED BY <2>1, <2>2
<1> DEFINE k == LinesRead(g)
           l == LinesRead(lines)
<1>3. /\ k \in 0..Len(g) /\ l \in 0..n /\ Len(g) \in Nat /\ DOMAIN g = 1..Len(g)
      /\ Decoded(g) = SubSeq(g, 1, k) /\ Decoded(lines) = SubSeq(lines, 1, l)
  BY <1>1, ReadBeforeBad
<1>4. CASE Bad(lines) = {} /\ Bad(g) = {}
  <2>1. Decoded(lines) = lines /\ Decoded(g) = g
    BY <1>4 DEF Decoded, Bad
  <2>2. LongerOrCut(E, Parsed(lines), Parsed(g), line.text)
    BY AppendedReads DEF LongerOrCut
  <2> HIDE DEF g
  <2>3. LongerOrCut(E, Parsed(Decoded(lines)), Parsed(Decoded(g)), line.text)
    BY <2>1, <2>2
  <2> QED BY <2>3 DEF g
<1>5. CASE Bad(lines) # {} \/ Bad(g) # {}
  <2>1. k <= l /\ \A i \in 1..k : g[i] = lines[i]
    <3>1. CASE Bad(lines) = {}
      <4> DEFINE m == Min(Bad(g))
      <4>1. m \in Bad(g) /\ k < m
        BY <1>1, <1>5, <3>1, ReadBeforeBad
      <4>2. m \in 1..Len(g) /\ g[m].bytes # "whole" /\ \A i \in 1..n : lines[i].bytes = "whole"
        BY <1>1, <1>3, <3>1, <4>1 DEF Bad
      <4>3. l = n
        BY <3>1 DEF LinesRead
      <4> HIDE DEF g, k, l, m, n, glued
      <4>4. m = Len(g)
        BY <1>1, <1>2, <4>2
      <4>5. CASE Len(g) = n + 1 /\ \A i \in 1..n : g[i] = lines[i]
        BY <1>1, <1>3, <4>1, <4>3, <4>4, <4>5
      <4>6. CASE Len(g) = n /\ \A i \in 1..(n - 1) : g[i] = lines[i]
        BY <1>1, <1>3, <4>1, <4>3, <4>4, <4>6
      <4> QED BY <1>2, <4>5, <4>6
    <3>2. CASE Bad(lines) # {}
      <4> DEFINE m == Min(Bad(lines))
                 whole == BufferLines * ((m - 1) \div BufferLines)
      <4>1. /\ m \in Bad(lines) /\ (\A i \in Bad(lines) : m <= i) /\ l < m /\ whole <= m - 1
            /\ l = IF lines[m].bytes = "cut" THEN m - 1 ELSE whole
        <5>1. /\ m \in Bad(lines) /\ (\A i \in Bad(lines) : m <= i) /\ l < m /\ whole <= m - 1
          BY <3>2, ReadBeforeBad
        <5> QED BY <3>2, <5>1 DEF LinesRead
      <4> HIDE DEF m
      <4>2. m \in 1..n /\ lines[m].bytes # "whole" /\ \A i \in 1..(m - 1) : lines[i].bytes = "whole"
        <5>1. m \in 1..n /\ lines[m].bytes # "whole"
          BY <1>1, <4>1 DEF Bad
        <5>2. ASSUME NEW i \in 1..(m - 1), lines[i].bytes # "whole" PROVE FALSE
          <6>1. i \in 1..n /\ i < m
            BY <1>1, <5>1
          <6>2. i \in Bad(lines)
            BY <1>1, <5>2, <6>1 DEF Bad
          <6> HIDE DEF n
          <6> QED BY <4>1, <5>1, <6>1, <6>2
        <5> QED BY <5>1, <5>2
      <4>3. g[m].bytes = lines[m].bytes \/ g[m].bytes = "broken"
        <5>1. m = n => glued.bytes = "broken"
          BY <4>2
        <5> HIDE DEF g, n, m, glued
        <5> QED BY <1>1, <1>2, <4>2, <5>1
      <4>4. \A i \in 1..(m - 1) : g[i] = lines[i]
        <5> HIDE DEF g, n, m, glued
        <5> QED BY <1>1, <1>2, <4>2
      <4>5. m \in Bad(g) /\ \A i \in Bad(g) : m <= i
        <5>1. m \in DOMAIN g /\ g[m].bytes # "whole"
          <6> HIDE DEF g, n, m, glued
          <6> DEFINE h == Len(g)
          <6>1. m \in 1..n /\ DOMAIN g = 1..h /\ n \in Nat
            BY <1>1, <1>3, <4>2
          <6>2. h = n \/ h = n + 1
            BY <1>2
          <6> HIDE DEF h
          <6>3. m \in DOMAIN g
            BY <6>1, <6>2
          <6> QED BY <4>2, <4>3, <6>3
        <5>2. ASSUME NEW i \in Bad(g), i < m PROVE FALSE
          <6>1. i \in 1..(m - 1) /\ g[i].bytes # "whole"
            BY <1>3, <4>2, <5>2 DEF Bad
          <6> QED BY <4>2, <4>4, <6>1
        <5>3. Bad(g) \subseteq Nat /\ m \in Nat
          BY <1>1, <1>3, <4>2 DEF Bad
        <5>4. m \in Bad(g)
          BY <5>1 DEF Bad
        <5> HIDE DEF g, n, glued
        <5> QED BY <5>2, <5>3, <5>4
      <4>6. Min(Bad(g)) = m
        <5>1. Min(Bad(g)) \in Bad(g) /\ \A i \in Bad(g) : Min(Bad(g)) <= i
          BY <1>1, <4>5, ReadBeforeBad
        <5>2. Bad(g) \subseteq Nat
          BY <1>3 DEF Bad
        <5> HIDE DEF m
        <5> QED BY <4>5, <5>1, <5>2
      <4>7. k = IF g[m].bytes = "cut" THEN m - 1 ELSE whole
        BY <4>5, <4>6 DEF LinesRead
      <4>8. k <= l /\ k <= m - 1
        <5> HIDE DEF g, k, l, m, whole
        <5> QED BY <1>3, <4>1, <4>3, <4>7
      <4> HIDE DEF g, k, l, m
      <4> QED BY <1>3, <4>2, <4>4, <4>8
    <3> QED BY <3>1, <3>2
  <2> HIDE DEF k, l, g, n
  <2>2. k \in 0..l /\ l \in 0..Len(lines) /\ k \in 0..Len(g) /\ k \in 0..k
    BY <1>3, <2>1 DEF n
  <2>3. SubSeq(g, 1, k) = SubSeq(lines, 1, k)
    <3>1. SubSeq(g, 1, k) = [i \in 1..k |-> g[i]]
      BY <1>1, <2>2, FirstLines
    <3>2. SubSeq(lines, 1, k) = [i \in 1..k |-> lines[i]]
      BY <2>2, FirstLines
    <3> QED BY <2>1, <3>1, <3>2
  <2>4. Begins(E, Parsed(SubSeq(lines, 1, k)), Parsed(SubSeq(lines, 1, l)))
    BY <2>2, FirstLines
  <2> QED BY <1>3, <2>3, <2>4 DEF LongerOrCut, Begins, g
<1> QED BY <1>4, <1>5

\* Nothing is read of an empty file.
LEMMA NothingDecoded == Decoded(<<>>) = <<>>
<1>1. {i \in DOMAIN <<>> : <<>>[i].bytes # "whole"} = {}
  OBVIOUS
<1> QED BY <1>1 DEF Decoded

\* What can be read of a journal is one, and files are moved and removed in
\* it as in the journal.
LEMMA ReadableJournal ==
  ASSUME NEW E, NEW b \in Nat, NEW j \in Journals(E, b)
  PROVE  /\ Readable(j) \in Journals(E, b) /\ \A i \in 0..b : Readable(j)[i] = Decoded(j[i])
         /\ Readable(WithoutOldest(j, b)) = WithoutOldest(Readable(j), b)
         /\ \A f \in 0..(b - 1) : j[f + 1] = <<>> =>
              Readable(j)[f + 1] = <<>> /\ Readable(Shifted(j, f)) = Shifted(Readable(j), f)
<1>1. j \in [0..b -> Seq(LinesOf(E))] /\ DOMAIN j = 0..b
  BY DEF Journals
<1>2. Decoded(<<>>) = <<>>
  BY NothingDecoded
<1>3. \A i \in 0..b : Readable(j)[i] = Decoded(j[i])
  BY <1>1 DEF Readable
<1>4. Readable(j) \in [0..b -> Seq(LinesOf(E))]
  <2>1. ASSUME NEW lines \in Seq(LinesOf(E)) PROVE Decoded(lines) \in Seq(LinesOf(E))
    <3> DEFINE k == LinesRead(lines)
    <3>1. k \in 0..Len(lines) /\ k \in 0..k /\ Decoded(lines) = SubSeq(lines, 1, k)
      BY ReadBeforeBad
    <3> HIDE DEF k
    <3>2. SubSeq(lines, 1, k) \in Seq(LinesOf(E))
      BY <3>1, FirstLines
    <3> QED BY <3>1, <3>2
  <2>2. \A i \in 0..b : Decoded(j[i]) \in Seq(LinesOf(E))
    BY <1>1, <2>1
  <2> QED BY <1>1, <2>2 DEF Readable
<1>5. Readable(WithoutOldest(j, b)) = WithoutOldest(Readable(j), b)
  <2>1. DOMAIN WithoutOldest(j, b) = 0..b /\ b \in 0..b
        /\ \A i \in 0..b : WithoutOldest(j, b)[i] = IF i = b THEN <<>> ELSE j[i]
    BY <1>1 DEF WithoutOldest
  <2> DEFINE r == Readable(WithoutOldest(j, b))
             q == WithoutOldest(Readable(j), b)
  <2>2. r = [i \in 0..b |-> IF i = b THEN <<>> ELSE Decoded(j[i])]
    BY <1>2, <2>1 DEF Readable
  <2>3. q = [i \in 0..b |-> IF i = b THEN <<>> ELSE Decoded(j[i])]
    BY <1>1 DEF WithoutOldest, Readable
  <2> QED BY <2>2, <2>3
<1>6. ASSUME NEW f \in 0..(b - 1), j[f + 1] = <<>>
      PROVE  Readable(j)[f + 1] = <<>> /\ Readable(Shifted(j, f)) = Shifted(Readable(j), f)
  <2>1. f \in 0..b /\ f + 1 \in 0..b /\ f # f + 1
    OBVIOUS
  <2>2. Readable(j)[f + 1] = <<>>
    BY <1>2, <1>3, <1>6, <2>1
  <2>3. CASE j[f] = <<>>
    <3>1. Readable(j)[f] = <<>>
      BY <1>2, <1>3, <2>1, <2>3
    <3> QED BY <2>2, <2>3, <3>1 DEF Shifted
  <2>4. CASE j[f] # <<>>
    <3> DEFINE r == [i \in 0..b |-> IF i = f + 1 THEN Decoded(j[f])
                                     ELSE IF i = f THEN <<>> ELSE Decoded(j[i])]
    <3>1. /\ DOMAIN Shifted(j, f) = 0..b
          /\ \A i \in 0..b : Shifted(j, f)[i] = IF i = f + 1 THEN j[f] ELSE IF i = f THEN <<>> ELSE j[i]
      BY <1>1, <2>1, <2>4 DEF Shifted
    <3>2. Readable(Shifted(j, f)) = r
      BY <1>2, <3>1 DEF Readable
    <3>3. Shifted(Readable(j), f) = r
      <4> DEFINE q == Readable(j)
      <4>1. q = [i \in 0..b |-> Decoded(j[i])]
        BY <1>1 DEF Readable
      <4>2. CASE q[f] = <<>>
        <5>1. q = r
          BY <1>2, <1>6, <2>1, <4>1, <4>2
        <5> QED BY <4>2, <5>1 DEF Shifted
      <4>3. CASE q[f] # <<>>
        <5>1. Shifted(q, f) = [q EXCEPT ![f + 1] = q[f], ![f] = <<>>]
          BY <4>3 DEF Shifted
        <5> HIDE DEF q
        <5> QED BY <2>1, <4>1, <5>1
      <4> QED BY <4>2, <4>3
    <3> QED BY <2>2, <3>2, <3>3
  <2> QED BY <2>3, <2>4
<1> QED BY <1>3, <1>4, <1>5, <1>6 DEF Journals

\* What is read of a journal.
ReadChain(j, b) == Chain(Readable(j), b)

\* The steps of a rotation change as much in it as in the chain of all lines.
LEMMA ReadWhileRotated ==
  ASSUME NEW E, NEW b \in Nat, NEW j \in Journals(E, b)
  PROVE  /\ ReadChain(j, b) \in Seq(E)
         /\ WithoutOldest(j, b) \in Journals(E, b) /\ WithoutOldest(j, b)[b] = <<>>
         /\ \E X \in Seq(E) : ReadChain(j, b) = X \o ReadChain(WithoutOldest(j, b), b)
         /\ \A f \in 0..(b - 1) : j[f + 1] = <<>> =>
              /\ Shifted(j, f) \in Journals(E, b) /\ Shifted(j, f)[f] = <<>>
              /\ ReadChain(Shifted(j, f), b) = ReadChain(j, b)
<1> DEFINE r == Readable(j)
<1>1. r \in Journals(E, b) /\ Readable(WithoutOldest(j, b)) = WithoutOldest(r, b)
  BY ReadableJournal
<1>2. \A f \in 0..(b - 1) : j[f + 1] = <<>> => r[f + 1] = <<>> /\ Readable(Shifted(j, f)) = Shifted(r, f)
  BY ReadableJournal
<1> HIDE DEF r
<1>3. ReadChain(j, b) = Chain(r, b)
  BY DEF ReadChain, r
<1>4. Chain(r, b) \in Seq(E)
  BY <1>1, ChainOfParts
<1>5. WithoutOldest(j, b) \in Journals(E, b) /\ WithoutOldest(j, b)[b] = <<>>
  BY ChainWithoutOldest
<1>6. \E X \in Seq(E) : ReadChain(j, b) = X \o ReadChain(WithoutOldest(j, b), b)
  <2>1. Parsed(r[b]) \in Seq(E) /\ Chain(r, b) = Parsed(r[b]) \o Chain(WithoutOldest(r, b), b)
    BY <1>1, ChainWithoutOldest
  <2>2. ReadChain(WithoutOldest(j, b), b) = Chain(WithoutOldest(r, b), b)
    BY <1>1 DEF ReadChain
  <2> QED BY <1>3, <2>1, <2>2
<1>7. ASSUME NEW f \in 0..(b - 1), j[f + 1] = <<>>
      PROVE  /\ Shifted(j, f) \in Journals(E, b) /\ Shifted(j, f)[f] = <<>>
             /\ ReadChain(Shifted(j, f), b) = ReadChain(j, b)
  <2>1. Shifted(j, f) \in Journals(E, b) /\ Shifted(j, f)[f] = <<>>
    BY <1>7, ChainShifted
  <2>2. Chain(Shifted(r, f), b) = Chain(r, b)
    BY <1>1, <1>2, <1>7, ChainShifted
  <2>3. ReadChain(Shifted(j, f), b) = Chain(Shifted(r, f), b)
    BY <1>2, <1>7 DEF ReadChain
  <2> QED BY <1>3, <2>1, <2>2, <2>3
<1> QED BY <1>3, <1>4, <1>5, <1>6, <1>7

\* What is written ends it, or takes the last of it away.
LEMMA ReadWhenLonger ==
  ASSUME NEW E, NEW b \in Nat, NEW j \in Journals(E, b), NEW line \in LinesOf(E)
  PROVE  /\ Longer(j, line) \in Journals(E, b)
         /\ LongerOrCut(E, ReadChain(j, b), ReadChain(Longer(j, line), b), line.text)
<1> DEFINE k == Longer(j, line)
           x == line.text
           p == Readable(j)
           q == Readable(k)
<1>1. /\ k \in Journals(E, b) /\ k[0] = Appended(j[0], line) /\ j[0] \in Seq(LinesOf(E))
      /\ \A i \in 1..b : k[i] = j[i]
  BY LongerJournal
<1>2. x \in Seq(E)
  BY DEF LinesOf
<1> HIDE DEF k
<1>3. p \in Journals(E, b) /\ \A i \in 0..b : p[i] = Decoded(j[i])
  BY ReadableJournal
<1>4. q \in Journals(E, b) /\ \A i \in 0..b : q[i] = Decoded(k[i])
  BY <1>1, ReadableJournal
<1> HIDE DEF p, q
<1>5. \A i \in 1..b : q[i] = p[i]
  BY <1>1, <1>3, <1>4
<1>6. LongerOrCut(E, Parsed(p[0]), Parsed(q[0]), x)
  BY <1>1, <1>3, <1>4, DecodedAppended DEF x
<1> HIDE DEF x
<1>7. LongerOrCut(E, Chain(p, b), Chain(q, b), x)
  BY <1>2, <1>3, <1>4, <1>5, <1>6, ChainLengthened
<1> QED BY <1>1, <1>7 DEF ReadChain, k, x, p, q

\* However far a rotation gets, the journal is one, and the records that can
\* be read of it are the end of those before.
RotatedSoFar(j, k) ==
  /\ RotationSteps(j, k) \in Journals(Nat, LogBackups)
  /\ \E X \in Seq(Nat) : Records(j) = X \o Records(RotationSteps(j, k))

\* A rotation goes that far.
LEMMA RotationKeepsTheEnd ==
  ASSUME NEW j \in Journals(Nat, LogBackups), NEW k \in 0..(LogBackups + 1)
  PROVE  RotatedSoFar(j, k)
<1> DEFINE B == LogBackups
           A == Journals(Nat, B)
           OneMore(prev, i) == IF i = 1 THEN WithoutOldest(j, B) ELSE Shifted(prev, B + 1 - i)
           step == [p \in A \X (1..k) |-> OneMore(p[1], p[2])]
           Eq(f) == f = [i \in 0..k |-> IF i = 0 THEN j
                                        ELSE IF i = 1 THEN [j EXCEPT ![LogBackups] = <<>>]
                                        ELSE Shifted(f[i - 1], LogBackups + 1 - i)]
           after == CHOOSE f : Eq(f)
<1>1. B \in Nat /\ k \in Nat /\ j \in A
  BY LogAssumption
<1>2. WithoutOldest(j, B) \in A /\ WithoutOldest(j, B)[B] = <<>>
      /\ \E X \in Seq(Nat) : ReadChain(j, B) = X \o ReadChain(WithoutOldest(j, B), B)
  <2> DEFINE E == Nat
  <2>1. j \in Journals(E, B)
    BY <1>1
  <2> HIDE DEF E, B
  <2>2. /\ WithoutOldest(j, B) \in Journals(E, B) /\ WithoutOldest(j, B)[B] = <<>>
        /\ \E X \in Seq(E) : ReadChain(j, B) = X \o ReadChain(WithoutOldest(j, B), B)
    BY <1>1, <2>1, ReadWhileRotated
  <2> QED BY <2>2 DEF E
<1>3. \A prev \in A, i \in 1..k : OneMore(prev, i) \in A
  <2> SUFFICES ASSUME NEW prev \in A, NEW i \in 1..k, i # 1 PROVE Shifted(prev, B + 1 - i) \in A
    BY <1>2
  <2>1. B + 1 - i \in 0..B /\ B + 1 - i + 1 \in 0..B
    BY <1>1
  <2>2. prev \in [0..B -> Seq(LinesOf(Nat))] /\ <<>> \in Seq(LinesOf(Nat))
    BY EmptySeq DEF Journals
  <2> QED BY <2>1, <2>2 DEF Shifted, Journals
<1>4. PICK f \in [0..k -> A] : LoopSolved(f, k, j, step)
  <2>1. step \in [A \X (1..k) -> A]
    <3> HIDE DEF A, OneMore
    <3> QED BY <1>3
  <2> HIDE DEF A, step
  <2> QED BY <1>1, <2>1, LoopExists
<1>5. Eq(f)
  <2>1. \A i \in 0..k : f[i] = IF i = 0 THEN j ELSE OneMore(f[i - 1], i)
    <3> SUFFICES ASSUME NEW i \in 0..k PROVE f[i] = IF i = 0 THEN j ELSE OneMore(f[i - 1], i)
      OBVIOUS
    <3>1. f[i] = IF i = 0 THEN j ELSE step[<<f[i - 1], i>>]
      BY <1>4 DEF LoopSolved
    <3>2. CASE i # 0
      <4>1. i \in 1..k /\ i - 1 \in 0..k
        BY <3>2
      <4>2. f[i - 1] \in A
        BY <4>1
      <4> HIDE DEF A, OneMore
      <4>3. step[<<f[i - 1], i>>] = OneMore(f[i - 1], i)
        BY <4>1, <4>2
      <4> QED BY <3>1, <3>2, <4>3
    <3> QED BY <3>1, <3>2
  <2>2. f = [i \in 0..k |-> f[i]]
    OBVIOUS
  <2> QED BY <2>1, <2>2 DEF WithoutOldest
<1>6. Eq(after)
  <2> HIDE DEF Eq
  <2> QED BY <1>5
<1>7. RotationSteps(j, k) = after[k]
  BY DEF RotationSteps
<1>8. \A i \in 0..k : after[i] = IF i = 0 THEN j ELSE OneMore(after[i - 1], i)
  <2> HIDE DEF after
  <2> QED BY <1>6 DEF WithoutOldest
<1> HIDE DEF after, Eq
<1> DEFINE Good(i) == /\ after[i] \in A
                      /\ i > 0 => after[i][B + 1 - i] = <<>>
                      /\ \E X \in Seq(Nat) : ReadChain(j, B) = X \o ReadChain(after[i], B)
           Done == {i \in Nat : i <= k => Good(i)}
<1>9. 0 \in Done
  <2>1. after[0] = j
    BY <1>1, <1>8
  <2>2. ReadChain(j, B) \in Seq(Nat)
    <3> DEFINE E == Nat
    <3>1. j \in Journals(E, B)
      BY <1>1
    <3> HIDE DEF E, B
    <3>2. ReadChain(j, B) \in Seq(E)
      BY <1>1, <3>1, ReadWhileRotated
    <3> QED BY <3>2 DEF E
  <2>3. <<>> \o ReadChain(j, B) = ReadChain(j, B) /\ <<>> \in Seq(Nat)
    BY <2>2, ConcatEmptySeq, EmptySeq
  <2>4. \E X \in Seq(Nat) : ReadChain(j, B) = X \o ReadChain(after[0], B)
    BY <2>1, <2>3
  <2>5. Good(0)
    BY <1>1, <2>1, <2>4
  <2> HIDE DEF Good
  <2> QED BY <2>5
<1>10. ASSUME NEW i \in Nat, i \in Done PROVE i + 1 \in Done
  <2> SUFFICES ASSUME i + 1 <= k PROVE Good(i + 1)
    <3> HIDE DEF Good
    <3> QED OBVIOUS
  <2>1. i + 1 \in 0..k /\ i \in 0..k /\ i + 1 # 0 /\ (i + 1) - 1 = i /\ Good(i)
    <3> HIDE DEF Good
    <3> QED BY <1>10, <1>1
  <2> HIDE DEF Done, A
  <2>2. after[i + 1] = OneMore(after[i], i + 1)
    BY <1>8, <2>1
  <2>3. CASE i = 0
    <3>1. after[i + 1] = WithoutOldest(j, B) /\ B + 1 - (i + 1) = B
      BY <1>1, <2>2, <2>3
    <3> QED BY <1>2, <3>1
  <2>4. CASE i # 0
    <3> DEFINE prev == after[i]
               here == B + 1 - (i + 1)
    <3>1. after[i + 1] = Shifted(prev, here)
      BY <2>2, <2>4
    <3>2. here \in 0..(B - 1) /\ here + 1 = B + 1 - i
      BY <1>1, <2>1, <2>4
    <3>3. prev \in A /\ prev[here + 1] = <<>>
      BY <2>1, <2>4, <3>2
    <3>4. \E X \in Seq(Nat) : ReadChain(j, B) = X \o ReadChain(prev, B)
      BY <2>1
    <3> HIDE DEF prev, here
    <3>5. Shifted(prev, here) \in A /\ Shifted(prev, here)[here] = <<>>
          /\ ReadChain(Shifted(prev, here), B) = ReadChain(prev, B)
      <4> DEFINE E == Nat
      <4>1. prev \in Journals(E, B)
        BY <3>3 DEF A
      <4> HIDE DEF E, B
      <4>2. Shifted(prev, here) \in Journals(E, B) /\ Shifted(prev, here)[here] = <<>>
            /\ ReadChain(Shifted(prev, here), B) = ReadChain(prev, B)
        BY <1>1, <3>2, <3>3, <4>1, ReadWhileRotated
      <4> QED BY <4>2 DEF E, A
    <3>6. \E X \in Seq(Nat) : ReadChain(j, B) = X \o ReadChain(Shifted(prev, here), B)
      BY <3>4, <3>5
    <3>7. after[i + 1][B + 1 - (i + 1)] = <<>>
      BY <3>1, <3>5 DEF here
    <3> QED BY <3>1, <3>5, <3>6, <3>7
  <2> QED BY <2>3, <2>4
<1> HIDE DEF Done
<1>11. k \in Done
  BY <1>1, <1>9, <1>10, AllNaturals
<1>12. Good(k)
  <2> HIDE DEF Good
  <2> QED BY <1>1, <1>11 DEF Done
<1> QED BY <1>7, <1>12 DEF RotatedSoFar, Records, ReadChain, Chain

\* What becomes of the records of a chat in a write: some of the first and
\* some of the last are lost, and the new one may be added.
Slid(R, S, n) ==
  \E d \in Nat : \A i \in 1..Len(S) :
    \/ i = Len(S) /\ S[i] = n
    \/ i + d \in 1..Len(R) /\ S[i] = R[i + d]

\* Losing the beginning, then adding a record or losing some of the end, is that.
LEMMA SlidPart ==
  ASSUME NEW X \in Seq(Nat), NEW Y \in Seq(Nat), NEW S \in Seq(Nat), NEW n \in Nat,
         S = Y \/ S = Y \o <<n>> \/ \E t \in Seq(Nat) : Y = S \o t
  PROVE  Slid(X \o Y, S, n)
<1> DEFINE R == X \o Y
           d == Len(X)
           m == Len(Y)
           s == Len(S)
<1>1. d \in Nat /\ m \in Nat /\ s \in Nat /\ Len(R) = d + m
      /\ \A i \in 1..(d + m) : R[i] = IF i <= d THEN X[i] ELSE Y[i - d]
  BY ConcatProperties, LenProperties
<1> HIDE DEF R, d, m
<1>2. \A i \in 1..m : i + d \in 1..(d + m) /\ R[i + d] = Y[i]
  <2> SUFFICES ASSUME NEW i \in 1..m PROVE i + d \in 1..(d + m) /\ R[i + d] = Y[i]
    OBVIOUS
  <2>1. i + d \in 1..(d + m) /\ ~(i + d <= d) /\ (i + d) - d = i
    BY <1>1
  <2> QED BY <1>1, <2>1
<1>3. \A i \in 1..s : (i = s /\ S[i] = n) \/ (i \in 1..m /\ S[i] = Y[i])
  <2>1. CASE S = Y
    BY <2>1 DEF m
  <2>2. CASE S = Y \o <<n>>
    <3>1. S = Append(Y, n)
      BY <2>2, AppendIsConcat
    <3>2. s = m + 1 /\ (\A i \in 1..m : S[i] = Y[i]) /\ S[m + 1] = n
      BY <3>1, AppendProperties, LenProperties DEF m
    <3> HIDE DEF s
    <3>3. \A i \in 1..s : i = s \/ i \in 1..m
      BY <1>1, <3>2
    <3> QED BY <3>2, <3>3
  <2>3. CASE \E t \in Seq(Nat) : Y = S \o t
    <3>1. PICK t \in Seq(Nat) : Y = S \o t
      BY <2>3
    <3>2. m = s + Len(t) /\ Len(t) \in Nat /\ \A i \in 1..(s + Len(t)) : Y[i] = IF i <= s THEN S[i] ELSE t[i - s]
      BY <3>1, ConcatProperties, LenProperties DEF m
    <3> DEFINE r == Len(t)
    <3> HIDE DEF s, r
    <3>3. m = s + r /\ r \in Nat /\ \A i \in 1..(s + r) : Y[i] = IF i <= s THEN S[i] ELSE t[i - s]
      BY <3>2 DEF r
    <3>4. \A i \in 1..s : i \in 1..m /\ i \in 1..(s + r) /\ i <= s
      BY <1>1, <3>3
    <3> QED BY <3>3, <3>4
  <2> QED BY <2>1, <2>2, <2>3
<1> HIDE DEF s
<1>4. \A i \in 1..s : \/ i = s /\ S[i] = n
                      \/ i + d \in 1..Len(R) /\ S[i] = R[i + d]
  BY <1>1, <1>2, <1>3
<1> QED BY <1>1, <1>4 DEF Slid, R, s

\* The records are in the order they were written in, up to the last.
Rising(R, top) ==
  \A i \in 1..Len(R) : R[i] <= top /\ \A k \in 1..Len(R) : i < k => R[i] < R[k]

\* Whatever lies before the first record of a page is far from the newest.
FarBack(R, first, newest, far) ==
  \A i, w \in 1..Len(R) : R[w] = newest /\ R[i] < first => w - i >= far

\* The order survives a write.
LEMMA SlidKeepsOrder ==
  ASSUME NEW R \in Seq(Nat), NEW S \in Seq(Nat), NEW top \in Nat,
         Rising(R, top), Slid(R, S, top + 1)
  PROVE  Rising(S, top + 1)
<1> DEFINE r == Len(R)
           s == Len(S)
<1>1. PICK d \in Nat : \A i \in 1..s : \/ i = s /\ S[i] = top + 1
                                       \/ i + d \in 1..r /\ S[i] = R[i + d]
  BY DEF Slid
<1>2. /\ s \in Nat /\ r \in Nat /\ (\A i \in 1..s : S[i] \in Nat) /\ \A i \in 1..r : R[i] \in Nat
  BY LenProperties, ElementOfSeq
<1>3. (\A i \in 1..r : R[i] <= top) /\ \A i, k \in 1..r : i < k => R[i] < R[k]
  BY DEF Rising
<1> HIDE DEF r, s
<1>4. ASSUME NEW i \in 1..s PROVE S[i] <= top + 1
  <2>1. CASE i + d \in 1..r /\ S[i] = R[i + d]
    <3>1. R[i + d] <= top /\ R[i + d] \in Nat
      BY <1>2, <1>3, <2>1
    <3> QED BY <2>1, <3>1
  <2> QED BY <1>1, <2>1
<1>5. ASSUME NEW i \in 1..s, NEW k \in 1..s, i < k PROVE S[i] < S[k]
  <2>1. i # s /\ i + d \in 1..r /\ S[i] = R[i + d]
    BY <1>1, <1>2, <1>5
  <2>2. CASE S[k] = top + 1
    BY <1>2, <1>3, <2>1, <2>2
  <2>3. CASE k + d \in 1..r /\ S[k] = R[k + d]
    <3>1. i + d < k + d
      BY <1>2, <1>5
    <3> QED BY <1>3, <2>1, <2>3, <3>1
  <2> QED BY <1>1, <2>2, <2>3
<1> QED BY <1>4, <1>5 DEF Rising, s

\* And what lay far back stays as far back.
LEMMA SlidStaysFar ==
  ASSUME NEW R \in Seq(Nat), NEW S \in Seq(Nat), NEW top \in Nat, Slid(R, S, top + 1),
         NEW first \in Nat, NEW newest \in Nat, first <= newest, newest <= top,
         NEW far \in Nat, FarBack(R, first, newest, far)
  PROVE  FarBack(S, first, newest, far)
<1> DEFINE r == Len(R)
           s == Len(S)
<1>1. PICK d \in Nat : \A i \in 1..s : \/ i = s /\ S[i] = top + 1
                                       \/ i + d \in 1..r /\ S[i] = R[i + d]
  BY DEF Slid
<1>2. s \in Nat /\ r \in Nat
  BY LenProperties
<1>3. \A i, w \in 1..r : R[w] = newest /\ R[i] < first => w - i >= far
  BY DEF FarBack
<1> HIDE DEF r, s
<1>4. ASSUME NEW i \in 1..s, NEW w \in 1..s, S[w] = newest, S[i] < first PROVE w - i >= far
  <2>1. w + d \in 1..r /\ R[w + d] = newest
    BY <1>1, <1>4
  <2>2. i + d \in 1..r /\ R[i + d] < first
    BY <1>1, <1>4
  <2>3. (w + d) - (i + d) >= far
    BY <1>3, <2>1, <2>2
  <2> QED BY <1>2, <2>3
<1> QED BY <1>4 DEF FarBack, s

\* Every chat has a journal of numbers and a count.
LogTyped == logs \in [Chats -> Journals(Nat, LogBackups)] /\ sent \in [Chats -> Nat]

\* What can be read of a chat is in order, and none is newer than the last.
Ordered == \A c \in Chats : Rising(Records(logs[c]), sent[c])

\* A page on the screen, and the records as they are now.
HeldOver(page, journals, counts) ==
  /\ page.chat \in Chats /\ page.page \in Nat /\ page.pages \in Nat
  /\ Head(page.shown) \in Nat /\ page.newest \in Nat
  /\ Head(page.shown) <= page.newest /\ page.newest <= counts[page.chat]
  /\ FarBack(Records(journals[page.chat]), Head(page.shown), page.newest,
             (page.page + 1) * PageSize)

\* The inductive invariant.
LogInv ==
  /\ LogTyped /\ Ordered
  /\ screen.kind = "page" => HeldOver(screen, logs, sent)
  /\ screen.kind = "chats" => screen.chats \subseteq Chats

\* The records of a journal are the numbers in it.
LEMMA RecordsAreNumbers ==
  ASSUME NEW j \in Journals(Nat, LogBackups)
  PROVE  Records(j) \in Seq(Nat)
<1> DEFINE E == Nat
           B == LogBackups
<1>1. B \in Nat /\ j \in Journals(E, B)
  BY LogAssumption
<1>2. ReadChain(j, B) = Records(j)
  BY DEF ReadChain, Chain, Records
<1> HIDE DEF E, B
<1>3. ReadChain(j, B) \in Seq(E)
  BY <1>1, ReadWhileRotated
<1> QED BY <1>2, <1>3 DEF E

\* What a write leaves of the journal it is for.
LEMMA WrittenJournal ==
  ASSUME NEW j \in Journals(Nat, LogBackups), NEW k \in 0..(LogBackups + 1), NEW n \in Nat,
         NEW line \in {Line(n)} \cup CutLines(n)
  PROVE  /\ Longer(RotationSteps(j, k), line) \in Journals(Nat, LogBackups)
         /\ Slid(Records(j), Records(Longer(RotationSteps(j, k), line)), n)
         /\ RotationSteps(j, k) \in Journals(Nat, LogBackups)
         /\ Slid(Records(j), Records(RotationSteps(j, k)), n)
<1> DEFINE E == Nat
           B == LogBackups
           mid == RotationSteps(j, k)
           new == Longer(mid, line)
<1>1. mid \in Journals(Nat, LogBackups) /\ \E X \in Seq(Nat) : Records(j) = X \o Records(mid)
  BY RotationKeepsTheEnd DEF RotatedSoFar
<1>2. PICK X \in Seq(Nat) : Records(j) = X \o Records(mid)
  BY <1>1
<1> HIDE DEF mid
<1>3. line \in LinesOf(Nat) /\ line.text \in {<<>>, <<n>>}
  <2>1. n \in E /\ line \in {Line(n)} \cup CutLines(n)
    OBVIOUS
  <2> HIDE DEF E
  <2>2. line \in LinesOf(E) /\ line.text \in {<<>>, <<n>>}
    BY ONLY <2>1, WrittenLines
  <2> QED BY <2>2 DEF E
<1>4. /\ new \in Journals(Nat, LogBackups)
      /\ LongerOrCut(Nat, Records(mid), Records(new), line.text)
  <2>1. B \in Nat /\ mid \in Journals(E, B) /\ line \in LinesOf(E)
    BY <1>1, <1>3, LogAssumption
  <2> HIDE DEF E, B
  <2>2. new \in Journals(E, B)
    BY ONLY <2>1, ReadWhenLonger
  <2>3. LongerOrCut(E, ReadChain(mid, B), ReadChain(new, B), line.text)
    BY ONLY <2>1, ReadWhenLonger
  <2>4. ReadChain(mid, B) = Records(mid) /\ ReadChain(new, B) = Records(new)
    BY DEF ReadChain, Chain, Records, B
  <2> QED BY <2>2, <2>3, <2>4 DEF E, B
<1> HIDE DEF new
<1> DEFINE Y == Records(mid)
           S == Records(new)
<1>5. Y \in Seq(Nat) /\ S \in Seq(Nat)
  BY <1>1, <1>4, RecordsAreNumbers
<1> HIDE DEF Y, S
<1>6. Y \o <<>> = Y
  BY <1>5, ConcatEmptySeq
<1>7. S = Y \/ S = Y \o <<n>> \/ \E t \in Seq(Nat) : Y = S \o t
  BY <1>3, <1>4, <1>6 DEF LongerOrCut, Y, S
<1>8. Slid(X \o Y, S, n)
  BY <1>5, <1>7, SlidPart
<1>9. Slid(X \o Y, Y, n)
  <2>1. Y = Y \/ Y = Y \o <<n>> \/ \E t \in Seq(Nat) : Y = Y \o t
    OBVIOUS
  <2> QED BY <1>5, <2>1, SlidPart
<1> QED BY <1>1, <1>2, <1>4, <1>8, <1>9 DEF new, mid, Y, S

\* A write does just that to its chat and nothing to the others.
LEMMA WriteSlides ==
  ASSUME LogTyped, NEW c \in Chats, LogWrite(c)
  PROVE  /\ LogTyped' /\ sent'[c] = sent[c] + 1
         /\ Slid(Records(logs[c]), Records(logs'[c]), sent[c] + 1)
         /\ \A d \in Chats : d # c => logs'[d] = logs[d] /\ sent'[d] = sent[d]
<1> DEFINE n == sent[c] + 1
           B == LogBackups
           need == StepsNeeded(logs[c])
<1>1. B \in Nat /\ n \in Nat /\ logs[c] \in Journals(Nat, B)
  BY LogAssumption DEF LogTyped
<1>2. need \in 0..(B + 1) /\ \A k \in 0..need : k \in 0..(B + 1)
  BY <1>1 DEF StepsNeeded
<1>3. \E J : /\ logs' = [logs EXCEPT ![c] = J] /\ J \in Journals(Nat, B)
             /\ Slid(Records(logs[c]), Records(J), n)
  <2>1. CASE \E line \in {Line(n)} \cup CutLines(n) :
               logs' = [logs EXCEPT ![c] = Longer(RotationSteps(logs[c], need), line)]
    <3>1. PICK line \in {Line(n)} \cup CutLines(n) :
            logs' = [logs EXCEPT ![c] = Longer(RotationSteps(logs[c], need), line)]
      BY <2>1
    <3> DEFINE J == Longer(RotationSteps(logs[c], need), line)
    <3> HIDE DEF n, need
    <3>2. J \in Journals(Nat, B) /\ Slid(Records(logs[c]), Records(J), n)
      BY <1>1, <1>2, WrittenJournal
    <3> HIDE DEF J
    <3>3. logs' = [logs EXCEPT ![c] = J]
      BY <3>1 DEF J
    <3> QED BY <3>2, <3>3
  <2>2. CASE \E k \in 0..need : logs' = [logs EXCEPT ![c] = RotationSteps(logs[c], k)]
    <3>1. PICK k \in 0..need : logs' = [logs EXCEPT ![c] = RotationSteps(logs[c], k)]
      BY <2>2
    <3> DEFINE J == RotationSteps(logs[c], k)
               line == Line(n)
    <3>2. k \in 0..(B + 1) /\ line \in {Line(n)} \cup CutLines(n)
      BY <1>2
    <3> HIDE DEF n, need, line
    <3>3. J \in Journals(Nat, B) /\ Slid(Records(logs[c]), Records(J), n)
      BY <1>1, <3>2, WrittenJournal
    <3> HIDE DEF J
    <3>4. logs' = [logs EXCEPT ![c] = J]
      BY <3>1 DEF J
    <3> QED BY <3>3, <3>4
  <2>3. \/ \E line \in {Line(n)} \cup CutLines(n) :
             logs' = [logs EXCEPT ![c] = Longer(RotationSteps(logs[c], need), line)]
        \/ \E k \in 0..need : logs' = [logs EXCEPT ![c] = RotationSteps(logs[c], k)]
    BY DEF LogWrite
  <2> QED BY <2>1, <2>2, <2>3
<1>4. PICK J : /\ logs' = [logs EXCEPT ![c] = J] /\ J \in Journals(Nat, B)
               /\ Slid(Records(logs[c]), Records(J), n)
  BY <1>3
<1>5. sent' = [sent EXCEPT ![c] = n]
  BY DEF LogWrite
<1> HIDE DEF n, B
<1>6. logs \in [Chats -> Journals(Nat, B)] /\ sent \in [Chats -> Nat]
  BY DEF LogTyped, B
<1>7. LogTyped' /\ logs'[c] = J /\ sent'[c] = n
  BY <1>1, <1>4, <1>5, <1>6 DEF LogTyped, B
<1>8. \A d \in Chats : d # c => logs'[d] = logs[d] /\ sent'[d] = sent[d]
  BY <1>4, <1>5, <1>6
<1> QED BY <1>4, <1>7, <1>8 DEF n

\* Whatever is written, the order stays and a page goes on being far enough.
LEMMA WriteKeepsPages ==
  ASSUME LogInv, NEW c \in Chats, LogWrite(c)
  PROVE  LogTyped' /\ Ordered' /\ (screen.kind = "page" => HeldOver(screen, logs', sent'))
<1> DEFINE R == Records(logs[c])
           S == Records(logs'[c])
           top == sent[c]
<1>1. LogTyped /\ Ordered /\ LogTyped'
  BY WriteSlides DEF LogInv
<1>2. /\ sent'[c] = top + 1 /\ Slid(R, S, top + 1)
      /\ \A d \in Chats : d # c => logs'[d] = logs[d] /\ sent'[d] = sent[d]
  BY <1>1, WriteSlides
<1>3. R \in Seq(Nat) /\ S \in Seq(Nat) /\ top \in Nat
  BY <1>1, RecordsAreNumbers DEF LogTyped
<1>4. Rising(S, top + 1)
  <2>1. Rising(R, top)
    BY <1>1 DEF Ordered
  <2> HIDE DEF R, S, top
  <2> QED BY <1>2, <1>3, <2>1, SlidKeepsOrder
<1>5. Ordered'
  BY <1>1, <1>2, <1>4 DEF Ordered
<1>6. ASSUME screen.kind = "page" PROVE HeldOver(screen, logs', sent')
  <2>1. HeldOver(screen, logs, sent)
    BY <1>6 DEF LogInv
  <2>2. CASE screen.chat = c
    <3> DEFINE first == Head(screen.shown)
               newest == screen.newest
               far == (screen.page + 1) * PageSize
    <3>1. /\ first \in Nat /\ newest \in Nat /\ first <= newest /\ newest <= top
          /\ FarBack(R, first, newest, far)
      BY <2>1, <2>2 DEF HeldOver
    <3>2. far \in Nat
      BY <2>1, LogAssumption DEF HeldOver
    <3> HIDE DEF R, S, top, first, newest, far
    <3>3. FarBack(S, first, newest, far)
      BY <1>2, <1>3, <3>1, <3>2, SlidStaysFar
    <3>4. newest <= top + 1
      BY <1>3, <3>1
    <3> QED BY <1>2, <2>1, <2>2, <3>3, <3>4 DEF HeldOver, S, first, newest, far
  <2>3. CASE screen.chat # c
    <3>1. logs'[screen.chat] = logs[screen.chat] /\ sent'[screen.chat] = sent[screen.chat]
      BY <1>2, <2>1, <2>3 DEF HeldOver
    <3> QED BY <2>1, <3>1 DEF HeldOver
  <2> QED BY <2>2, <2>3
<1> QED BY <1>1, <1>5, <1>6

\* A page of records in their order: it ends no earlier than asked for, the
\* newest page ends with the newest record, and what lies before it is far back.
WellPut(page, c, R, asked, top) ==
  /\ page.kind = "page" /\ page.chat = c /\ page.asked = asked
  /\ page.page \in Nat /\ page.pages \in Nat
  /\ Head(page.shown) \in Nat /\ page.newest \in Nat
  /\ Head(page.shown) <= page.newest /\ page.newest <= top
  /\ FarBack(R, Head(page.shown), page.newest, (page.page + 1) * PageSize)
  /\ page.page = 0 => Last(page.shown) = R[Len(R)]
  /\ \E end \in 1..Len(R) : end >= Len(R) - asked * PageSize /\ Last(page.shown) = R[end]

\* PageOf makes such a page of records in order.
LEMMA PagePut ==
  ASSUME NEW R \in Seq(Nat), R # <<>>, NEW top \in Nat, Rising(R, top),
         NEW c, NEW asked \in Nat
  PROVE  WellPut(PageOf(c, R, asked), c, R, asked, top)
<1> DEFINE total == Len(R)
           size  == PageSize
           pages == Pages(total, size)
           page  == PageFor(total, size, asked)
           end   == total - page * size
           start == Max({0, end - size}) + 1
           shown == SubSeq(R, start, end)
           put   == PageOf(c, R, asked)
<1>1. total \in Nat \ {0} /\ size \in Nat \ {0} /\ \A i \in 1..total : R[i] \in Nat
  BY LenProperties, EmptySeq, ElementOfSeq, LogAssumption
<1>2. (\A i \in 1..total : R[i] <= top) /\ \A i, k \in 1..total : i < k => R[i] < R[k]
  BY DEF Rising
<1>3. put = [kind |-> "page", chat |-> c, asked |-> asked, page |-> page, pages |-> pages,
             shown |-> shown, newest |-> Last(R)]
  BY DEF PageOf, Pages, PageFor
<1> HIDE DEF total, size, put
<1>4. /\ pages \in Nat /\ page \in Nat /\ page <= asked
      /\ page * size \in Nat /\ page * size < total /\ page * size <= asked * size
      /\ (page + 1) * size = page * size + size
  BY <1>1, PageThere
<1> HIDE DEF page, pages
<1> DEFINE skip == page * size
           far  == (page + 1) * size
           most == asked * size
<1>5. skip \in Nat /\ skip < total /\ skip <= most /\ far = skip + size /\ end = total - skip
      /\ most \in Nat
  BY <1>1, <1>4
<1> HIDE DEF skip, far, most
<1>6. end \in 1..total /\ end >= total - most
  BY <1>1, <1>5
<1> HIDE DEF end
<1>7. start \in 1..end /\ (start > 1 => start = end - size + 1)
  <2> DEFINE none == 0
             before == end - size
  <2>1. none \in Int /\ before \in Int
    BY <1>1, <1>6
  <2> HIDE DEF none, before
  <2>2. Max({none, before}) = IF none >= before THEN none ELSE before
    BY <2>1, LargerOfTwo
  <2>3. start = (IF none >= before THEN none ELSE before) + 1
    BY <2>2 DEF none, before
  <2> QED BY <1>1, <1>6, <2>3 DEF none, before
<1> HIDE DEF start
<1>8. Head(shown) = R[start] /\ Last(shown) = R[end]
  <2>1. start \in 1..Len(R) /\ end \in start..Len(R)
    BY <1>1, <1>6, <1>7 DEF total
  <2>2. Head(shown) = R[start]
    BY <2>1, HeadTailOfSubSeq
  <2> DEFINE n == end - start + 1
  <2>3. \A i \in start..end : R[i] \in Nat
    BY <1>1, <1>6, <1>7
  <2>4. start \in Int /\ end \in Int /\ start <= end
    BY <1>1, <1>6, <1>7
  <2>5. Len(shown) = n /\ \A i \in 1..n : shown[i] = R[start + i - 1]
    BY <2>3, <2>4, SubSeqProperties
  <2>6. n \in 1..n /\ start + n - 1 = end
    BY <2>4
  <2>7. Last(shown) = R[end]
    <3> HIDE DEF n, shown
    <3>1. shown[n] = R[start + n - 1]
      BY <2>5, <2>6
    <3> QED BY <2>5, <2>6, <3>1 DEF Last
  <2> QED BY <2>2, <2>7
<1> HIDE DEF shown
<1>9. Last(R) = R[total] /\ total \in 1..total
  BY <1>1 DEF Last, total
<1>10. /\ R[start] \in Nat /\ R[total] \in Nat /\ R[start] <= R[total] /\ R[total] <= top
       /\ start \in 1..total
  <2>1. start \in 1..total
    BY <1>1, <1>6, <1>7
  <2>2. R[start] \in Nat /\ R[total] \in Nat /\ R[total] <= top
    BY <1>1, <1>2, <1>9, <2>1
  <2>3. CASE start = total
    BY <2>1, <2>2, <2>3
  <2>4. CASE start # total
    <3>1. start < total
      BY <1>1, <2>1, <2>4
    <3>2. R[start] < R[total]
      BY <1>2, <1>9, <2>1, <3>1
    <3> QED BY <2>1, <2>2, <3>2
  <2> QED BY <2>3, <2>4
<1>11. ASSUME NEW i \in 1..total, NEW w \in 1..total, R[w] = R[total], R[i] < R[start]
       PROVE  w - i >= far
  <2>1. w = total
    <3> SUFFICES ASSUME w < total PROVE FALSE
      BY <1>1
    <3>1. R[w] < R[total]
      BY <1>2, <1>9
    <3> QED BY <1>10, <1>11, <3>1
  <2>2. i < start
    <3> SUFFICES ASSUME start <= i PROVE FALSE
      BY <1>10
    <3>1. R[start] <= R[i] /\ R[i] \in Nat
      <4>1. start = i \/ start < i
        BY <1>10
      <4> QED BY <1>1, <1>2, <1>10, <4>1
    <3> QED BY <1>10, <1>11, <3>1
  <2>3. start = end - size + 1
    BY <1>7, <1>10, <2>2
  <2> QED BY <1>1, <1>5, <2>1, <2>2, <2>3
<1>12. FarBack(R, R[start], R[total], far)
  BY <1>11 DEF FarBack, total
<1>13. page = 0 => end = total
  <2>1. ASSUME page = 0 PROVE skip = 0
    BY <1>1, <2>1 DEF skip
  <2> QED BY <1>1, <1>5, <2>1
<1>14. /\ put.kind = "page" /\ put.chat = c /\ put.asked = asked /\ put.page = page
       /\ put.pages = pages /\ put.shown = shown /\ put.newest = Last(R)
  BY <1>3
<1>15. WellPut(put, c, R, asked, top)
  <2>1. FarBack(R, Head(put.shown), put.newest, (put.page + 1) * PageSize)
    BY <1>8, <1>9, <1>12, <1>14 DEF far, size
  <2>2. put.page = 0 => Last(put.shown) = R[Len(R)]
    BY <1>8, <1>13, <1>14 DEF total
  <2>3. end \in 1..Len(R) /\ end >= Len(R) - asked * PageSize /\ Last(put.shown) = R[end]
    BY <1>6, <1>8, <1>14 DEF total, most, size
  <2>4. /\ Head(put.shown) \in Nat /\ put.newest \in Nat
        /\ Head(put.shown) <= put.newest /\ put.newest <= top
    BY <1>8, <1>9, <1>10, <1>14
  <2> QED BY <1>4, <1>14, <2>1, <2>2, <2>3, <2>4 DEF WellPut
<1> QED BY <1>15 DEF put

\* The invariant holds at the start.
LEMMA LogBegins == LogInit => LogInv
<1> SUFFICES ASSUME LogInit PROVE LogInv
  OBVIOUS
<1> DEFINE none == [i \in 0..LogBackups |-> <<>>]
<1>1. /\ logs = [c \in Chats |-> none] /\ sent = [c \in Chats |-> 0]
      /\ screen.kind = "none"
  BY DEF LogInit, Blank
<1>2. none \in Journals(Nat, LogBackups) /\ Records(none) = <<>>
  <2> DEFINE E == Nat
             B == LogBackups
  <2>1. B \in Nat
    BY LogAssumption
  <2> HIDE DEF E, B
  <2>2. [i \in 0..B |-> <<>>] \in Journals(E, B) /\ Chain([i \in 0..B |-> <<>>], B) = <<>>
    BY <2>1, ChainOfNothing
  <2>3. Readable([i \in 0..B |-> <<>>]) = [i \in 0..B |-> <<>>]
    BY NothingDecoded DEF Readable
  <2> QED BY <2>2, <2>3 DEF E, B, Chain, Records
<1> HIDE DEF none
<1>3. LogTyped
  BY <1>1, <1>2 DEF LogTyped
<1>4. Ordered
  <2>1. Rising(<<>>, 0)
    BY DEF Rising
  <2> QED BY <1>1, <1>2, <2>1 DEF Ordered
<1> QED BY <1>1, <1>3, <1>4 DEF LogInv

\* A button leads to a page of a chat.
LEMMA ButtonsLeadToPages ==
  ASSUME LogInv, NEW button \in Buttons
  PROVE  button[1] \in Chats /\ button[2] \in Nat
<1>1. CASE screen.kind = "chats"
  <2>1. Buttons = {<<c, 0>> : c \in screen.chats} /\ screen.chats \subseteq Chats
    BY <1>1 DEF Buttons, LogInv
  <2> QED BY <2>1
<1>2. CASE screen.kind = "page"
  <2>1. HeldOver(screen, logs, sent)
    BY <1>2 DEF LogInv
  <2>2. screen.chat \in Chats /\ screen.page \in Nat /\ screen.pages \in Nat
    BY <2>1 DEF HeldOver
  <2>3. Buttons = {<<screen.chat, p>> :
                     p \in {screen.page - 1, screen.page + 1} \cap 0..(screen.pages - 1)}
    BY <1>2 DEF Buttons
  <2>4. \A p \in 0..(screen.pages - 1) : p \in Nat
    BY <2>2
  <2> QED BY <2>2, <2>3, <2>4
<1>3. CASE screen.kind \notin {"chats", "page"}
  <2>1. Buttons = {}
    BY <1>3 DEF Buttons
  <2> QED BY <2>1
<1> QED BY <1>1, <1>2, <1>3

\* What is put on the screen is a page of the records as they are then.
LEMMA ViewPutsAPage ==
  ASSUME LogInv, NEW button \in Buttons, ViewPage(button)
  PROVE  /\ LogTyped' /\ Ordered'
         /\ \/ UNCHANGED screen
            \/ /\ Records(logs'[button[1]]) # <<>>
               /\ WellPut(screen', button[1], Records(logs'[button[1]]), button[2], sent'[button[1]])
<1> DEFINE c == button[1]
           asked == button[2]
           R == Records(logs'[c])
           top == sent'[c]
<1>1. LogTyped' /\ Ordered'
  <2>1. Desk \in Chats
    BY LogAssumption
  <2> QED BY <2>1, WriteKeepsPages DEF ViewPage
<1>2. c \in Chats /\ asked \in Nat
  BY ButtonsLeadToPages
<1>3. R \in Seq(Nat) /\ top \in Nat /\ Rising(R, top)
  BY <1>1, <1>2, RecordsAreNumbers DEF LogTyped, Ordered
<1>4. screen' = IF R = <<>> THEN screen ELSE PageOf(c, R, asked)
  BY DEF ViewPage
<1> HIDE DEF c, asked, R, top
<1>5. R # <<>> => WellPut(PageOf(c, R, asked), c, R, asked, top)
  BY <1>2, <1>3, PagePut
<1> QED BY <1>1, <1>4, <1>5 DEF c, asked, R, top

\* Every step keeps the invariant.
LEMMA LogStep == ASSUME LogInv, [LogNext]_logVars PROVE LogInv'
<1>1. Desk \in Chats
  BY LogAssumption
<1>2. ASSUME NEW c \in Chats, Talk(c) PROVE LogInv'
  <2>1. LogTyped' /\ Ordered' /\ (screen.kind = "page" => HeldOver(screen, logs', sent'))
        /\ screen' = screen
    BY <1>2, WriteKeepsPages DEF Talk
  <2> QED BY <2>1 DEF LogInv
<1>3. CASE ListChats
  <2>1. LogTyped' /\ Ordered'
    BY <1>1, <1>3, WriteKeepsPages DEF ListChats
  <2>2. screen'.kind = "chats" /\ screen'.chats \subseteq Chats
    BY <1>3 DEF ListChats, KnownChats
  <2> QED BY <2>1, <2>2 DEF LogInv
<1>4. ASSUME NEW button \in Buttons, ViewPage(button) PROVE LogInv'
  <2>1. LogTyped' /\ Ordered'
    BY <1>4, ViewPutsAPage
  <2>2. CASE UNCHANGED screen
    <3>1. screen.kind = "page" => HeldOver(screen, logs', sent')
      BY <1>1, <1>4, WriteKeepsPages DEF ViewPage
    <3> QED BY <2>1, <2>2, <3>1 DEF LogInv
  <2>3. CASE WellPut(screen', button[1], Records(logs'[button[1]]), button[2], sent'[button[1]])
    <3>1. button[1] \in Chats
      BY ButtonsLeadToPages
    <3>2. HeldOver(screen', logs', sent') /\ screen'.kind = "page"
      BY <2>3, <3>1 DEF WellPut, HeldOver
    <3> QED BY <2>1, <3>2 DEF LogInv
  <2> QED BY <1>4, <2>2, <2>3, ViewPutsAPage
<1>5. CASE CloseScreen
  <2>1. LogTyped' /\ Ordered'
    BY <1>1, <1>5, WriteKeepsPages DEF CloseScreen
  <2>2. screen'.kind = "none"
    BY <1>5 DEF CloseScreen, Blank
  <2> QED BY <2>1, <2>2 DEF LogInv
<1>6. CASE UNCHANGED logVars
  BY <1>6 DEF logVars, LogInv, LogTyped, Ordered, HeldOver
<1> QED BY <1>2, <1>3, <1>4, <1>5, <1>6 DEF LogNext

\* The newest page ends with the newest record that can be read.
LEMMA NewestPageIsNewest ==
  ASSUME NEW R \in Seq(Nat), R # <<>>, NEW top \in Nat, Rising(R, top)
  PROVE  R[Len(R)] = Max(ToSet(R))
<1> DEFINE n == Len(R)
           T == ToSet(R)
           last == R[n]
<1>1. n \in Nat \ {0} /\ T = {R[i] : i \in 1..n} /\ \A i \in 1..n : R[i] \in Nat
  BY LenProperties, EmptySeq, ElementOfSeq DEF ToSet
<1>2. (\A i \in 1..n : R[i] <= top) /\ \A i, k \in 1..n : i < k => R[i] < R[k]
  BY DEF Rising
<1> HIDE DEF n
<1>3. n \in 1..n
  BY <1>1
<1>4. last \in T /\ \A x \in T : x \in Nat /\ last >= x
  <2>1. ASSUME NEW i \in 1..n PROVE R[i] \in Nat /\ last >= R[i]
    <3>1. CASE i = n
      BY <1>1, <3>1
    <3>2. CASE i # n
      <4>1. i < n
        BY <1>1, <3>2
      <4>2. R[i] < R[n]
        BY <1>2, <1>3, <4>1
      <4> QED BY <1>1, <1>3, <4>2
    <3> QED BY <3>1, <3>2
  <2> QED BY <1>1, <1>3, <2>1
<1> HIDE DEF T, last
<1> DEFINE m == Max(T)
<1>5. m \in T /\ \A x \in T : m >= x
  BY <1>4 DEF Max
<1> HIDE DEF m
<1>6. m \in Nat /\ last \in Nat /\ m >= last /\ last >= m
  BY <1>4, <1>5
<1>7. m = last
  BY <1>6
<1> QED BY <1>7 DEF m, last, n, T

\* Older passes nothing over.
LEMMA OlderPassesNothing ==
  ASSUME NEW R \in Seq(Nat), NEW top \in Nat, Rising(R, top),
         NEW first \in Nat, NEW newest \in ToSet(R), NEW far \in Nat,
         FarBack(R, first, newest, far),
         NEW end \in 1..Len(R), end >= Len(R) - far,
         NEW r \in ToSet(R), r < first
  PROVE  r <= R[end]
<1> DEFINE n == Len(R)
<1>1. n \in Nat /\ ToSet(R) = {R[i] : i \in 1..n} /\ \A i \in 1..n : R[i] \in Nat
  BY LenProperties, ElementOfSeq DEF ToSet
<1>2. \A i, k \in 1..n : i < k => R[i] < R[k]
  BY DEF Rising
<1>3. \A i, w \in 1..n : R[w] = newest /\ R[i] < first => w - i >= far
  BY DEF FarBack
<1> HIDE DEF n
<1>4. PICK w \in 1..n, i \in 1..n : newest = R[w] /\ r = R[i]
  BY <1>1
<1>5. w - i >= far /\ end \in 1..n /\ end >= n - far
  BY <1>3, <1>4 DEF n
<1>6. i <= end
  BY <1>1, <1>5
<1>7. CASE i = end
  BY <1>1, <1>4, <1>7
<1>8. CASE i < end
  <2>1. R[i] < R[end] /\ R[i] \in Nat /\ R[end] \in Nat
    BY <1>1, <1>2, <1>5, <1>8
  <2> QED BY <1>4, <2>1
<1> QED BY <1>1, <1>5, <1>6, <1>7, <1>8

\* Reading back misses nothing.  The newest page ends with the newest record
\* that can be read, and "older" passes nothing over: no record that can still
\* be read lies between the page it leaves and the one it shows, whatever was
\* written in between, rotated away or lost.
THEOREM ReadingBack == LogSpec => ReadingBackMissesNothing
<1>1. ASSUME LogInv, LogNext, screen'.kind = "page", screen' # screen
      PROVE  LET readable == ToSet(Records(logs'[screen'.chat])) IN
             /\ screen'.page = 0 => Last(screen'.shown) = Max(readable)
             /\ (/\ screen.kind = "page" /\ screen.chat = screen'.chat
                 /\ screen'.asked = screen.page + 1
                 /\ screen.newest \in readable)
                => \A r \in readable : r < Head(screen.shown) => r <= Last(screen'.shown)
  <2>1. PICK button \in Buttons : ViewPage(button)
    <3>1. ASSUME NEW c \in Chats, Talk(c) PROVE FALSE
      BY <1>1, <3>1 DEF Talk
    <3>2. ~ListChats
      <4>1. ListChats => screen'.kind = "chats"
        BY DEF ListChats
      <4> QED BY <1>1, <4>1
    <3>3. ~CloseScreen
      <4>1. CloseScreen => screen'.kind = "none"
        BY DEF CloseScreen, Blank
      <4> QED BY <1>1, <4>1
    <3> QED BY <1>1, <3>1, <3>2, <3>3 DEF LogNext
  <2> DEFINE c == button[1]
             asked == button[2]
             R == Records(logs'[c])
             top == sent'[c]
             readable == ToSet(R)
  <2>2. LogTyped' /\ Ordered' /\ R # <<>> /\ WellPut(screen', c, R, asked, top)
    BY <1>1, <2>1, ViewPutsAPage
  <2>3. c \in Chats /\ asked \in Nat
    BY <1>1, ButtonsLeadToPages
  <2>4. R \in Seq(Nat) /\ top \in Nat /\ Rising(R, top)
    BY <2>2, <2>3, RecordsAreNumbers DEF LogTyped, Ordered
  <2>5. screen.kind = "page" => HeldOver(screen, logs', sent')
    <3>1. LogWrite(Desk) /\ Desk \in Chats
      BY <2>1, LogAssumption DEF ViewPage
    <3> QED BY <1>1, <3>1, WriteKeepsPages
  <2>6. screen'.chat = c /\ screen'.asked = asked
    BY <2>2 DEF WellPut
  <2>7. ToSet(Records(logs'[screen'.chat])) = readable
    BY <2>6
  <2> HIDE DEF c, asked, R, top
  <2>8. ASSUME screen'.page = 0 PROVE Last(screen'.shown) = Max(readable)
    <3>1. Last(screen'.shown) = R[Len(R)]
      BY <2>2, <2>8 DEF WellPut
    <3> QED BY <2>2, <2>4, <3>1, NewestPageIsNewest
  <2>9. ASSUME screen.kind = "page", screen.chat = screen'.chat,
               screen'.asked = screen.page + 1, screen.newest \in readable,
               NEW r \in readable, r < Head(screen.shown)
        PROVE  r <= Last(screen'.shown)
    <3> DEFINE first == Head(screen.shown)
               newest == screen.newest
               far == (screen.page + 1) * PageSize
    <3>1. HeldOver(screen, logs', sent') /\ screen.chat = c
      BY <2>5, <2>6, <2>9
    <3>2. first \in Nat /\ newest \in readable /\ FarBack(R, first, newest, far)
          /\ screen.page \in Nat
      BY <2>9, <3>1 DEF HeldOver, R
    <3>3. far \in Nat
      BY <3>2, LogAssumption
    <3>4. asked * PageSize = far
      BY <2>6, <2>9
    <3>5. PICK end \in 1..Len(R) : end >= Len(R) - asked * PageSize /\ Last(screen'.shown) = R[end]
      BY <2>2 DEF WellPut
    <3>6. end >= Len(R) - far
      BY <3>4, <3>5
    <3>7. r < first
      BY <2>9
    <3> HIDE DEF first, newest, far
    <3>8. r <= R[end]
      BY <2>4, <2>9, <3>2, <3>3, <3>6, <3>7, OlderPassesNothing
    <3> QED BY <3>5, <3>8
  <2> QED BY <2>7, <2>8, <2>9
<1>2. LogInv /\ [LogNext]_logVars
      => [screen'.kind = "page" /\ screen' # screen =>
            LET readable == ToSet(Records(logs'[screen'.chat])) IN
            /\ screen'.page = 0 => Last(screen'.shown) = Max(readable)
            /\ (/\ screen.kind = "page" /\ screen.chat = screen'.chat
                /\ screen'.asked = screen.page + 1
                /\ screen.newest \in readable)
               => \A r \in readable : r < Head(screen.shown) => r <= Last(screen'.shown)]_logVars
  BY <1>1
<1> QED BY <1>2, LogBegins, LogStep, PTL DEF LogSpec, ReadingBackMissesNothing
=============================================================================
