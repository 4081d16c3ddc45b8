---------------------------- MODULE CycleProofs ----------------------------
(***************************************************************************)
(* Theorems about the sections of MCCycle.                                 *)
(*                                                                         *)
(* LeagueCycle and the counter on top of it, for any members, rounds,      *)
(* weekends, reductions and length of the calendar.  A poll that was       *)
(* answered later knows at least as many rounds, and at least as many that *)
(* are over, as the one committed last; that is what makes the accusations *)
(* those of the last answer, and the boundary move only forward.  The      *)
(* counter does not move while time passes, for whatever it counts is over *)
(* already.                                                                *)
(*                                                                         *)
(* Recalculation, for any number of simultaneous recalculations,           *)
(* keyboards, wars and attacks, and any rules.                             *)
(***************************************************************************)
EXTENDS ViolationCounter, Recalculation, FiniteSetTheorems, TLAPS

-----------------------------------------------------------------------------
(* The league season and the counter.                                       *)

\* What an answer calls over has ended by now.
OverHasEnded ==
  /\ \A r \in answer.over : RoundEnd[r] <= today
  /\ \A r \in settled.over : RoundEnd[r] <= today

\* The answer at hand knows more than the one committed last.
AnswerIsNewer ==
  poll = "league" => /\ settled.rounds <= answer.rounds
                     /\ settled.over \subseteq answer.over

LeagueInv ==
  /\ LeagueTypeOK
  /\ OverHasEnded
  /\ AnswerIsNewer
  /\ AccusedByLastAnswer
  /\ BoundaryIsLatestRound

USE LeagueCycleAssumption

\* The ends of the rounds are days after the first.
LEMMA RoundEnds ==
  /\ Len(RoundEnd) \in Nat
  /\ \A r \in Rounds : RoundEnd[r] \in 1..LastDay
  BY DEF Rounds

\* It holds before the season.
LEMMA InitOK == LeagueInit => LeagueInv
<1> SUFFICES ASSUME LeagueInit PROVE LeagueInv
  OBVIOUS
<1> USE DEF LeagueInit, Empty
<1>1. LeagueTypeOK
  BY DEF LeagueTypeOK, Days
<1>2. OverHasEnded /\ AnswerIsNewer
  BY DEF OverHasEnded, AnswerIsNewer
<1>3. AccusedByLastAnswer
  BY DEF AccusedByLastAnswer, MissedIn
<1>4. BoundaryIsLatestRound
  BY DEF BoundaryIsLatestRound, LastEnd
<1> QED BY <1>1, <1>2, <1>3, <1>4 DEF LeagueInv

\* The commit leaves exactly the answer's accusations.
LEMMA CommitAccuses ==
  ASSUME LeagueInv, CommitLeague
  PROVE  missed' = MissedIn(answer)
<1>1. settled.over \subseteq answer.over
  BY DEF LeagueInv, AnswerIsNewer, CommitLeague
<1>2. ASSUME NEW m \in missed PROVE m[1] \in answer.over
  <2>1. m \in settled.over \X Members
    BY <1>2 DEF LeagueInv, AccusedByLastAnswer, MissedIn
  <2> QED BY <1>1, <2>1
<1>3. Kept(answer) = {}
  BY <1>2 DEF Kept
<1> QED BY <1>3 DEF CommitLeague

\* If the commit moves the boundary, then forward and behind every round.
LEMMA CommitMoves ==
  ASSUME LeagueInv, CommitLeague, boundary' # boundary
  PROVE  /\ boundary' = RoundEnd[answer.rounds] /\ answer.rounds \in Rounds
         /\ boundary' > boundary /\ boundary' <= today
         /\ \A r \in 1..answer.rounds : RoundEnd[r] <= boundary'
<1>1. /\ answer.rounds \in Rounds
      /\ boundary' = RoundEnd[answer.rounds] /\ boundary' <= today
      /\ settled.rounds \in Nat /\ settled.rounds <= answer.rounds
  BY DEF CommitLeague, BoundaryAfter, LastEnd, LeagueInv, LeagueTypeOK, AnswerIsNewer, Rounds
<1>2. \A r \in 1..answer.rounds : r \in Rounds /\ RoundEnd[r] <= boundary'
  <2> TAKE r \in 1..answer.rounds
  <2>1. r \in Rounds
    BY <1>1 DEF Rounds
  <2>2. CASE r = answer.rounds
    BY <1>1, <2>2, <2>1, RoundEnds
  <2>3. CASE r # answer.rounds
    <3>1. r < answer.rounds
      BY <2>3, <1>1, RoundEnds DEF Rounds
    <3>2. RoundEnd[r] < RoundEnd[answer.rounds]
      BY <1>1, <2>1, <3>1
    <3>3. RoundEnd[r] \in 1..LastDay /\ RoundEnd[answer.rounds] \in 1..LastDay
      BY <1>1, <2>1, RoundEnds
    <3> QED BY <1>1, <2>1, <3>2, <3>3
  <2> QED BY <2>2, <2>3
<1>3. boundary' > boundary
  <2>1. boundary' \in 1..LastDay
    BY <1>1, RoundEnds
  <2>2. CASE boundary = 0
    BY <2>1, <2>2
  <2>3. CASE boundary # 0
    <3>1. PICK r \in 1..settled.rounds : boundary = RoundEnd[r]
      BY <2>3 DEF LeagueInv, BoundaryIsLatestRound
    <3>2. r \in 1..answer.rounds
      BY <1>1, <3>1 DEF Rounds
    <3>3. boundary <= boundary' /\ boundary \in 1..LastDay
      BY <1>2, <3>1, <3>2, RoundEnds
    <3> QED BY <3>3, <2>1
  <2> QED BY <2>2, <2>3
<1> QED BY <1>1, <1>2, <1>3

\* A poll that commits leaves accusations and boundary as its answer says.
LEMMA CommitKeeps == LeagueInv /\ CommitLeague => LeagueInv'
<1> SUFFICES ASSUME LeagueInv, CommitLeague PROVE LeagueInv'
  OBVIOUS
<1>0. /\ settled' = answer /\ answer' = Empty /\ today' = today
      /\ published' = published /\ attacks' = attacks /\ raids' = raids /\ poll' = "raids"
  BY DEF CommitLeague, world
<1>a. missed' = MissedIn(answer)
  BY CommitAccuses
<1>b. answer.over \subseteq 1..answer.rounds /\ answer.rounds \in 0..published
      /\ answer.attacks \subseteq attacks /\ published \in Rounds \cup {0}
  BY DEF LeagueInv, LeagueTypeOK
<1>c. answer.over \subseteq Rounds
  BY <1>b DEF Rounds
<1>d. boundary \in Days /\ boundary' \in Days /\ boundary' <= today /\ today \in Days
  <2>1. boundary \in Days /\ today \in Days /\ boundary <= today
    BY DEF LeagueInv, LeagueTypeOK, BoundaryIsLatestRound
  <2>2. CASE boundary' = boundary
    BY <2>1, <2>2
  <2>3. CASE boundary' # boundary
    BY <2>1, <2>3, CommitMoves, RoundEnds DEF Days
  <2> QED BY <2>1, <2>2, <2>3
<1>1. LeagueTypeOK'
  <2>1. missed' \subseteq Rounds \X Members
    BY <1>a, <1>c DEF MissedIn
  <2>2. /\ today' \in Days /\ published' \in Rounds \cup {0}
        /\ attacks' \subseteq Rounds \X Members /\ raids' \subseteq Weekends \X Members
    BY <1>0 DEF LeagueInv, LeagueTypeOK
  <2>3. /\ answer'.rounds \in 0..published' /\ answer'.over \subseteq 1..answer'.rounds
        /\ answer'.attacks \subseteq attacks'
    BY <1>0, <1>b DEF Empty, Rounds
  <2>4. /\ settled'.rounds \in 0..published' /\ settled'.over \subseteq 1..settled'.rounds
        /\ settled'.attacks \subseteq attacks'
    BY <1>0, <1>b
  <2> QED BY <2>1, <2>2, <2>3, <2>4, <1>0, <1>d DEF LeagueTypeOK
<1>2. OverHasEnded'
  BY <1>0 DEF LeagueInv, OverHasEnded, Empty
<1>3. AnswerIsNewer'
  BY <1>0 DEF AnswerIsNewer
<1>4. AccusedByLastAnswer'
  BY <1>0, <1>a DEF AccusedByLastAnswer, MissedIn
<1>5. BoundaryIsLatestRound'
  <2>1. boundary' <= today'
    BY <1>0, <1>d
  <2>2. boundary' # 0 => \E r \in 1..settled'.rounds : boundary' = RoundEnd[r]
    <3>1. CASE boundary' # boundary
      BY <3>1, <1>0, CommitMoves DEF Rounds
    <3>2. CASE boundary' = boundary
      <4>1. settled.rounds <= answer.rounds /\ settled.rounds \in 0..published
        BY DEF LeagueInv, AnswerIsNewer, CommitLeague, LeagueTypeOK
      <4>2. boundary # 0 => \E r \in 1..settled.rounds : boundary = RoundEnd[r]
        BY DEF LeagueInv, BoundaryIsLatestRound
      <4> QED BY <3>2, <4>1, <4>2, <1>0, <1>b DEF Rounds
    <3> QED BY <3>1, <3>2
  <2>3. settled'.rounds \in settled'.over => boundary' = LastEnd(settled')
    <3> SUFFICES ASSUME answer.rounds \in answer.over
                 PROVE  boundary' = LastEnd(answer)
      BY <1>0 DEF LastEnd
    <3>1. answer.rounds \in Rounds
      BY <1>c
    <3>2. RoundEnd[answer.rounds] <= today
      BY DEF LeagueInv, OverHasEnded
    <3>3. answer.rounds > 0 /\ LastEnd(answer) = RoundEnd[answer.rounds]
      BY <3>1 DEF LastEnd, Rounds
    <3> QED BY <3>2, <3>3 DEF CommitLeague, BoundaryAfter
  <2> QED BY <2>1, <2>2, <2>3 DEF BoundaryIsLatestRound
<1> QED BY <1>1, <1>2, <1>3, <1>4, <1>5 DEF LeagueInv

\* An answer is at least as late as the one committed last.
LEMMA FetchKeeps == LeagueInv /\ FetchLeague => LeagueInv'
<1> SUFFICES ASSUME LeagueInv, FetchLeague PROVE LeagueInv'
  OBVIOUS
<1>0. /\ settled' = settled /\ today' = today /\ published' = published /\ attacks' = attacks
      /\ missed' = missed /\ raids' = raids /\ boundary' = boundary /\ poll' = "league"
      /\ answer'.rounds = published
      /\ answer'.over = {r \in 1..published : RoundEnd[r] <= today}
      /\ answer'.attacks \subseteq attacks
  BY DEF FetchLeague, world
<1>t. /\ published \in Rounds \cup {0} /\ today \in Days
      /\ settled.rounds \in 0..published /\ settled.over \subseteq 1..settled.rounds
  BY DEF LeagueInv, LeagueTypeOK
<1>1. LeagueTypeOK'
  <2>1. published' \in 0..published'
    BY <1>0, <1>t DEF Rounds
  <2> QED BY <1>0, <2>1 DEF LeagueInv, LeagueTypeOK
<1>2. OverHasEnded'
  BY <1>0 DEF LeagueInv, OverHasEnded
<1>3. AnswerIsNewer'
  <2>1. \A r \in settled.over : r \in 1..published /\ RoundEnd[r] <= today
    BY <1>t DEF LeagueInv, OverHasEnded, Rounds
  <2> QED BY <1>0, <1>t, <2>1 DEF AnswerIsNewer, Rounds
<1>4. AccusedByLastAnswer'
  BY <1>0 DEF LeagueInv, AccusedByLastAnswer, MissedIn
<1>5. BoundaryIsLatestRound'
  BY <1>0 DEF LeagueInv, BoundaryIsLatestRound, LastEnd
<1> QED BY <1>1, <1>2, <1>3, <1>4, <1>5 DEF LeagueInv

\* Steps that change neither answer nor what is recorded of the league, while
\* time and the game only advance.
LEMMA OthersKeep ==
  ASSUME LeagueInv,
         UNCHANGED <<answer, settled, missed, boundary>>,
         poll' = poll \/ poll' \in {"idle", "raids"},
         poll \in {"idle", "league", "raids"},
         today' \in Days, today <= today',
         published' \in Rounds \cup {0}, published <= published',
         attacks' \subseteq Rounds \X Members, attacks \subseteq attacks',
         raids' \subseteq Weekends \X Members
  PROVE  LeagueInv'
<1>t. /\ today \in Days /\ published \in Rounds \cup {0}
      /\ answer.rounds \in 0..published /\ settled.rounds \in 0..published
  BY DEF LeagueInv, LeagueTypeOK
<1>1. LeagueTypeOK'
  <2>1. answer'.rounds \in 0..published' /\ settled'.rounds \in 0..published'
    BY <1>t DEF Rounds
  <2> QED BY <2>1 DEF LeagueInv, LeagueTypeOK
<1>2. OverHasEnded'
  <2>1. answer.over \subseteq Rounds /\ settled.over \subseteq Rounds
    BY <1>t DEF LeagueInv, LeagueTypeOK, Rounds
  <2> QED BY <1>t, <2>1, RoundEnds DEF LeagueInv, OverHasEnded, Days
<1>3. AnswerIsNewer'
  BY DEF LeagueInv, AnswerIsNewer
<1>4. AccusedByLastAnswer'
  BY DEF LeagueInv, AccusedByLastAnswer, MissedIn
<1>5. BoundaryIsLatestRound'
  <2>1. boundary' <= today'
    BY <1>t DEF LeagueInv, BoundaryIsLatestRound, LeagueTypeOK, Days
  <2> QED BY <2>1 DEF LeagueInv, BoundaryIsLatestRound, LastEnd
<1> QED BY <1>1, <1>2, <1>3, <1>4, <1>5 DEF LeagueInv

\* Every step of the season and the polls keeps it.
LEMMA StepKeeps == LeagueInv /\ [LeagueNext]_leagueVars => LeagueInv'
<1> SUFFICES ASSUME LeagueInv, [LeagueNext]_leagueVars PROVE LeagueInv'
  OBVIOUS
<1>t. /\ today \in Days /\ published \in Rounds \cup {0}
      /\ attacks \subseteq Rounds \X Members /\ raids \subseteq Weekends \X Members
      /\ poll \in {"idle", "league", "raids"}
  BY DEF LeagueInv, LeagueTypeOK
<1>n. today <= today /\ published <= published
  BY <1>t DEF Days, Rounds
<1>1. CASE Tick
  <2>1. today' \in Days /\ today <= today'
    BY <1>1, <1>t DEF Tick, Days
  <2> QED BY <1>1, <1>t, <1>n, <2>1, OthersKeep DEF Tick
<1>2. CASE Publish
  <2>1. published' \in Rounds \cup {0} /\ published <= published'
    BY <1>2, <1>t DEF Publish, Rounds
  <2> QED BY <1>2, <1>t, <1>n, <2>1, OthersKeep DEF Publish
<1>3. CASE Attack
  <2>1. PICK r \in 1..published, p \in Members : attacks' = attacks \cup {<<r, p>>}
    BY <1>3 DEF Attack
  <2>2. r \in Rounds
    BY <2>1, <1>t DEF Rounds
  <2>3. attacks' \subseteq Rounds \X Members /\ attacks \subseteq attacks'
    BY <2>1, <2>2, <1>t
  <2> QED BY <1>3, <1>t, <1>n, <2>3, OthersKeep DEF Attack
<1>4. CASE FetchLeague
  BY <1>4, FetchKeeps
<1>5. CASE CommitLeague
  BY <1>5, CommitKeeps
<1>6. CASE CommitRaids
  <2>1. raids' \subseteq Weekends \X Members
    BY <1>6, <1>t DEF CommitRaids
  <2> QED BY <1>6, <1>t, <1>n, <2>1, OthersKeep DEF CommitRaids, world
<1>7. CASE NoLeague
  BY <1>7, <1>t, <1>n, OthersKeep DEF NoLeague, world
<1>8. CASE PollFails
  <2>0. /\ settled' = settled /\ today' = today /\ published' = published
        /\ attacks' = attacks /\ missed' = missed /\ raids' = raids
        /\ boundary' = boundary /\ poll' = "idle" /\ answer' = Empty
    BY <1>8 DEF PollFails, world
  <2>1. LeagueTypeOK'
    BY <2>0, <1>t DEF LeagueInv, LeagueTypeOK, Empty, Rounds
  <2>2. OverHasEnded' /\ AnswerIsNewer'
    BY <2>0 DEF LeagueInv, OverHasEnded, AnswerIsNewer, Empty
  <2>3. AccusedByLastAnswer'
    BY <2>0 DEF LeagueInv, AccusedByLastAnswer, MissedIn
  <2>4. BoundaryIsLatestRound'
    BY <2>0 DEF LeagueInv, BoundaryIsLatestRound, LastEnd
  <2> QED BY <2>1, <2>2, <2>3, <2>4 DEF LeagueInv
<1>9. CASE UNCHANGED leagueVars
  BY <1>9, <1>t, <1>n, OthersKeep DEF leagueVars, world
<1> QED BY <1>1, <1>2, <1>3, <1>4, <1>5, <1>6, <1>7, <1>8, <1>9 DEF LeagueNext

\* The inductive invariant holds in every state: types, the order of answers,
\* and the two properties below with what they rest on.
THEOREM LeagueInvariant == LeagueSpec => []LeagueInv
<1> QED BY InitOK, StepKeeps, PTL DEF LeagueSpec

\* Accusations of missed league attacks are those of the last complete poll:
\* an attack that turns up late withdraws its accusation, and failed polls in
\* between change nothing.
THEOREM AccusationsFollowAnswer == LeagueSpec => []AccusedByLastAnswer
<1>1. LeagueInv => AccusedByLastAnswer
  BY DEF LeagueInv
<1> QED BY <1>1, LeagueInvariant, PTL

\* The boundary of the season is the end of a published round that has passed,
\* and of the latest one if that was over when it was last looked at.
THEOREM BoundaryFollowsRounds == LeagueSpec => []BoundaryIsLatestRound
<1>1. LeagueInv => BoundaryIsLatestRound
  BY DEF LeagueInv
<1> QED BY <1>1, LeagueInvariant, PTL

\* The boundary moves only forward, and never to a round before another that
\* the poll knew of.
THEOREM BoundaryForward == LeagueSpec => BoundaryMovesForward
<1> DEFINE Moves == boundary' # boundary =>
                      /\ boundary' > boundary
                      /\ \A r \in 1..settled'.rounds : RoundEnd[r] <= boundary'
<1>1. LeagueInv /\ [LeagueNext]_leagueVars => [Moves]_leagueVars
  <2> SUFFICES ASSUME LeagueInv, LeagueNext, boundary' # boundary
               PROVE  /\ boundary' > boundary
                      /\ \A r \in 1..settled'.rounds : RoundEnd[r] <= boundary'
    OBVIOUS
  <2>1. CommitLeague
    BY DEF LeagueNext, Tick, Publish, Attack, FetchLeague, NoLeague, CommitRaids, PollFails
  <2> QED BY <2>1, CommitMoves DEF CommitLeague
<1> QED BY <1>1, LeagueInvariant, PTL DEF LeagueSpec, BoundaryMovesForward

-----------------------------------------------------------------------------
(* The counter of active violations.                                        *)

\* What a player is accused of is over.
Over == \A v \in raids : WeekendEnd[v[1]] <= today

\* A reduction that nothing has overtaken is of the current cycle, and the
\* player still has what it strikes off.
Covered(t) == /\ tasks[t].start = CycleStart
              /\ tasks[t].amount <= Count(tasks[t].tag, CycleStart)

CounterInv ==
  /\ LeagueInv
  /\ Over
  /\ tasks = [t \in Tasks |-> tasks[t]]
  /\ \A t \in Tasks : tasks[t].stage = "write" => t \in stale \/ Covered(t)

\* At first nothing is counted or struck off.
LEMMA CounterInitOK == CounterInit => CounterInv
<1> SUFFICES ASSUME CounterInit PROVE CounterInv
  OBVIOUS
<1>1. LeagueInv
  BY InitOK DEF CounterInit
<1>2. Over
  BY DEF CounterInit, LeagueInit, Over
<1>3. tasks = [t \in Tasks |-> NoTask] /\ NoTask.stage = "none"
  BY DEF CounterInit, NoTask
<1> QED BY <1>1, <1>2, <1>3 DEF CounterInv

\* The cycle began at the boundary: one that is recorded has passed.
LEMMA CycleAtBoundary == LeagueInv => CycleStart = boundary
BY DEF LeagueInv, BoundaryIsLatestRound, CycleStart

\* What is recorded as missed is over, by the answer that accused.
LEMMA MissedAreOver ==
  ASSUME LeagueInv
  PROVE  \A m \in missed : m[1] \in Rounds /\ RoundEnd[m[1]] <= today
<1> SUFFICES ASSUME NEW m \in missed PROVE m[1] \in Rounds /\ RoundEnd[m[1]] <= today
  OBVIOUS
<1>1. m \in settled.over \X Members
  BY DEF LeagueInv, AccusedByLastAnswer, MissedIn
<1>2. m[1] \in settled.over
  BY <1>1
<1>3. m \in Rounds \X Members
  BY DEF LeagueInv, LeagueTypeOK
<1> QED BY <1>2, <1>3 DEF LeagueInv, OverHasEnded

\* The counter stays as it is while only time passes.
LEMMA CounterStands ==
  ASSUME LeagueInv, Over, today' \in Days, today <= today',
         UNCHANGED <<missed, raids, resets>>, NEW p, NEW start
  PROVE  Count(p, start)' = Count(p, start)
<1>1. today \in Days
  BY DEF LeagueInv, LeagueTypeOK
<1>2. \A m \in missed : RoundEnd[m[1]] \in start..today' <=> RoundEnd[m[1]] \in start..today
  <2> SUFFICES ASSUME NEW m \in missed
               PROVE  RoundEnd[m[1]] \in start..today' <=> RoundEnd[m[1]] \in start..today
    OBVIOUS
  <2>1. m[1] \in Rounds /\ RoundEnd[m[1]] <= today
    BY MissedAreOver
  <2>2. RoundEnd[m[1]] \in 1..LastDay
    BY <2>1, RoundEnds
  <2> QED BY <1>1, <2>1, <2>2 DEF Days
<1>3. \A v \in raids : WeekendEnd[v[1]] \in start..today' <=> WeekendEnd[v[1]] \in start..today
  <2> SUFFICES ASSUME NEW v \in raids
               PROVE  WeekendEnd[v[1]] \in start..today' <=> WeekendEnd[v[1]] \in start..today
    OBVIOUS
  <2>1. v \in Weekends \X Members
    BY DEF LeagueInv, LeagueTypeOK
  <2>2. v[1] \in Weekends
    BY <2>1
  <2>3. WeekendEnd[v[1]] \in 1..LastDay
    BY <2>2
  <2>4. WeekendEnd[v[1]] <= today
    BY DEF Over
  <2> QED BY <1>1, <2>3, <2>4 DEF Days
<1>4. ASSUME NEW after
      PROVE  /\ {m \in missed : m[2] = p /\ RoundEnd[m[1]] \in start..today' /\ RoundEnd[m[1]] > after}
                  = {m \in missed : m[2] = p /\ RoundEnd[m[1]] \in start..today /\ RoundEnd[m[1]] > after}
             /\ {v \in raids : v[2] = p /\ WeekendEnd[v[1]] \in start..today' /\ WeekendEnd[v[1]] > after}
                  = {v \in raids : v[2] = p /\ WeekendEnd[v[1]] \in start..today /\ WeekendEnd[v[1]] > after}
  BY <1>2, <1>3
<1>5. ResetsOf(p, start)' = ResetsOf(p, start)
  BY DEF ResetsOf
<1>6. Legacy(p, start)' = Legacy(p, start)
  BY <1>5 DEF Legacy
<1>7. ASSUME NEW after PROVE EventsSince(p, start, after)' = EventsSince(p, start, after)
  BY <1>4 DEF EventsSince
<1>8. Balance(p, start)' = Balance(p, start)
  BY <1>5, <1>6, <1>7 DEF Balance
<1> QED BY <1>8 DEF Count

\* A poll overtakes every reduction at work, unless only time has passed.
LEMMA PollCovers == CounterInv /\ LeaguePoll => CounterInv'
<1> SUFFICES ASSUME CounterInv, LeaguePoll PROVE CounterInv'
  OBVIOUS
<1>1. /\ LeagueInv /\ LeagueInv' /\ tasks' = tasks /\ resets' = resets
      /\ stale' = IF UNCHANGED <<missed, raids, boundary>> THEN stale ELSE Writing
  BY StepKeeps DEF CounterInv, LeaguePoll, notLeague, deskVars
<1>2. today \in Days /\ today' \in Days /\ today <= today'
  <2>1. today \in Days /\ today' \in Days
    BY <1>1 DEF LeagueInv, LeagueTypeOK
  <2>2. today' = today \/ today' = today + 1
    BY DEF LeaguePoll, LeagueNext, Tick, Publish, Attack, FetchLeague, NoLeague,
           CommitLeague, CommitRaids, PollFails, world
  <2> QED BY <2>1, <2>2 DEF Days
<1>3. Over'
  <2>1. CASE CommitRaids
    <3>0. PICK told \in SUBSET {w \in Weekends : WeekendEnd[w] <= today} :
            \E idle \in SUBSET (told \X Members) :
              raids' = {v \in raids : v[1] \notin told} \cup idle
      BY <2>1 DEF CommitRaids
    <3>1. PICK idle \in SUBSET (told \X Members) :
            raids' = {v \in raids : v[1] \notin told} \cup idle
      BY <3>0
    <3>2. \A v \in idle : v[1] \in told
      OBVIOUS
    <3>3. today' = today
      BY <2>1 DEF CommitRaids, world
    <3> QED BY <3>1, <3>2, <3>3 DEF CounterInv, Over
  <2>2. CASE raids' = raids
    <3>1. \A v \in raids : WeekendEnd[v[1]] \in Nat
      <4> SUFFICES ASSUME NEW v \in raids PROVE WeekendEnd[v[1]] \in Nat
        OBVIOUS
      <4>1. v[1] \in Weekends
        BY <1>1 DEF LeagueInv, LeagueTypeOK
      <4> QED BY <4>1
    <3> QED BY <1>2, <2>2, <3>1 DEF CounterInv, Over, Days
  <2> QED BY <2>1, <2>2
           DEF LeaguePoll, LeagueNext, Tick, Publish, Attack, FetchLeague, NoLeague,
               CommitLeague, PollFails
<1>4. ASSUME NEW t \in Tasks, tasks'[t].stage = "write", t \notin stale' PROVE Covered(t)'
  <2>1. UNCHANGED <<missed, raids, boundary>> /\ t \notin stale
    BY <1>1, <1>4 DEF Writing
  <2>2. Covered(t)
    BY <1>1, <1>4, <2>1 DEF CounterInv
  <2>3. CycleStart' = boundary /\ CycleStart = boundary /\ boundary' = boundary
    <3>1. CycleStart = boundary
      BY <1>1, CycleAtBoundary
    <3>2. boundary' <= today'
      BY <1>1 DEF LeagueInv, BoundaryIsLatestRound
    <3>3. CycleStart' = boundary'
      BY <3>2 DEF CycleStart
    <3> QED BY <2>1, <3>1, <3>3
  <2>4. \A p : Count(p, boundary)' = Count(p, boundary)
    <3> SUFFICES ASSUME NEW p PROVE Count(p, boundary)' = Count(p, boundary)
      OBVIOUS
    <3>1. \A s : Count(p, s)' = Count(p, s)
      BY <1>1, <1>2, <2>1, CounterStands DEF CounterInv
    <3> QED BY <2>3, <3>1
  <2> QED BY <1>1, <2>2, <2>3, <2>4 DEF Covered
<1> QED BY <1>1, <1>3, <1>4 DEF CounterInv

\* The dialogues overtake what they change, and decide by the counter.
LEMMA CounterStep == CounterInv /\ [CounterNext]_counterVars => CounterInv'
<1> SUFFICES ASSUME CounterInv, [CounterNext]_counterVars PROVE CounterInv'
  OBVIOUS
<1>1. CASE LeaguePoll
  BY <1>1, PollCovers
<1>2. ASSUME UNCHANGED leagueVars, tasks' = [t \in Tasks |-> tasks'[t]],
             \A t \in Tasks : tasks'[t].stage = "write" /\ t \notin stale' => Covered(t)'
      PROVE  CounterInv'
  <2>1. LeagueInv'
    BY <1>2, StepKeeps DEF CounterInv
  <2>2. Over'
    BY <1>2 DEF leagueVars, world, CounterInv, Over
  <2> QED BY <1>2, <2>1, <2>2 DEF CounterInv
<1>3. ASSUME UNCHANGED <<leagueVars, resets>>
      PROVE  CycleStart' = CycleStart /\ \A p, s : Count(p, s)' = Count(p, s)
  <2>1. UNCHANGED <<today, missed, raids, boundary, resets>>
    BY <1>3 DEF leagueVars, world
  <2>2. today \in Days /\ today <= today
    BY DEF CounterInv, LeagueInv, LeagueTypeOK, Days
  <2>3. \A p, s : Count(p, s)' = Count(p, s)
    BY <2>1, <2>2, CounterStands DEF CounterInv
  <2> QED BY <2>1, <2>3 DEF CycleStart
<1>4. ASSUME UNCHANGED <<leagueVars, resets>>, NEW t \in Tasks, tasks'[t] = tasks[t],
             tasks[t].stage = "write", t \notin stale
      PROVE  Covered(t)'
  <2>1. Covered(t)
    BY <1>4 DEF CounterInv
  <2>2. CycleStart' = CycleStart /\ \A p, s : Count(p, s)' = Count(p, s)
    BY <1>3, <1>4
  <2> QED BY <1>4, <2>1, <2>2 DEF Covered
<1>5. CASE UNCHANGED <<leagueVars, resets, tasks, stale>>
  <2>1. tasks' = [t \in Tasks |-> tasks'[t]]
    BY <1>5 DEF CounterInv
  <2>2. \A t \in Tasks : tasks'[t].stage = "write" /\ t \notin stale' => Covered(t)'
    BY <1>4, <1>5
  <2> QED BY <1>2, <1>5, <2>1, <2>2
<1>6. CASE List \/ Choose \/ GoBack \/ ShowReductions
  BY <1>5, <1>6 DEF List, Choose, GoBack, Say, ShowReductions
<1>7. ASSUME NEW t \in Tasks, StrikeOff(t) PROVE CounterInv'
  <2>1. PICK n \in Amounts :
          IF n <= Owed(wizard.tag)
          THEN tasks' = [tasks EXCEPT ![t] = [stage |-> "write", tag |-> wizard.tag,
                                              start |-> CycleStart, amount |-> n]]
          ELSE UNCHANGED tasks
    BY <1>7 DEF StrikeOff
  <2>2. UNCHANGED <<leagueVars, resets, stale>>
    BY <1>7 DEF StrikeOff
  <2>3. CASE UNCHANGED tasks
    BY <1>5, <2>2, <2>3
  <2>4. CASE n <= Owed(wizard.tag)
    <3> DEFINE strike == [stage |-> "write", tag |-> wizard.tag, start |-> CycleStart, amount |-> n]
    <3>1. tasks' = [tasks EXCEPT ![t] = strike]
      BY <2>1, <2>4
    <3>2. /\ strike.tag = wizard.tag /\ strike.start = CycleStart /\ strike.amount = n
      OBVIOUS
    <3> HIDE DEF strike
    <3>3. /\ tasks' = [u \in Tasks |-> tasks'[u]] /\ tasks'[t] = strike
          /\ \A u \in Tasks \ {t} : tasks'[u] = tasks[u]
      BY <3>1 DEF CounterInv
    <3>4. CycleStart' = CycleStart /\ \A p, s : Count(p, s)' = Count(p, s)
      BY <1>3, <2>2
    <3>5. n <= Count(wizard.tag, CycleStart)
      BY <2>4 DEF Owed
    <3>6. Covered(t)'
      BY <3>2, <3>3, <3>4, <3>5 DEF Covered
    <3>7. \A u \in Tasks : tasks'[u].stage = "write" /\ u \notin stale' => Covered(u)'
      BY <1>4, <2>2, <3>3, <3>6
    <3> QED BY <1>2, <2>2, <3>3, <3>7
  <2> QED BY <2>1, <2>3, <2>4
<1>8. ASSUME NEW t \in Tasks, WriteReset(t) PROVE CounterInv'
  <2>1. /\ tasks' = [tasks EXCEPT ![t] = [stage |-> "clear"]] /\ stale' = Writing \ {t}
        /\ UNCHANGED leagueVars
    BY <1>8 DEF WriteReset
  <2>2. /\ tasks' = [u \in Tasks |-> tasks'[u]] /\ tasks'[t].stage = "clear"
        /\ \A u \in Tasks \ {t} : tasks'[u] = tasks[u]
    BY <2>1 DEF CounterInv
  <2>3. \A u \in Tasks : tasks'[u].stage = "write" => u \in stale'
    BY <2>1, <2>2 DEF Writing
  <2> QED BY <1>2, <2>1, <2>2, <2>3
<1>9. ASSUME NEW t \in Tasks, Clear(t) PROVE CounterInv'
  <2>1. /\ tasks' = [tasks EXCEPT ![t] = NoTask] /\ stale' = stale \ {t}
        /\ UNCHANGED <<leagueVars, resets>>
    BY <1>9 DEF Clear
  <2>2. /\ tasks' = [u \in Tasks |-> tasks'[u]] /\ tasks'[t] = NoTask
        /\ \A u \in Tasks \ {t} : tasks'[u] = tasks[u]
    BY <2>1 DEF CounterInv
  <2>3. \A u \in Tasks : tasks'[u].stage = "write" /\ u \notin stale' => Covered(u)'
    BY <1>4, <2>1, <2>2 DEF NoTask
  <2> QED BY <1>2, <2>1, <2>2, <2>3
<1>10. CASE Restore
  <2>1. /\ tasks' = tasks /\ UNCHANGED leagueVars
        /\ stale' = IF resets' = resets THEN stale ELSE Writing
    BY <1>10 DEF Restore
  <2>2. CASE resets' = resets
    BY <1>5, <2>1, <2>2
  <2>3. CASE resets' # resets
    BY <1>2, <2>1, <2>3 DEF Writing, CounterInv
  <2> QED BY <2>2, <2>3
<1>11. CASE Restart
  <2>1. tasks' = [t \in Tasks |-> NoTask] /\ UNCHANGED leagueVars
    BY <1>11 DEF Restart
  <2> QED BY <1>2, <2>1 DEF NoTask
<1>12. CASE UNCHANGED counterVars
  BY <1>5, <1>12 DEF counterVars, deskVars
<1> QED
  BY <1>1, <1>6, <1>7, <1>8, <1>9, <1>10, <1>11, <1>12 DEF CounterNext

\* A reduction never strikes off more than the player has in the current
\* cycle, unless something came between its reading and its commit.
THEOREM OverspentOnlyStale == CounterSpec => OverspentOnlyWhenStale
<1>1. CounterInv /\ [CounterNext]_counterVars =>
        [\A t \in Tasks : (tasks[t].stage = "write" /\ tasks'[t].stage = "clear")
           => \/ t \in stale
              \/ /\ tasks[t].start = CycleStart
                 /\ tasks[t].amount <= Count(tasks[t].tag, CycleStart)]_counterVars
  BY DEF CounterInv, Covered
<1> QED BY <1>1, CounterInitOK, CounterStep, PTL DEF CounterSpec, OverspentOnlyWhenStale

-----------------------------------------------------------------------------
(* Recalculations: the numbers of the rows.                                 *)

\* A set of numbers that is not empty has a least one.
LEMMA LeastNatural ==
  ASSUME NEW T \in SUBSET Nat, T # {}
  PROVE  \E x \in T : \A y \in T : x <= y
<1> DEFINE R == OpToRel(<, Nat)
<1>1. \A x, y \in Nat : y < x => <<y, x>> \in R
  BY DEF OpToRel
<1>2. IsWellFoundedOn(R, Nat)
  BY NatLessThanWellFounded
<1> HIDE DEF R
<1>3. PICK x \in T : \A y \in T : <<y, x>> \notin R
  BY <1>2, WFMin
<1> QED
  <2>1. ASSUME NEW y \in T PROVE x <= y
    <3>1. ~(y < x)
      BY <1>1, <1>3
    <3> QED BY <3>1
  <2> QED BY <2>1

\* The last row number is one of the table's, and none is greater.
LEMMA LastIdProps ==
  ASSUME NEW t \in SUBSET Rows
  PROVE  /\ LastId(t) \in 0..MaxId
         /\ \A v \in t : v.id <= LastId(t)
<1>0. MaxId \in Nat
  BY RecalculationAssumption
<1>1. CASE t = {}
  BY <1>0, <1>1 DEF LastId
<1>2. CASE t # {}
  <2> DEFINE T == {v.id : v \in t}
             U == {MaxId - i : i \in T}
  <2>1. T # {} /\ \A i \in T : i \in 1..MaxId /\ MaxId - i \in Nat
    BY <1>0, <1>2 DEF Rows, Ids
  <2>2. U \in SUBSET Nat /\ U # {}
    <3> HIDE DEF T
    <3> QED BY <2>1
  <2>3. PICK u \in U : \A x \in U : u <= x
    <3> HIDE DEF U
    <3> QED BY <2>2, LeastNatural
  <2>4. PICK i \in T : u = MaxId - i
    OBVIOUS
  <2>5. ASSUME NEW j \in T PROVE j <= i
    <3>1. MaxId - j \in U
      OBVIOUS
    <3> HIDE DEF T, U
    <3>2. j \in Int /\ i \in Int
      BY <1>0, <2>1, <2>4
    <3>3. MaxId - i <= MaxId - j
      BY <2>3, <2>4, <3>1
    <3> QED BY <1>0, <3>2, <3>3
  <2>6. LastId(t) \in T /\ \A v \in t : v.id <= LastId(t)
    BY <1>2, <2>5 DEF LastId
  <2>7. \A j \in T : j \in 0..MaxId
    BY <1>0, <2>1
  <2> HIDE DEF T
  <2> QED BY <2>6, <2>7
<1> QED BY <1>1, <1>2

\* New rows get numbers of their own, after the last one.
LEMMA InsertedProps ==
  ASSUME NEW t \in SUBSET Rows, NEW ns \in SUBSET Attacks, NEW code, NEW manual \in BOOLEAN,
         LastId(t) + Cardinality(ns) <= MaxId
  PROVE  /\ \A x \in Inserted(ns, code, manual, t) : x.attack \in ns /\ x.code = code[x.attack]
         /\ \A x \in Inserted(ns, code, manual, t) : x.manual = manual
         /\ \A x \in Inserted(ns, code, manual, t) : code[x.attack] \in Codes => x \in Rows
         /\ \A x \in Inserted(ns, code, manual, t) : x.id \in Ids
         /\ \A x \in Inserted(ns, code, manual, t), v \in t : v.id # x.id
         /\ \A x, y \in Inserted(ns, code, manual, t) :
              x.id = y.id \/ x.attack = y.attack => x = y
         /\ \A n \in ns : \E x \in Inserted(ns, code, manual, t) : x.attack = n
<1> DEFINE upTo(n) == {m \in ns : m <= n}
           id(n) == LastId(t) + Cardinality(upTo(n))
           row(n) == [id |-> id(n), attack |-> n, code |-> code[n], manual |-> manual]
<1>1. /\ IsFiniteSet(ns) /\ Cardinality(ns) \in Nat /\ ns \subseteq Nat /\ LastId(t) \in Nat
      /\ MaxId \in Nat /\ \A v \in t : v.id <= LastId(t) /\ v.id \in Nat
  <2>1. IsFiniteSet(Attacks) /\ Attacks \subseteq Nat /\ MaxId \in Nat
    BY RecalculationAssumption
  <2>2. IsFiniteSet(ns)
    BY <2>1, FS_Subset
  <2>3. \A v \in t : v.id \in Nat
    BY DEF Rows, Ids
  <2> QED BY <2>1, <2>2, <2>3, FS_CardinalityType, LastIdProps
<1>2. ASSUME NEW n \in ns
      PROVE  /\ IsFiniteSet(upTo(n)) /\ Cardinality(upTo(n)) \in Nat
             /\ Cardinality(upTo(n)) <= Cardinality(ns) /\ Cardinality(upTo(n)) >= 1
  <2>1. upTo(n) \in SUBSET ns /\ n \in upTo(n)
    BY <1>1
  <2> HIDE DEF upTo
  <2>2. /\ IsFiniteSet(upTo(n)) /\ Cardinality(upTo(n)) \in Nat
        /\ Cardinality(upTo(n)) <= Cardinality(ns)
    BY <1>1, <2>1, FS_Subset, FS_CardinalityType
  <2>3. Cardinality(upTo(n)) # 0
    BY <2>1, <2>2, FS_EmptySet
  <2> QED BY <2>2, <2>3
<1>3. ASSUME NEW n \in ns, NEW m \in ns, n < m
      PROVE  Cardinality(upTo(n)) < Cardinality(upTo(m))
  <2>1. upTo(n) \in SUBSET upTo(m) /\ m \in upTo(m) /\ m \notin upTo(n)
    <3>1. n \in Nat /\ m \in Nat /\ ~(m <= n) /\ \A x \in ns : x \in Nat /\ (x <= n => x <= m)
      BY <1>1, <1>3
    <3>2. \A x \in upTo(n) : x \in upTo(m)
      BY <3>1
    <3>3. m \in upTo(m) /\ m \notin upTo(n)
      BY <3>1
    <3> QED BY <3>2, <3>3
  <2> HIDE DEF upTo
  <2>2. /\ Cardinality(upTo(n)) <= Cardinality(upTo(m))
        /\ Cardinality(upTo(m)) = Cardinality(upTo(n)) => upTo(m) = upTo(n)
    BY <1>2, <2>1, FS_Subset
  <2> QED BY <1>2, <2>1, <2>2
<1>4. Inserted(ns, code, manual, t) = {row(n) : n \in ns}
  BY DEF Inserted
<1> HIDE DEF upTo
<1>5. ASSUME NEW n \in ns PROVE id(n) \in Ids /\ \A v \in t : v.id # id(n)
  BY <1>1, <1>2 DEF Ids
<1>6. ASSUME NEW n \in ns, NEW m \in ns, id(n) = id(m) PROVE n = m
  <2>1. Cardinality(upTo(n)) = Cardinality(upTo(m))
    BY <1>1, <1>2, <1>6
  <2> QED BY <1>1, <1>2, <1>3, <2>1
<1> HIDE DEF id
<1>7. \A x \in Inserted(ns, code, manual, t) : \E n \in ns : x = row(n)
  BY <1>4
<1>8. ASSUME NEW x \in Inserted(ns, code, manual, t)
      PROVE  /\ x.attack \in ns /\ x.code = code[x.attack] /\ x.manual = manual
             /\ code[x.attack] \in Codes => x \in Rows
             /\ x.id \in Ids /\ \A v \in t : v.id # x.id
  <2>1. PICK n \in ns : x = row(n)
    BY <1>7
  <2>2. code[n] \in Codes => row(n) \in Rows
    BY <1>5 DEF Rows
  <2>3. /\ row(n).attack = n /\ row(n).code = code[n] /\ row(n).manual = manual
        /\ row(n).id = id(n)
    OBVIOUS
  <2> HIDE DEF row
  <2> QED BY <1>5, <2>1, <2>2, <2>3
<1>9. ASSUME NEW x \in Inserted(ns, code, manual, t), NEW y \in Inserted(ns, code, manual, t),
             x.id = y.id \/ x.attack = y.attack
      PROVE  x = y
  <2>1. PICK n \in ns : x = row(n)
    BY <1>7
  <2>2. PICK m \in ns : y = row(m)
    BY <1>7
  <2>3. id(n) = id(m) \/ n = m
    BY <1>9, <2>1, <2>2
  <2>4. n = m
    BY <1>6, <2>3
  <2> QED BY <2>1, <2>2, <2>4
<1>10. ASSUME NEW n \in ns PROVE \E x \in Inserted(ns, code, manual, t) : x.attack = n
  <2>1. row(n) \in Inserted(ns, code, manual, t) /\ row(n).attack = n
    BY <1>4
  <2> QED BY <2>1
<1> HIDE DEF row
<1> QED BY <1>8, <1>9, <1>10

-----------------------------------------------------------------------------
(* What a flush does to the rows.                                           *)

(* The constraints of the table: the primary key, and one row per attack.   *)
Unique(t) == \A v, x \in t : v.attack = x.attack \/ v.id = x.id => v = x

(* What an UPDATE makes of a row.                                           *)
Rewritten(v, upd, view) ==
  IF \E u \in upd : u.id = v.id
  THEN [v EXCEPT !.code = view[(CHOOSE u \in upd : u.id = v.id).attack].code]
  ELSE v

\* An update changes the code only, to one the rules found.
LEMMA RewrittenProps ==
  ASSUME NEW view \in [Attacks -> Decisions], NEW seen \in SUBSET Rows, NEW v \in Rows
  PROVE  LET upd == ToUpdate(seen, view)
             x == Rewritten(v, upd, view)
         IN  /\ x \in Rows /\ x.id = v.id /\ x.attack = v.attack /\ x.manual = v.manual
             /\ (\A u \in upd : u.id # v.id) => x = v
             /\ \A u \in upd : (\A y \in upd : y.id = v.id => y = u) /\ u.id = v.id
                                 => x.code = view[u.attack].code
<1> DEFINE upd == ToUpdate(seen, view)
           x == Rewritten(v, upd, view)
<1>1. \A u \in upd : u \in Rows /\ view[u.attack].code \in Codes
  BY DEF ToUpdate, Recorded, Decisions, Rows, Codes
<1>2. CASE \A u \in upd : u.id # v.id
  <2>1. x = v
    BY <1>2 DEF Rewritten
  <2> QED BY <1>2, <2>1
<1>3. CASE \E u \in upd : u.id = v.id
  <2> DEFINE c == CHOOSE u \in upd : u.id = v.id
  <2>1. c \in upd /\ c.id = v.id
    BY <1>3
  <2>2. x = [v EXCEPT !.code = view[c.attack].code]
    BY <1>3 DEF Rewritten
  <2>3. view[c.attack].code \in Codes
    BY <1>1, <2>1
  <2> HIDE DEF c, x, upd
  <2>4. /\ x \in Rows /\ x.id = v.id /\ x.attack = v.attack /\ x.manual = v.manual
        /\ x.code = view[c.attack].code
    BY <2>2, <2>3 DEF Rows
  <2>5. \A u \in upd : (\A y \in upd : y.id = v.id => y = u) /\ u.id = v.id
                         => x.code = view[u.attack].code
    BY <2>1, <2>4
  <2> QED BY <1>3, <2>4, <2>5 DEF upd, x
<1> QED BY <1>2, <1>3

\* A flush that meets no conflict keeps the constraints.
LEMMA FlushedRows ==
  ASSUME NEW t \in SUBSET Rows, Unique(t), NEW view \in [Attacks -> Decisions],
         NEW w, NEW seen \in SUBSET Rows,
         ~Conflict(ToInsert(w, seen, view), ToUpdate(seen, view), t),
         LastId(t) + Cardinality(ToInsert(w, seen, view)) <= MaxId
  PROVE  LET f == Flushed(ToInsert(w, seen, view), ToUpdate(seen, view),
                          ToDelete(seen, view), view, t)
         IN  f \subseteq Rows /\ Unique(f)
<1> DEFINE ins == ToInsert(w, seen, view)
           upd == ToUpdate(seen, view)
           del == ToDelete(seen, view)
           codes == [n \in Attacks |-> view[n].code]
           kept == {x \in t : x.id \notin {d.id : d \in del}}
           old == {Rewritten(v, upd, view) : v \in kept}
           new == Inserted(ins, codes, FALSE, t)
           f == Flushed(ins, upd, del, view, t)
<1>1. f = old \cup new
  BY DEF Flushed, Rewritten
<1>2. ins \in SUBSET Attacks /\ \A n \in ins : codes[n] \in Codes
  BY DEF ToInsert, AttacksOf, Recorded, Decisions, Codes
<1>3. \A n \in ins, v \in t : v.attack # n
  BY DEF Conflict
<1>4. \A v \in kept : v \in t /\ v \in Rows
  OBVIOUS
<1>5. ASSUME NEW v \in t
      PROVE  /\ Rewritten(v, upd, view) \in Rows /\ Rewritten(v, upd, view).id = v.id
             /\ Rewritten(v, upd, view).attack = v.attack
  BY RewrittenProps
<1>6. /\ \A x \in new : /\ x.attack \in ins /\ x.id \in Ids /\ \A v \in t : v.id # x.id
                        /\ x \in Rows
      /\ \A x, y \in new : x.id = y.id \/ x.attack = y.attack => x = y
  <2>1. LastId(t) + Cardinality(ins) <= MaxId
    OBVIOUS
  <2> HIDE DEF ins, codes
  <2>2. ASSUME NEW x \in new
        PROVE  x.attack \in ins /\ x.id \in Ids /\ (\A v \in t : v.id # x.id) /\ x \in Rows
    <3>1. x.attack \in ins
      BY <1>2, <2>1, InsertedProps
    <3>2. x.id \in Ids
      BY <1>2, <2>1, InsertedProps
    <3>5. \A y \in new, v \in t : v.id # y.id
      BY <1>2, <2>1, InsertedProps, Zenon
    <3>4. ASSUME NEW v \in t PROVE v.id # x.id
      BY <3>5
    <3>3. codes[x.attack] \in Codes => x \in Rows
      BY <1>2, <2>1, InsertedProps
    <3> QED BY <1>2, <3>1, <3>2, <3>3, <3>4
  <2>3. \A x, y \in new : x.id = y.id \/ x.attack = y.attack => x = y
    BY <1>2, <2>1, InsertedProps
  <2> QED BY <2>2, <2>3
<1> HIDE DEF ins, upd, del, codes, kept, new, f
<1>7. \A x \in old : \E v \in kept : x = Rewritten(v, upd, view)
  OBVIOUS
<1>8. new \subseteq Rows
  BY <1>6
<1>9. old \subseteq Rows
  BY <1>4, <1>5, <1>7
<1> HIDE DEF old
<1>10. ASSUME NEW x \in f, NEW y \in f, x.attack = y.attack \/ x.id = y.id PROVE x = y
  <2>1. ASSUME NEW v \in kept, NEW z \in kept, x = Rewritten(v, upd, view),
               y = Rewritten(z, upd, view)
        PROVE  x = y
    <3>1. v \in t /\ z \in t
      BY <1>4
    <3>2. v.attack = z.attack \/ v.id = z.id
      BY <1>5, <1>10, <2>1, <3>1
    <3> QED BY <2>1, <3>1, <3>2 DEF Unique
  <2>2. ASSUME NEW v \in kept, NEW z \in new PROVE /\ Rewritten(v, upd, view).id # z.id
                                                   /\ Rewritten(v, upd, view).attack # z.attack
    <3>1. v \in t
      BY <1>4
    <3> QED BY <1>3, <1>5, <1>6, <3>1
  <2>3. CASE x \in old /\ y \in old
    BY <1>7, <2>1, <2>3
  <2>4. CASE x \in new /\ y \in new
    BY <1>6, <1>10, <2>4
  <2>5. CASE (x \in old /\ y \in new) \/ (x \in new /\ y \in old)
    BY <1>7, <1>10, <2>2, <2>5
  <2> QED BY <1>1, <2>3, <2>4, <2>5
<1>11. f \subseteq Rows /\ Unique(f)
  BY <1>1, <1>8, <1>9, <1>10 DEF Unique
<1> QED BY <1>11 DEF f, ins, upd, del

(* What the rules make of an attack's rows: a protected row stays, and      *)
(* otherwise there is a row with the rules' code if their decision is       *)
(* final, and none if not.                                                  *)
RowsAt(n, t) == {v \in t : v.attack = n}
Outcome(n, view) ==
  IF Recorded(view[n]) THEN {[code |-> view[n].code, manual |-> FALSE]} ELSE {}
Exact(n, view, before, after) ==
  IF \E v \in RowsAt(n, before) : Protected(v)
  THEN RowsAt(n, after) = RowsAt(n, before)
  ELSE {[code |-> v.code, manual |-> v.manual] : v \in RowsAt(n, after)} = Outcome(n, view)

\* Fresh rows of a war do not conflict with what reconcile_war makes of them.
LEMMA NoConflict ==
  ASSUME NEW t \in SUBSET Rows, NEW view, NEW w
  PROVE  ~Conflict(ToInsert(w, RowsOf(w, t), view), ToUpdate(RowsOf(w, t), view), t)
BY DEF Conflict, ToInsert, ToUpdate, RowsOf

\* Reconciling a war from its rows in the table leaves what the rules say of
\* its attacks, and the rows of other wars as they were (reconcile_war).
LEMMA FlushedExact ==
  ASSUME NEW t \in SUBSET Rows, Unique(t), NEW view \in [Attacks -> Decisions], NEW w,
         LastId(t) + Cardinality(ToInsert(w, RowsOf(w, t), view)) <= MaxId
  PROVE  LET seen == RowsOf(w, t)
             f == Flushed(ToInsert(w, seen, view), ToUpdate(seen, view),
                          ToDelete(seen, view), view, t)
         IN  \A n \in Attacks : IF n \in AttacksOf(w) THEN Exact(n, view, t, f)
                                ELSE RowsAt(n, f) = RowsAt(n, t)
<1> DEFINE seen == RowsOf(w, t)
           ins == ToInsert(w, seen, view)
           upd == ToUpdate(seen, view)
           del == ToDelete(seen, view)
           codes == [n \in Attacks |-> view[n].code]
           kept == {x \in t : x.id \notin {d.id : d \in del}}
           new == Inserted(ins, codes, FALSE, t)
           f == Flushed(ins, upd, del, view, t)
           R(v) == Rewritten(v, upd, view)
<1>1. f = {R(v) : v \in kept} \cup new
  BY DEF Flushed, Rewritten
<1>2. /\ seen \in SUBSET Rows /\ upd \subseteq t /\ del \subseteq t
      /\ \A v \in t : v.attack \in Attacks /\ v.manual \in BOOLEAN
      /\ \A v \in t : v \in seen <=> v.attack \in AttacksOf(w)
      /\ \A v \in t : v \in upd <=> /\ v \in seen /\ ~Protected(v)
                                    /\ Recorded(view[v.attack]) /\ v.code # view[v.attack].code
      /\ \A v \in t : v \in del <=> /\ v \in seen /\ ~Protected(v) /\ ~Recorded(view[v.attack])
      /\ \A n \in Attacks : n \in ins <=> /\ n \in AttacksOf(w) /\ Recorded(view[n])
                                          /\ ~\E v \in t : v.attack = n
      /\ ins \in SUBSET Attacks
  BY DEF RowsOf, ToUpdate, ToDelete, ToInsert, AttacksOf, Rows
<1>3. \A v \in t : v \in kept <=> v \notin del
  <2> HIDE DEF del
  <2> QED BY <1>2 DEF Unique
<1>4. ASSUME NEW v \in t
      PROVE  /\ R(v).attack = v.attack /\ R(v).manual = v.manual
             /\ v \notin upd => R(v) = v
             /\ v \in upd => R(v).code = view[v.attack].code
  <2>1. \A u \in upd : u.id = v.id => u = v
    BY <1>2 DEF Unique
  <2>2. v \in Rows
    OBVIOUS
  <2>3. /\ R(v).attack = v.attack /\ R(v).manual = v.manual
        /\ (\A u \in upd : u.id # v.id) => R(v) = v
    BY <1>2, <2>2, RewrittenProps
  <2>4. v \in upd => R(v).code = view[v.attack].code
    <3>1. \A u \in upd : (\A y \in upd : y.id = v.id => y = u) /\ u.id = v.id
                           => R(v).code = view[u.attack].code
      BY <1>2, <2>2, RewrittenProps
    <3> QED BY <2>1, <3>1
  <2> QED BY <2>1, <2>3, <2>4
<1>5. /\ \A x \in new : x.attack \in ins /\ x.code = view[x.attack].code /\ x.manual = FALSE
      /\ \A n \in ins : \E x \in new : x.attack = n
  <2>1. LastId(t) + Cardinality(ins) <= MaxId /\ FALSE \in BOOLEAN
        /\ \A n \in ins : codes[n] = view[n].code
    BY <1>2
  <2> HIDE DEF ins, codes
  <2>2. \A x \in new : x.attack \in ins /\ x.code = codes[x.attack]
    BY <1>2, <2>1, InsertedProps, Zenon
  <2>4. ASSUME NEW n \in ins PROVE \E x \in new : x.attack = n
    <3> DEFINE row == [id |-> LastId(t) + Cardinality({m \in ins : m <= n}), attack |-> n,
                       code |-> codes[n], manual |-> FALSE]
    <3>1. row \in new /\ row.attack = n
      BY DEF Inserted
    <3> QED BY <3>1
  <2>3. \A x \in new : x.manual = FALSE
    BY <1>2, <2>1, InsertedProps, Zenon
  <2>5. \A x \in new : codes[x.attack] = view[x.attack].code
    BY <2>1, <2>2
  <2> QED BY <2>2, <2>3, <2>4, <2>5
<1> HIDE DEF seen, ins, upd, del, codes, kept, new, f, R
<1>6. ASSUME NEW n, NEW x \in RowsAt(n, f)
      PROVE  \/ \E v \in t : v \notin del /\ v.attack = n /\ x = R(v)
             \/ x \in new /\ n \in ins /\ x.attack = n
  <2>1. x \in f /\ x.attack = n
    BY DEF RowsAt
  <2>2. CASE x \in new
    BY <1>5, <2>1, <2>2
  <2>3. CASE x \notin new
    <3>1. PICK v \in kept : x = R(v)
      BY <1>1, <2>1, <2>3
    <3>2. v \in t
      BY DEF kept
    <3> QED BY <1>3, <1>4, <2>1, <3>1, <3>2
  <2> QED BY <2>2, <2>3
<1>7. ASSUME NEW v \in t, v \notin del PROVE R(v) \in RowsAt(v.attack, f)
  <2>1. R(v) \in f
    BY <1>1, <1>3, <1>7
  <2> QED BY <1>4, <2>1 DEF RowsAt
<1>8. ASSUME NEW n \in Attacks, n \notin ins, \A v \in t : v.attack = n => v \notin upd /\ v \notin del
      PROVE  RowsAt(n, f) = RowsAt(n, t)
  <2>1. ASSUME NEW x \in RowsAt(n, f) PROVE x \in RowsAt(n, t)
    BY <1>4, <1>6, <1>8 DEF RowsAt
  <2>2. ASSUME NEW v \in RowsAt(n, t) PROVE v \in RowsAt(n, f)
    BY <1>4, <1>7, <1>8 DEF RowsAt
  <2> QED BY <2>1, <2>2
<1>9. ASSUME NEW n \in Attacks, n \notin AttacksOf(w) PROVE RowsAt(n, f) = RowsAt(n, t)
  BY <1>2, <1>8, <1>9
<1>10. ASSUME NEW n \in Attacks, n \in AttacksOf(w) PROVE Exact(n, view, t, f)
  <2>1. CASE \E v \in RowsAt(n, t) : Protected(v)
    <3>1. PICK v \in t : v.attack = n /\ Protected(v)
      BY <2>1 DEF RowsAt
    <3>2. \A z \in t : z.attack = n => z = v
      BY <3>1 DEF Unique
    <3>3. RowsAt(n, f) = RowsAt(n, t)
      BY <1>2, <1>8, <3>1, <3>2
    <3> QED BY <2>1, <3>3 DEF Exact
  <2>2. CASE ~\E v \in RowsAt(n, t) : Protected(v)
    <3>1. \A v \in t : v.attack = n => ~Protected(v) /\ v \in seen
      BY <1>2, <1>10, <2>2 DEF RowsAt
    <3>2. CASE Recorded(view[n])
      <4>1. \A x \in RowsAt(n, f) : x.code = view[n].code /\ x.manual = FALSE
        <5> SUFFICES ASSUME NEW x \in RowsAt(n, f)
                     PROVE  x.code = view[n].code /\ x.manual = FALSE
          OBVIOUS
        <5>1. CASE x \in new /\ n \in ins /\ x.attack = n
          BY <1>5, <5>1
        <5>2. CASE \E v \in t : v \notin del /\ v.attack = n /\ x = R(v)
          <6>1. PICK v \in t : v \notin del /\ v.attack = n /\ x = R(v)
            BY <5>2
          <6>2. v.manual = FALSE
            BY <1>2, <3>1, <6>1 DEF Protected
          <6>3. v \notin upd => v.code = view[n].code
            BY <1>2, <3>1, <3>2, <6>1
          <6> QED BY <1>4, <6>1, <6>2, <6>3
        <5> QED BY <1>6, <5>1, <5>2
      <4>2. RowsAt(n, f) # {}
        <5>1. CASE n \in ins
          <6>1. PICK x \in new : x.attack = n
            BY <1>5, <5>1
          <6> QED BY <1>1, <6>1 DEF RowsAt
        <5>2. CASE n \notin ins
          <6>1. PICK v \in t : v.attack = n
            BY <1>2, <1>10, <3>2, <5>2
          <6>2. v \notin del
            BY <1>2, <3>2, <6>1
          <6> QED BY <1>7, <6>1, <6>2
        <5> QED BY <5>1, <5>2
      <4>3. {[code |-> v.code, manual |-> v.manual] : v \in RowsAt(n, f)}
              = {[code |-> view[n].code, manual |-> FALSE]}
        BY <4>1, <4>2
      <4> QED BY <2>2, <3>2, <4>3 DEF Exact, Outcome
    <3>3. CASE ~Recorded(view[n])
      <4>1. RowsAt(n, f) = {}
        BY <1>2, <1>6, <3>1, <3>3
      <4> QED BY <2>2, <3>3, <4>1 DEF Exact, Outcome
    <3> QED BY <3>2, <3>3
  <2> QED BY <2>1, <2>2
<1>11. \A n \in Attacks : IF n \in AttacksOf(w) THEN Exact(n, view, t, f)
                          ELSE RowsAt(n, f) = RowsAt(n, t)
  BY <1>9, <1>10
<1> QED BY <1>11 DEF f, ins, upd, del, seen

-----------------------------------------------------------------------------
(* Types, the constraints, and which wars a recalculation has passed.       *)

JobOK ==
  \A r \in Recalcs :
    /\ lock = r => job[r].step # "idle"
    /\ job[r].step = "deciding" => job[r].war \in Wars \ incomplete
    /\ \A w \in Wars : w < job[r].war => w \notin incomplete

Basic == TypeOK /\ OneViolationPerAttack /\ JobOK

\* Every initial table meets the schema, and no recalculation is running.
LEMMA BasicInit == Init => Basic
<1> SUFFICES ASSUME Init PROVE Basic
  OBVIOUS
<1> USE RecalculationAssumption
<1>1. /\ IsFiniteSet(Wars) /\ Cardinality(Wars) \in Nat
      /\ Allowed \in Decisions
      /\ judged \in [Attacks -> Decisions] /\ incomplete \subseteq Wars
      /\ table \in InitialRows
  BY FS_CardinalityType DEF Init, Allowed, Decisions
<1>2. Idle \in Jobs
  BY <1>1 DEF Idle, Jobs
<1>3. TypeOK
  BY <1>1, <1>2 DEF Init, TypeOK
<1>4. OneViolationPerAttack
  BY <1>1 DEF Init, OneViolationPerAttack
<1>5. \A w \in Wars : ~(w < 1)
  BY <1>1
<1>6. JobOK
  BY <1>5 DEF Init, JobOK, Idle
<1> QED BY <1>3, <1>4, <1>6 DEF Basic

\* Every step keeps the types, the constraints, and the wars passed complete.
LEMMA BasicStep == Basic /\ [Next]_vars => Basic'
<1> SUFFICES ASSUME Basic, [Next]_vars PROVE Basic'
  OBVIOUS
<1> USE DEF Basic
<1>0. /\ IsFiniteSet(Wars) /\ Cardinality(Wars) \in Nat /\ MaxEdits \in Nat
      /\ Wars = 1..Cardinality(Wars) /\ Nobody \notin Recalcs /\ MaxId \in Nat
      /\ Allowed \in Decisions /\ Idle \in Jobs
  <2>1. /\ IsFiniteSet(Wars) /\ Cardinality(Wars) \in Nat /\ Allowed \in Decisions
    BY RecalculationAssumption, FS_CardinalityType DEF Allowed, Decisions
  <2> QED BY <2>1, RecalculationAssumption DEF Idle, Jobs
<1>1. ASSUME NEW r \in Recalcs
      PROVE  /\ job[r].step \in {"idle", "reading", "deciding"}
             /\ job[r].war \in 1..(Cardinality(Wars) + 1)
             /\ job[r].loaded \subseteq Rows /\ job[r].seen \subseteq Rows
             /\ job[r].view \in [Attacks -> Decisions]
             /\ Current(r) \subseteq Rows /\ Unique(Current(r)) /\ Unique(table)
  BY DEF TypeOK, Jobs, Current, OneViolationPerAttack, Unique
<1>2. CASE UNCHANGED vars
  BY <1>2 DEF vars, TypeOK, OneViolationPerAttack, JobOK
<1>3. ASSUME NEW r \in Recalcs, Start(r), Watch PROVE Basic'
  <2>1. [Idle EXCEPT !.step = "reading", !.loaded = table, !.view = judged] \in Jobs
    BY <1>0 DEF Idle, Jobs, TypeOK
  <2>2. TypeOK'
    BY <1>3, <2>1 DEF Start, Watch, TypeOK
  <2>3. OneViolationPerAttack'
    BY <1>3 DEF Start, OneViolationPerAttack
  <2>4. JobOK'
    BY <1>0, <1>3 DEF Start, JobOK, TypeOK, Idle
  <2> QED BY <2>2, <2>3, <2>4
<1>4. ASSUME NEW r \in Recalcs, ReadWar(r), Watch PROVE Basic'
  <2>0. \A v \in Rows : InMemory(r, v) \in Rows
    BY <1>1 DEF InMemory
  <2>1. [job[r] EXCEPT !.step = "deciding",
                       !.seen = {InMemory(r, v) : v \in RowsOf(job[r].war, Current(r))}] \in Jobs
    <3>1. {InMemory(r, v) : v \in RowsOf(job[r].war, Current(r))} \in SUBSET Rows
      BY <1>1, <2>0 DEF RowsOf
    <3>2. job[r] \in Jobs
      BY DEF TypeOK
    <3> QED BY <3>1, <3>2 DEF Jobs
  <2>2. TypeOK'
    BY <1>4, <2>1 DEF ReadWar, Watch, TypeOK
  <2>3. OneViolationPerAttack'
    BY <1>4 DEF ReadWar, OneViolationPerAttack
  <2>4. JobOK'
    BY <1>0, <1>1, <1>4 DEF ReadWar, JobOK, TypeOK
  <2> QED BY <2>2, <2>3, <2>4
<1>5. ASSUME NEW r \in Recalcs, job[r].step = "deciding",
             job' = [job EXCEPT ![r].step = "reading", ![r].war = @ + 1, ![r].seen = {}],
             UNCHANGED incomplete
      PROVE  /\ job' \in [Recalcs -> Jobs]
             /\ \A q \in Recalcs : /\ q # r => job'[q] = job[q]
                                   /\ job'[r].step = "reading" /\ job'[r].war = job[r].war + 1
             /\ \A q \in Recalcs, w \in Wars : w < job'[q].war => w \notin incomplete'
  <2>1. [job[r] EXCEPT !.step = "reading", !.war = @ + 1, !.seen = {}] \in Jobs
    <3>1. job[r] \in Jobs /\ job[r].war \in Wars
      BY <1>5 DEF TypeOK, JobOK
    <3>2. job[r].war + 1 \in 1..(Cardinality(Wars) + 1)
      BY <1>0, <3>1
    <3> QED BY <3>1, <3>2 DEF Jobs
  <2>2. job' \in [Recalcs -> Jobs]
    BY <1>5, <2>1 DEF TypeOK
  <2>3. \A q \in Recalcs : /\ q # r => job'[q] = job[q]
                           /\ job'[r].step = "reading" /\ job'[r].war = job[r].war + 1
    BY <1>5 DEF TypeOK, Jobs
  <2>4. job[r].war \in Wars \ incomplete
    BY <1>5 DEF JobOK
  <2>5. \A q \in Recalcs, w \in Wars : w < job'[q].war => w \notin incomplete'
    <3> SUFFICES ASSUME NEW q \in Recalcs, NEW w \in Wars, w < job'[q].war
                 PROVE  w \notin incomplete
      BY <1>5
    <3>1. CASE q # r
      BY <2>3, <3>1 DEF JobOK
    <3>2. CASE q = r
      <4>1. w < job[r].war \/ w = job[r].war
        BY <1>0, <1>1, <2>3, <3>2
      <4> QED BY <2>4, <4>1 DEF JobOK
    <3> QED BY <3>1, <3>2
  <2> QED BY <2>2, <2>3, <2>5
<1>6. ASSUME NEW r \in Recalcs, WriteNothing(r), Watch PROVE Basic'
  <2>1. /\ job' \in [Recalcs -> Jobs]
        /\ \A q \in Recalcs : /\ q # r => job'[q] = job[q]
                              /\ job'[r].step = "reading" /\ job'[r].war = job[r].war + 1
        /\ \A q \in Recalcs, w \in Wars : w < job'[q].war => w \notin incomplete'
    BY <1>5, <1>6 DEF WriteNothing
  <2>2. TypeOK'
    BY <1>6, <2>1 DEF WriteNothing, Watch, TypeOK
  <2>3. OneViolationPerAttack'
    BY <1>6 DEF WriteNothing, OneViolationPerAttack
  <2>4. JobOK'
    BY <1>6, <2>1 DEF WriteNothing, JobOK
  <2> QED BY <2>2, <2>3, <2>4
<1>7. ASSUME NEW r \in Recalcs, Write(r), Watch PROVE Basic'
  <2>1. /\ job' \in [Recalcs -> Jobs]
        /\ \A q \in Recalcs : /\ q # r => job'[q] = job[q]
                              /\ job'[r].step = "reading" /\ job'[r].war = job[r].war + 1
        /\ \A q \in Recalcs, w \in Wars : w < job'[q].war => w \notin incomplete'
    BY <1>5, <1>7 DEF Write
  <2>2. work' \subseteq Rows /\ Unique(work')
    BY <1>1, <1>7, FlushedRows DEF Write, Plan
  <2>3. TypeOK'
    BY <1>7, <2>1, <2>2 DEF Write, Watch, TypeOK
  <2>4. OneViolationPerAttack'
    BY <1>1, <1>7, <2>2 DEF Write, OneViolationPerAttack, Unique
  <2>5. JobOK'
    BY <1>0, <1>7, <2>1 DEF Write, JobOK, TypeOK
  <2> QED BY <2>3, <2>4, <2>5
<1>8. ASSUME NEW r \in Recalcs, Watch, table' \in {Current(r), table},
             job' = [job EXCEPT ![r] = Idle],
             lock' = IF lock = r THEN Nobody ELSE lock,
             work' = IF lock = r THEN {} ELSE work,
             UNCHANGED <<judged, incomplete, shown, edits>>
      PROVE  Basic'
  <2>1. TypeOK'
    BY <1>0, <1>1, <1>8 DEF Watch, TypeOK
  <2>2. OneViolationPerAttack'
    BY <1>1, <1>8 DEF OneViolationPerAttack, Unique
  <2>3. JobOK'
    <3>1. \A q \in Recalcs : job'[q] = IF q = r THEN Idle ELSE job[q]
      BY <1>8 DEF TypeOK
    <3>2. \A w \in Wars : ~(w < Idle.war) /\ Idle.step = "idle"
      BY <1>0 DEF Idle
    <3> QED BY <1>0, <1>8, <3>1, <3>2 DEF JobOK, Idle
  <2> QED BY <2>1, <2>2, <2>3
<1>9. ASSUME NEW r \in Recalcs, Commit(r) \/ Fail(r), Watch PROVE Basic'
  BY <1>8, <1>9 DEF Commit, Fail, AfterFailure
<1>10. ASSUME table' \subseteq Rows, Unique(table'), judged' \in [Attacks -> Decisions],
              shown' \in [Panels -> SUBSET Rows], edits' \in 0..MaxEdits,
              UNCHANGED <<incomplete, lock, work, job>>, Watch
       PROVE  Basic'
  <2>1. TypeOK'
    BY <1>10 DEF TypeOK, Watch
  <2>2. OneViolationPerAttack'
    BY <1>10 DEF OneViolationPerAttack, Unique
  <2>3. JobOK'
    BY <1>10 DEF JobOK
  <2> QED BY <2>1, <2>2, <2>3
<1>11. ASSUME NEW w \in Polled, Poll(w), Watch PROVE Basic'
  <2>1. table \in SUBSET Rows /\ Unique(table) /\ judged \in [Attacks -> Decisions]
        /\ RowsOf(w, table) \in SUBSET Rows
    BY DEF TypeOK, OneViolationPerAttack, Unique, RowsOf
  <2>2. ~Conflict(ToInsert(w, RowsOf(w, table), judged), ToUpdate(RowsOf(w, table), judged), table)
    BY <2>1, NoConflict
  <2>3. table' \subseteq Rows /\ Unique(table')
    BY <1>11, <2>1, <2>2, FlushedRows DEF Poll
  <2> QED BY <1>10, <1>11, <2>3 DEF Poll, TypeOK
<1>12. ASSUME NEW n \in Attacks, Settle(n), Watch PROVE Basic'
  <2>1. judged' \in [Attacks -> Decisions]
    <3>1. judged[n] \in Decisions
      BY DEF TypeOK
    <3>2. [judged[n] EXCEPT !.final = TRUE] \in Decisions
      BY <3>1 DEF Decisions
    <3> QED BY <1>0, <1>12, <3>2 DEF Settle, TypeOK
  <2> QED BY <1>1, <1>10, <1>12, <2>1 DEF Settle, TypeOK, OneViolationPerAttack, Unique
<1>13. ASSUME NEW n \in Attacks, Flag(n), Watch PROVE Basic'
  <2>1. table' \subseteq Rows /\ Unique(table')
    <3>1. CASE \E v \in table : v.attack = n
      <4> DEFINE flagged(v) == IF v.attack = n
                               THEN [v EXCEPT !.code = ClaimedTarget, !.manual = TRUE] ELSE v
      <4>1. table' = {flagged(v) : v \in table}
        BY <1>13, <3>1 DEF Flag
      <4>2. ASSUME NEW v \in table
            PROVE  /\ flagged(v) \in Rows /\ flagged(v).id = v.id
                   /\ flagged(v).attack = v.attack
        <5>1. v \in Rows
          BY DEF TypeOK
        <5> QED BY <5>1 DEF Rows, Codes
      <4> HIDE DEF flagged
      <4>3. \A v, x \in table : v.attack = x.attack \/ v.id = x.id => v = x
        BY DEF OneViolationPerAttack
      <4> QED BY <4>1, <4>2, <4>3 DEF Unique
    <3>2. CASE ~\E v \in table : v.attack = n
      <4> DEFINE new == Inserted({n}, [m \in {n} |-> ClaimedTarget], TRUE, table)
                 code == [m \in {n} |-> ClaimedTarget]
      <4>1. table' = table \cup new /\ LastId(table) < MaxId
        BY <1>13, <3>2 DEF Flag
      <4>2. table \in SUBSET Rows /\ {n} \in SUBSET Attacks /\ TRUE \in BOOLEAN
        BY DEF TypeOK
      <4>3. LastId(table) \in Nat
        BY <1>0, <4>2, LastIdProps
      <4>4. LastId(table) + Cardinality({n}) <= MaxId
        <5>1. Cardinality({n}) = 1
          BY FS_Singleton
        <5> QED BY <1>0, <4>1, <4>3, <5>1
      <4>5. code[n] \in Codes
        BY DEF Codes
      <4>6. new = Inserted({n}, code, TRUE, table)
        OBVIOUS
      <4> HIDE DEF new, code
      <4>7. \A x \in new : x.attack \in {n} /\ x.code = code[x.attack]
        BY <4>2, <4>4, <4>6, InsertedProps, Zenon
      <4>8. \A x \in new : code[x.attack] \in Codes => x \in Rows
        BY <4>2, <4>4, <4>6, InsertedProps, Zenon
      <4>9. \A x \in new, v \in table : v.id # x.id
        BY <4>2, <4>4, <4>6, InsertedProps, Zenon
      <4>10. \A x, y \in new : x = y
        <5> DEFINE row(k) == [id |-> LastId(table) + Cardinality({m \in {n} : m <= k}),
                              attack |-> k, code |-> code[k], manual |-> TRUE]
        <5>1. new = {row(k) : k \in {n}}
          BY <4>6 DEF Inserted
        <5> HIDE DEF row
        <5> QED BY <5>1
      <4>11. \A v, x \in table : v.attack = x.attack \/ v.id = x.id => v = x
        BY DEF OneViolationPerAttack
      <4>12. table' \subseteq Rows
        BY <4>1, <4>2, <4>5, <4>7, <4>8
      <4>13. Unique(table')
        BY <3>2, <4>1, <4>7, <4>9, <4>10, <4>11 DEF Unique
      <4> QED BY <4>12, <4>13
    <3> QED BY <3>1, <3>2
  <2>2. edits' \in 0..MaxEdits
    <3>1. edits < MaxEdits /\ edits' = edits + 1 /\ edits \in 0..MaxEdits
      BY <1>13 DEF Flag, TypeOK
    <3> QED BY <1>0, <3>1
  <2> QED BY <1>10, <1>13, <2>1, <2>2 DEF Flag, TypeOK
<1>14. ASSUME NEW p \in Panels, Show(p), Watch PROVE Basic'
  <2>1. {v \in table : v.manual} \in SUBSET Rows
    BY DEF TypeOK
  <2>2. shown' \in [Panels -> SUBSET Rows]
    BY <1>14, <2>1 DEF Show, TypeOK
  <2> QED BY <1>10, <1>14, <2>2 DEF Show, TypeOK, OneViolationPerAttack, Unique
<1>15. ASSUME NEW p \in Panels, NEW v \in shown[p], Remove(p, v), Watch PROVE Basic'
  <2>1. table' \subseteq Rows /\ Unique(table')
    BY <1>15 DEF Remove, TypeOK, OneViolationPerAttack, Unique
  <2>2. shown' \in [Panels -> SUBSET Rows] /\ edits' \in 0..MaxEdits
    BY <1>0, <1>15 DEF Remove, TypeOK
  <2> QED BY <1>10, <1>15, <2>1, <2>2 DEF Remove, TypeOK
<1> QED
  BY <1>2, <1>3, <1>4, <1>6, <1>7, <1>9, <1>11, <1>12, <1>13, <1>14, <1>15
     DEF Next, RecalcStep

\* The invariant holds in every state of every behaviour.
LEMMA BasicAlways == Spec => []Basic
<1> QED BY BasicInit, BasicStep, PTL DEF Spec

\* The types are right for any constants that meet the assumptions.
THEOREM TypeCorrect == Spec => []TypeOK
<1>1. Basic => TypeOK
  BY DEF Basic
<1> QED BY <1>1, BasicAlways, PTL

\* No interleaving of recalculations, polls and administrators gives an
\* attack two violations, or two violations one number.
THEOREM OnePerAttack == Spec => []OneViolationPerAttack
<1>1. Basic => OneViolationPerAttack
  BY DEF Basic
<1> QED BY <1>1, BasicAlways, PTL

-----------------------------------------------------------------------------
(* How a recalculation ends.                                                *)

\* Only its own commit or rollback ends a recalculation.
LEMMA EndsItself ==
  ASSUME TypeOK, Next, NEW r \in Recalcs, job[r].step # "idle", job'[r].step = "idle"
  PROVE  Commit(r) \/ Fail(r)
<1>1. ASSUME NEW q \in Recalcs, RecalcStep(q) PROVE Commit(r) \/ Fail(r)
  <2>1. CASE q # r
    <3>1. job'[r] = job[r]
      BY <1>1, <2>1 DEF RecalcStep, Start, ReadWar, WriteNothing, Write, Commit, Fail, TypeOK
    <3> QED BY <3>1
  <2>2. CASE q = r
    <3>1. ~Start(r)
      BY DEF Start
    <3>2. ReadWar(r) => job'[r].step = "deciding"
      BY DEF ReadWar, TypeOK, Jobs
    <3>3. WriteNothing(r) \/ Write(r) => job'[r].step = "reading"
      BY DEF WriteNothing, Write, TypeOK, Jobs
    <3> QED BY <1>1, <2>2, <3>1, <3>2, <3>3 DEF RecalcStep
  <2> QED BY <2>1, <2>2
<1>2. (\E q \in Recalcs : RecalcStep(q)) \/ job' = job
  BY DEF Next, Poll, Settle, Flag, Show, Remove
<1> QED BY <1>1, <1>2

\* A recalculation commits when it has passed every war.
LEMMA AllPassed ==
  ASSUME TypeOK, NEW r \in Recalcs, Commit(r)
  PROVE  \A w \in Wars : w < job[r].war
<1>1. /\ Wars = 1..Cardinality(Wars) /\ Cardinality(Wars) \in Nat
      /\ job[r].war \in 1..(Cardinality(Wars) + 1)
  BY RecalculationAssumption, FS_CardinalityType DEF TypeOK, Jobs
<1>2. job[r].war \notin Wars
  BY DEF Commit
<1> QED BY <1>1, <1>2

\* An incomplete roster in any war stops the whole recalculation: what was
\* written for earlier wars does not reach the database.
THEOREM StopsAll == Spec => IncompleteStopsAll
<1>1. Basic /\ [Next]_vars =>
        [\A r \in Recalcs :
           job[r].step # "idle" /\ job'[r].step = "idle" /\ incomplete # {} => table' = table]_vars
  <2> SUFFICES ASSUME Basic, Next, NEW r \in Recalcs, job[r].step # "idle",
                      job'[r].step = "idle", incomplete # {}
               PROVE  table' = table
    OBVIOUS
  <2>1. CASE Commit(r)
    <3>1. \A w \in Wars : w < job[r].war
      BY <2>1, AllPassed DEF Basic
    <3>2. incomplete = {}
      BY <3>1 DEF Basic, JobOK, TypeOK
    <3> QED BY <3>2
  <2>2. CASE Fail(r)
    BY <2>2 DEF Fail, AfterFailure
  <2> QED BY <2>1, <2>2, EndsItself DEF Basic
<1> QED BY <1>1, BasicAlways, PTL DEF Spec, IncompleteStopsAll

-----------------------------------------------------------------------------
(* A recalculation that nothing disturbs.                                   *)

(* The wars passed are as the rules say, and the others as in the table.    *)
Passed(w, view, t, f) ==
  \A n \in Attacks : IF WarOf[n] < w THEN Exact(n, view, t, f) ELSE RowsAt(n, f) = RowsAt(n, t)

Untouched(r) ==
  /\ job[r].loaded = table /\ job[r].view = judged
  /\ Passed(job[r].war, judged, table, Current(r))
  /\ job[r].step = "deciding" => job[r].seen = RowsOf(job[r].war, table)

Undisturbed == \A r \in Recalcs : job[r].step # "idle" /\ ~disturbed[r] => Untouched(r)

\* A war that is reconciled joins the wars passed.
LEMMA PassedNext ==
  ASSUME NEW w \in Nat, NEW view, NEW t, NEW f, NEW g, Passed(w, view, t, f),
         \A n \in Attacks : IF n \in AttacksOf(w) THEN Exact(n, view, f, g)
                            ELSE RowsAt(n, g) = RowsAt(n, f)
  PROVE  Passed(w + 1, view, t, g)
<1> SUFFICES ASSUME NEW n \in Attacks
             PROVE  IF WarOf[n] < w + 1 THEN Exact(n, view, t, g) ELSE RowsAt(n, g) = RowsAt(n, t)
  BY DEF Passed
<1>1. WarOf[n] \in Nat /\ (n \in AttacksOf(w) <=> WarOf[n] = w)
  <2>1. Wars = 1..Cardinality(Wars) /\ Cardinality(Wars) \in Nat /\ WarOf[n] \in Wars
    BY RecalculationAssumption, FS_CardinalityType
  <2> QED BY <2>1 DEF AttacksOf
<1>2. CASE WarOf[n] < w
  <2>1. Exact(n, view, t, f) /\ RowsAt(n, g) = RowsAt(n, f) /\ WarOf[n] < w + 1
    BY <1>1, <1>2 DEF Passed
  <2> QED BY <2>1 DEF Exact
<1>3. CASE WarOf[n] = w
  <2>1. Exact(n, view, f, g) /\ RowsAt(n, f) = RowsAt(n, t) /\ WarOf[n] < w + 1
    BY <1>1, <1>3 DEF Passed
  <2> QED BY <2>1 DEF Exact
<1>4. CASE WarOf[n] > w
  <2>1. RowsAt(n, g) = RowsAt(n, f) /\ RowsAt(n, f) = RowsAt(n, t) /\ ~(WarOf[n] < w + 1)
    BY <1>1, <1>4 DEF Passed
  <2> QED BY <2>1
<1> QED BY <1>1, <1>2, <1>3, <1>4

\* The rows of a war not yet passed are those of the table.
LEMMA SameRows ==
  ASSUME NEW w \in Nat, NEW view, NEW t, NEW f, Passed(w, view, t, f)
  PROVE  RowsOf(w, f) = RowsOf(w, t)
<1>1. ASSUME NEW n \in AttacksOf(w) PROVE RowsAt(n, f) = RowsAt(n, t)
  <2>1. n \in Attacks /\ ~(WarOf[n] < w)
    BY DEF AttacksOf
  <2> QED BY <2>1 DEF Passed
<1>2. ASSUME NEW v, v.attack \in AttacksOf(w) PROVE v \in f <=> v \in t
  <2>1. v \in f <=> v \in RowsAt(v.attack, f)
    BY DEF RowsAt
  <2>2. v \in t <=> v \in RowsAt(v.attack, t)
    BY DEF RowsAt
  <2> QED BY <1>1, <1>2, <2>1, <2>2
<1> QED BY <1>2 DEF RowsOf

\* A flush without writes changes nothing.
LEMMA NothingFlushed ==
  ASSUME NEW t, NEW view
  PROVE  Flushed({}, {}, {}, view, t) = t
<1>1. Inserted({}, [n \in Attacks |-> view[n].code], FALSE, t) = {}
  BY DEF Inserted
<1>2. {x \in t : x.id \notin {d.id : d \in {}}} = t
  OBVIOUS
<1>3. {Rewritten(v, {}, view) : v \in t} = t
  BY DEF Rewritten
<1>4. Flushed({}, {}, {}, view, t) =
        {Rewritten(v, {}, view) : v \in {x \in t : x.id \notin {d.id : d \in {}}}}
          \cup Inserted({}, [n \in Attacks |-> view[n].code], FALSE, t)
  BY DEF Flushed, Rewritten
<1> QED BY <1>1, <1>2, <1>3, <1>4

\* The step of a recalculation that nothing has disturbed leaves it exact.
LEMMA OwnStep ==
  ASSUME Basic, NEW r \in Recalcs, job[r].step # "idle", Untouched(r), RecalcStep(r),
         job'[r].step # "idle", judged' = judged, table' = table
  PROVE  Untouched(r)'
<1>1. /\ job[r].war \in Nat /\ job \in [Recalcs -> Jobs] /\ job[r] \in Jobs
      /\ job[r].view \in [Attacks -> Decisions] /\ table \in SUBSET Rows
      /\ Unique(table) /\ Current(r) \in SUBSET Rows /\ Unique(Current(r))
  BY DEF Basic, TypeOK, Jobs, Current, OneViolationPerAttack, Unique
<1>2. /\ job[r].loaded = table /\ job[r].view = judged
      /\ Passed(job[r].war, judged, table, Current(r))
  BY DEF Untouched
<1>3. RowsOf(job[r].war, Current(r)) = RowsOf(job[r].war, table)
  BY <1>1, <1>2, SameRows
<1>4. CASE ReadWar(r)
  <2>1. \A v \in RowsOf(job[r].war, table) : InMemory(r, v) = v
    BY <1>1, <1>2 DEF InMemory, RowsOf, Unique
  <2>2. {InMemory(r, v) : v \in RowsOf(job[r].war, Current(r))} = RowsOf(job[r].war, table)
    BY <1>3, <2>1
  <2>3. /\ job'[r].seen = RowsOf(job[r].war, table) /\ job'[r].war = job[r].war
        /\ job'[r].loaded = table /\ job'[r].view = judged /\ Current(r)' = Current(r)
    BY <1>1, <1>2, <1>4, <2>2 DEF ReadWar, Jobs, Current
  <2> QED BY <1>2, <2>3 DEF Untouched, Passed
<1>5. ASSUME job[r].step = "deciding",
             job' = [job EXCEPT ![r].step = "reading", ![r].war = @ + 1, ![r].seen = {}],
             Current(r)' = Flushed(Plan(r).ins, Plan(r).upd, Plan(r).del, job[r].view, Current(r)),
             LastId(Current(r)) + Cardinality(Plan(r).ins) <= MaxId
      PROVE  Untouched(r)'
  <2> DEFINE w == job[r].war
             t == Current(r)
             g == Current(r)'
             seen == RowsOf(w, t)
  <2>1. job[r].seen = seen
    BY <1>3, <1>5 DEF Untouched
  <2>2. /\ Plan(r).ins = ToInsert(w, seen, judged) /\ Plan(r).upd = ToUpdate(seen, judged)
        /\ Plan(r).del = ToDelete(seen, judged)
    BY <1>2, <2>1 DEF Plan
  <2>3. g = Flushed(ToInsert(w, seen, judged), ToUpdate(seen, judged), ToDelete(seen, judged),
                    judged, t)
    BY <1>2, <1>5, <2>2
  <2>4. /\ t \in SUBSET Rows /\ Unique(t) /\ judged \in [Attacks -> Decisions]
        /\ LastId(t) + Cardinality(ToInsert(w, RowsOf(w, t), judged)) <= MaxId
    BY <1>1, <1>2, <1>5, <2>2
  <2>5. w \in Nat /\ Passed(w, judged, table, t)
    BY <1>1, <1>2
  <2> HIDE DEF w, t, g
  <2>6. \A n \in Attacks : IF n \in AttacksOf(w) THEN Exact(n, judged, t, g)
                           ELSE RowsAt(n, g) = RowsAt(n, t)
    BY <2>3, <2>4, FlushedExact
  <2>7. Passed(w + 1, judged, table, g)
    BY <2>5, <2>6, PassedNext
  <2>8. /\ job'[r].step = "reading" /\ job'[r].war = w + 1
        /\ job'[r].loaded = table /\ job'[r].view = judged
    BY <1>1, <1>2, <1>5 DEF Jobs, w
  <2> QED BY <2>7, <2>8 DEF Untouched, Passed, g
<1>6. CASE WriteNothing(r)
  <2>1. Plan(r).ins = {} /\ Plan(r).upd = {} /\ Plan(r).del = {}
    BY <1>6 DEF WriteNothing, Writes
  <2>2. Current(r)' = Current(r)
    BY <1>6 DEF WriteNothing, Current
  <2>3. Flushed({}, {}, {}, job[r].view, Current(r)) = Current(r)
    BY NothingFlushed
  <2>4. Cardinality({}) = 0 /\ LastId(Current(r)) \in 0..MaxId /\ MaxId \in Nat
    BY <1>1, FS_EmptySet, LastIdProps, RecalculationAssumption
  <2>5. LastId(Current(r)) + Cardinality(Plan(r).ins) <= MaxId
    BY <2>1, <2>4
  <2> QED BY <1>5, <1>6, <2>1, <2>2, <2>3, <2>5 DEF WriteNothing
<1>7. CASE Write(r)
  <2>1. Current(r)' = work'
    BY <1>7 DEF Write, Current
  <2> QED BY <1>5, <1>7, <2>1 DEF Write
<1>8. ~Start(r)
  BY DEF Start
<1>9. ~Commit(r) /\ ~Fail(r)
  BY <1>1 DEF Commit, Fail, Idle
<1> QED BY <1>4, <1>6, <1>7, <1>8, <1>9 DEF RecalcStep

\* The steps of others change neither a recalculation nor what it sees of
\* the tables, unless they change the tables.
LEMMA OthersStep ==
  ASSUME Basic, NEW r \in Recalcs, Next, ~RecalcStep(r), table' = table
  PROVE  job'[r] = job[r] /\ Current(r)' = Current(r)
<1>0. job \in [Recalcs -> Jobs] /\ Nobody \notin Recalcs
  BY RecalculationAssumption DEF Basic, TypeOK
<1>1. ASSUME NEW q \in Recalcs, RecalcStep(q)
      PROVE  job'[r] = job[r] /\ Current(r)' = Current(r)
  <2>1. q # r
    BY <1>1
  <2>2. job'[r] = job[r]
    BY <1>0, <1>1, <2>1
       DEF RecalcStep, Start, ReadWar, WriteNothing, Write, Commit, Fail
  <2>3. ASSUME Write(q) PROVE Current(r)' = Current(r)
    BY <1>0, <2>1, <2>3 DEF Write, Current
  <2>4. ASSUME Commit(q) \/ Fail(q) PROVE Current(r)' = Current(r)
    BY <1>0, <2>1, <2>4 DEF Commit, Fail, Current
  <2>5. ASSUME Start(q) \/ ReadWar(q) \/ WriteNothing(q) PROVE Current(r)' = Current(r)
    BY <2>5 DEF Start, ReadWar, WriteNothing, Current
  <2>6. Write(q) \/ Commit(q) \/ Fail(q) \/ Start(q) \/ ReadWar(q) \/ WriteNothing(q)
    BY <1>1 DEF RecalcStep
  <2> QED BY <2>2, <2>3, <2>4, <2>5, <2>6
<1>2. CASE UNCHANGED <<lock, work, job>>
  BY <1>2 DEF Current
<1>3. (\E q \in Recalcs : RecalcStep(q)) \/ UNCHANGED <<lock, work, job>>
  BY DEF Next, Poll, Settle, Flag, Show, Remove
<1> QED BY <1>1, <1>2, <1>3

\* A recalculation stays exact until something disturbs it.
LEMMA UndisturbedStep == Basic /\ Undisturbed /\ [Next]_vars => Undisturbed'
<1> SUFFICES ASSUME Basic, Undisturbed, [Next]_vars PROVE Undisturbed'
  OBVIOUS
<1>1. CASE UNCHANGED vars
  BY <1>1 DEF vars, Undisturbed, Untouched, Passed, Current
<1>2. CASE Next
  <2> SUFFICES ASSUME NEW r \in Recalcs, job'[r].step # "idle", ~disturbed'[r]
               PROVE  Untouched(r)'
    BY DEF Undisturbed
  <2>1. job \in [Recalcs -> Jobs] /\ Watch
    BY <1>2 DEF Basic, TypeOK, Next
  <2>2. CASE job[r].step = "idle"
    <3>1. RecalcStep(r)
      <4>1. job'[r] # job[r]
        BY <2>2
      <4>2. (\E q \in Recalcs : RecalcStep(q)) \/ job' = job
        BY <1>2 DEF Next, Poll, Settle, Flag, Show, Remove
      <4>3. \A q \in Recalcs : RecalcStep(q) => (\A p \in Recalcs : p # q => job'[p] = job[p])
        BY <2>1 DEF RecalcStep, Start, ReadWar, WriteNothing, Write, Commit, Fail
      <4> QED BY <4>1, <4>2, <4>3
    <3>2. Start(r)
      <4>1. ~ReadWar(r) /\ ~WriteNothing(r) /\ ~Write(r) /\ ~Commit(r)
        BY <2>2 DEF ReadWar, WriteNothing, Write, Commit
      <4>2. ~Fail(r)
        BY <2>2 DEF Fail
      <4> QED BY <3>1, <4>1, <4>2 DEF RecalcStep
    <3>3. /\ job'[r].step = "reading" /\ job'[r].war = 1 /\ job'[r].loaded = table
          /\ job'[r].view = judged /\ table' = table /\ judged' = judged
      BY <2>1, <3>2 DEF Start, Idle
    <3>4. Current(r)' = table
      BY <2>2, <3>2, <3>3 DEF Start, Current, Basic, JobOK
    <3>5. \A n \in Attacks : ~(WarOf[n] < 1)
      <4>1. Wars = 1..Cardinality(Wars) /\ Cardinality(Wars) \in Nat /\ WarOf \in [Attacks -> Wars]
        BY RecalculationAssumption, FS_CardinalityType
      <4> QED BY <4>1
    <3> QED BY <3>3, <3>4, <3>5 DEF Untouched, Passed
  <2>3. CASE job[r].step # "idle"
    <3>1. ~disturbed[r] /\ judged' = judged /\ table' = table
      BY <2>1, <2>3 DEF Watch
    <3>2. Untouched(r)
      BY <2>3, <3>1 DEF Undisturbed
    <3>3. CASE RecalcStep(r)
      BY <2>3, <3>1, <3>2, <3>3, OwnStep
    <3>4. CASE ~RecalcStep(r)
      <4>1. job'[r] = job[r] /\ Current(r)' = Current(r)
        BY <1>2, <3>1, <3>4, OthersStep
      <4> QED BY <3>1, <3>2, <4>1 DEF Untouched, Passed
    <3> QED BY <3>3, <3>4
  <2> QED BY <2>2, <2>3
<1> QED BY <1>1, <1>2

\* In every state a recalculation that nothing disturbed is exact so far.
LEMMA UndisturbedAlways == Spec => []Undisturbed
<1>1. Init => Undisturbed
  BY DEF Init, Undisturbed, Idle
<1> QED BY <1>1, UndisturbedStep, BasicAlways, PTL DEF Spec

\* A recalculation that nothing disturbs leaves exactly what the rules say,
\* and the rows the administrators have flagged as they were.
THEOREM ExactResult == Spec => ExactIfUndisturbed
<1>1. Basic /\ Undisturbed /\ [Next]_vars =>
        [\A r \in Recalcs :
           (Commit(r) /\ ~disturbed[r]) =>
             \A n \in Attacks : Exact(n, judged, table, table')]_vars
  <2> SUFFICES ASSUME Basic, Undisturbed, Next, NEW r \in Recalcs, Commit(r), ~disturbed[r],
                      NEW n \in Attacks
               PROVE  Exact(n, judged, table, table')
    OBVIOUS
  <2>1. Untouched(r) /\ table' = Current(r)
    BY DEF Undisturbed, Commit
  <2>2. WarOf[n] < job[r].war
    BY AllPassed, RecalculationAssumption DEF Basic
  <2> QED BY <2>1, <2>2 DEF Untouched, Passed
<1>2. ExactIfUndisturbed <=>
        [][\A r \in Recalcs :
             (Commit(r) /\ ~disturbed[r]) =>
               \A n \in Attacks : Exact(n, judged, table, table')]_vars
  BY DEF ExactIfUndisturbed, Exact, RowsAt, Outcome
<1> QED BY <1>1, <1>2, BasicAlways, UndisturbedAlways, PTL DEF Spec
=============================================================================
