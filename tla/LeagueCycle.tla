---------------------------- MODULE LeagueCycle ----------------------------
(***************************************************************************)
(* What the polls record of a season of the clan war league and of capital *)
(* raid weekends: missed attacks, weekends with too few attacks, and the   *)
(* boundary at which a new cycle begins (app/services/war_sync.py,         *)
(* capital_raid_sync.py, period.py).                                       *)
(*                                                                         *)
(* Time is counted in days.  The cycle that begins on day 0 is the current *)
(* one; the season of the model may end it.  A poll fetches the league,    *)
(* writes and commits it, and then does the same for the raids; it may     *)
(* fail before either commit, and leaves no trace then.                    *)
(***************************************************************************)
EXTENDS Integers, Sequences, FiniteSets

CONSTANTS Members,    \* players of the clan, in the lineup of every round
          RoundEnd,   \* the end of each round of the league, by its number
          WeekendEnd, \* the end of each raid weekend
          LastDay     \* bound: the calendar stops

Rounds   == 1..Len(RoundEnd)
Weekends == DOMAIN WeekendEnd

ASSUME LeagueCycleAssumption ==
  /\ LastDay \in Nat
  /\ RoundEnd \in Seq(1..LastDay)
  /\ \A r, s \in Rounds : r < s => RoundEnd[r] < RoundEnd[s]
  /\ WeekendEnd \in [Weekends -> 1..LastDay]

Days  == 0..LastDay
Empty == [rounds |-> 0, over |-> {}, attacks |-> {}]

VARIABLES
  today,     \* the clock
  published, \* rounds whose wars the league's group names
  attacks,   \* <<round, player>> in the wars' answers
  missed,    \* violations: league attacks missed
  raids,     \* capital_raid_violations
  boundary,  \* cycle_boundaries: the row of this season, 0 if there is none
  poll,      \* the job: "idle", "league" or "raids"
  answer,    \* what the job has fetched of the league
  settled    \* history: the answer committed last

world == <<today, published, attacks>>
leagueVars == <<world, missed, raids, boundary, poll, answer, settled>>

-----------------------------------------------------------------------------
LeagueInit ==
  /\ today = 0 /\ published = 0 /\ attacks = {}
  /\ missed = {} /\ raids = {} /\ boundary = 0
  /\ poll = "idle" /\ answer = Empty /\ settled = Empty

\* The game.  An attack made in time may be seen a day late.
Tick ==
  /\ today < LastDay
  /\ today' = today + 1
  /\ UNCHANGED <<published, attacks, missed, raids, boundary, poll, answer, settled>>

Publish ==
  /\ published + 1 \in Rounds
  /\ today <= RoundEnd[published + 1]
  /\ published' = published + 1
  /\ UNCHANGED <<today, attacks, missed, raids, boundary, poll, answer, settled>>

Attack == \E r \in 1..published, p \in Members :
  /\ today <= RoundEnd[r] + 1
  /\ attacks' = attacks \cup {<<r, p>>}
  /\ UNCHANGED <<today, published, missed, raids, boundary, poll, answer, settled>>

-----------------------------------------------------------------------------
(* The job.                                                                *)
FetchLeague ==
  /\ poll = "idle" /\ poll' = "league"
  /\ LET over == {r \in 1..published : RoundEnd[r] <= today}
     IN answer' = [rounds |-> published, over |-> over,
                   attacks |-> {m \in attacks : m[1] \in over}]
  /\ UNCHANGED <<world, missed, raids, boundary, settled>>

\* Whom the answer accuses; rounds that had not ended are left alone.
MissedIn(a) == {m \in a.over \X Members : m \notin a.attacks}
MutantKept(a) == missed  \* mutated
Kept(a) == {m \in missed : m[1] \notin a.over}

\* The latest end among the rounds published so far, when it has passed.
LastEnd(a) == IF a.rounds = 0 THEN 0 ELSE RoundEnd[a.rounds]
MutantBoundaryAfter(a) ==  \* mutated
  LET ends == {RoundEnd[r] : r \in {s \in 1..a.rounds : RoundEnd[s] <= today}}
  IN IF ends = {} THEN boundary ELSE CHOOSE e \in ends : \A f \in ends : f <= e
BoundaryAfter(a) == IF a.rounds > 0 /\ LastEnd(a) <= today THEN LastEnd(a) ELSE boundary

CommitLeague ==
  /\ poll = "league" /\ poll' = "raids"
  /\ missed' = Kept(answer) \cup MissedIn(answer)
  /\ boundary' = BoundaryAfter(answer)
  /\ settled' = answer /\ answer' = Empty
  /\ UNCHANGED <<world, raids>>

\* Participants and violations of every weekend that is over and that the
\* answer tells of are replaced by those of the answer, which may leave out
\* players that an earlier one listed.
CommitRaids ==
  /\ poll = "raids" /\ poll' = "idle"
  /\ \E told \in SUBSET {w \in Weekends : WeekendEnd[w] <= today} :
       \E idle \in SUBSET (told \X Members) :
         raids' = {v \in raids : v[1] \notin told} \cup idle
  /\ UNCHANGED <<world, missed, boundary, answer, settled>>

\* No league is on, or its group cannot be read: the raids are next.
NoLeague ==
  /\ poll = "idle" /\ poll' = "raids"
  /\ UNCHANGED <<world, missed, raids, boundary, answer, settled>>

PollFails ==
  /\ poll # "idle" /\ poll' = "idle" /\ answer' = Empty
  /\ UNCHANGED <<world, missed, raids, boundary, settled>>

LeagueNext ==
  \/ Tick \/ Publish \/ Attack
  \/ FetchLeague \/ NoLeague \/ CommitLeague \/ CommitRaids \/ PollFails

LeagueSpec == LeagueInit /\ [][LeagueNext]_leagueVars

-----------------------------------------------------------------------------
LeagueTypeOK ==
  /\ today \in Days /\ published \in Rounds \cup {0}
  /\ attacks \subseteq Rounds \X Members
  /\ missed \subseteq Rounds \X Members
  /\ raids \subseteq Weekends \X Members
  /\ boundary \in Days
  /\ poll \in {"idle", "league", "raids"}
  /\ \A a \in {answer, settled} :
       /\ a.rounds \in 0..published /\ a.over \subseteq 1..a.rounds
       /\ a.attacks \subseteq attacks

\* An accusation of a missed attack stands exactly as long as the last
\* complete poll did not show the attack: one that turns up late, after the
\* round was over and the violation announced, withdraws it; polls that
\* failed in between change nothing.
AccusedByLastAnswer == missed = MissedIn(settled)

\* The cycle ends with the season's last round.  A poll that sees the latest
\* round it knows to be over has recorded its end; while rounds are still to
\* be published that may be too early, and the boundary then only moves
\* forward, to a round after which the poll knew of no other.
BoundaryIsLatestRound ==
  /\ boundary <= today
  /\ boundary # 0 => \E r \in 1..settled.rounds : boundary = RoundEnd[r]
  /\ settled.rounds \in settled.over => boundary = LastEnd(settled)
BoundaryMovesForward ==
  [][boundary' # boundary =>
       /\ boundary' > boundary
       /\ \A r \in 1..settled'.rounds : RoundEnd[r] <= boundary']_leagueVars
=============================================================================
