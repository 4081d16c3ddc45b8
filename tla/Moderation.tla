------------------------------ MODULE Moderation ------------------------------
(***************************************************************************)
(* Moderation of the clan's chat: TextModerationMiddleware                 *)
(* (app/bot/middlewares/text_moderation.py) acts on abusive messages as    *)
(* they arrive, NsfwModerationMiddleware queues media for the one worker   *)
(* of NsfwModerationService (app/services/nsfw_moderation.py), and         *)
(* administrators lift mutes and change the worker's settings              *)
(* (app/bot/handlers/moderation_admin.py).                                 *)
(*                                                                         *)
(* A mute is two things kept in two places one after the other: a          *)
(* restriction at Telegram and a row of chat_moderation_mutes.  All of     *)
(* this runs concurrently; a step is what happens between two awaits.      *)
(*                                                                         *)
(* One chat, a supergroup.  Whether a message's deletion succeeds changes  *)
(* nothing else, and is left out.                                          *)
(* The end of a mute is kept as the ticks that are left.                   *)
(***************************************************************************)
EXTENDS Integers, Sequences, FiniteSets, FiniteSetsExt

CONSTANTS Users,              \* authors
          Messages, Media,    \* messages; those with media (others are abusive texts)
          Author,             \* [Messages -> Users]
          QueueMax,           \* queue_max_size
          TextMute, MediaMute,\* mute_minutes of either kind, in ticks
          Admins,             \* the bot's administrators, one handler of each at a time
          MaxOps,             \* bound: mutes administrators lift, settings they change
          MaxFaults           \* bound: calls that fail, restarts

ASSUME ModerationAssumption ==
  /\ Media \subseteq Messages
  /\ Author \in [Messages -> Users]
  /\ QueueMax \in Nat \ {0} /\ TextMute \in Nat \ {0} /\ MediaMute \in Nat \ {0}
  /\ MaxOps \in Nat /\ MaxFaults \in Nat
  /\ IsFiniteSet(Users) /\ IsFiniteSet(Messages) /\ IsFiniteSet(Admins)
  /\ "settings" \notin Users

Longest == IF TextMute < MediaMute THEN MediaMute ELSE TextMute
Left    == 0..Longest
MuteIds == 1..(Cardinality(Users) + MaxOps)
NoRow   == 0
Settings == [enabled : BOOLEAN, interval : {"short", "long"}]
Changes  == {"on", "off", "short", "long"}

VARIABLES
  work,       \* per message: stage, ticks its mute has left, row its record found
  queue,      \* asyncio.Queue
  worker,     \* "busy" with a message, or "idle": waiting for one, or in its pause
  runtime,    \* NsfwModerationService._runtime
  stored,     \* the row of nsfw_moderation_settings
  mutes,      \* chat_moderation_mutes: id -> author and ticks left
  restricted, \* Telegram: ticks left of each author's restriction
  panel,      \* per administrator: the handler under way
  trace,      \* history: whether operations on the same thing kept apart
  ops, faults \* bounds

vars == <<work, queue, worker, runtime, stored, mutes, restricted, panel, trace,
          ops, faults>>

Unsent == [stage |-> "unsent", left |-> 0, row |-> NoRow]
Over   == [stage |-> "over", left |-> 0, row |-> NoRow]
Idle == [pc |-> "idle"]

Init ==
  /\ work = [m \in Messages |-> Unsent]
  /\ queue = <<>>
  /\ worker = "idle"
  /\ stored \in {s \in Settings : s.interval = "short"}
  /\ runtime = stored
  /\ mutes = <<>>
  /\ restricted = [u \in Users |-> 0]
  /\ panel = [a \in Admins |-> Idle]
  /\ trace = [x \in Users \cup {"settings"} |-> "agree"]
  /\ ops = 0
  /\ faults = 0

Fault == faults < MaxFaults /\ faults' = faults + 1

-----------------------------------------------------------------------------
(* History.  Operations on x (an author's mute, the settings) are apart or  *)
(* overlap; one that is alone and succeeds leaves the two places it writes  *)
(* in agreement, one that overlaps or fails half way may not.               *)
Muting(m) == work[m].stage \in {"restricting", "recording", "saving"}
Lifting(a) == panel[a].pc \in {"restoring", "removing"}
Changing(a) == panel[a].pc \in {"changing", "applying"}
Operations(x) ==
  IF x = "settings" THEN Cardinality({a \in Admins : Changing(a)})
  ELSE Cardinality({m \in Messages : Muting(m) /\ Author[m] = x})
       + Cardinality({a \in Admins : Lifting(a) /\ panel[a].user = x})

Begun(t, x) == [t EXCEPT ![x] = IF Operations(x) > 0 THEN "mixed" ELSE @]
Ended(t, x, outcome) ==
  [t EXCEPT ![x] = IF Operations(x) > 1 THEN "mixed"
                   ELSE IF @ = "mixed" \/ outcome = "half" THEN "differ"
                   ELSE IF outcome = "done" THEN "agree" ELSE @]
\* A row whose number now belongs to another author.
Strayed(t, id, u) ==
  IF id \in DOMAIN mutes /\ mutes[id].user # u
  THEN [t EXCEPT ![mutes[id].user] = IF @ = "mixed" THEN @ ELSE "differ"] ELSE t

-----------------------------------------------------------------------------
(* Messages arrive.                                                         *)
Stage(m, stage) == work' = [work EXCEPT ![m].stage = stage]

\* A match is acted on; nothing handles the message further.
TextMatched(m) ==
  /\ m \notin Media /\ work[m].stage = "unsent"
  /\ Stage(m, "judging")
  /\ UNCHANGED <<queue, worker, runtime, stored, mutes, restricted, panel, trace,
                 ops, faults>>

\* enqueue.  A message that finds the queue full is deleted.
Enqueue(m) ==
  /\ m \in Media /\ work[m].stage = "unsent"
  /\ runtime.enabled
  /\ Len(queue) < QueueMax
  /\ queue' = Append(queue, m)
  /\ Stage(m, "queued")
  /\ UNCHANGED <<worker, runtime, stored, mutes, restricted, panel, trace, ops, faults>>

-----------------------------------------------------------------------------
(* The worker.  Its pause between two messages is time that passes.         *)
Take ==
  /\ worker = "idle" /\ queue # <<>>
  /\ queue' = Tail(queue)
  /\ IF runtime.enabled THEN worker' = "busy" /\ Stage(Head(queue), "judging")
     ELSE UNCHANGED worker /\ work' = [work EXCEPT ![Head(queue)] = Over]
  /\ UNCHANGED <<runtime, stored, mutes, restricted, panel, trace, ops, faults>>

\* The bot is done with a message.
Finish(m) ==
  /\ work' = [work EXCEPT ![m] = Over]
  /\ worker' = IF m \in Media THEN "idle" ELSE worker

-----------------------------------------------------------------------------
(* _process and _apply_action of the worker, __call__ of the text           *)
(* middleware.  Judging is the scan of a medium, the deletion and the       *)
(* question for the author's status; restriction and record follow.         *)
JudgeFails(m) ==
  /\ work[m].stage = "judging" /\ Fault
  /\ Finish(m)
  /\ UNCHANGED <<queue, runtime, stored, mutes, restricted, panel, trace, ops>>

\* Harmless media, and authors who are administrators of the chat now.
Spare(m) ==
  /\ work[m].stage = "judging"
  /\ Finish(m)
  /\ UNCHANGED <<queue, runtime, stored, mutes, restricted, panel, trace, ops, faults>>

BeginMute(m) ==
  /\ work[m].stage = "judging"
  /\ work' = [work EXCEPT ![m].stage = "restricting",
                          ![m].left = IF m \in Media THEN MediaMute ELSE TextMute]
  /\ trace' = Begun(trace, Author[m])
  /\ UNCHANGED <<queue, worker, runtime, stored, mutes, restricted, panel, ops, faults>>

RestrictAuthor(m) ==
  /\ work[m].stage = "restricting"
  /\ restricted' = [restricted EXCEPT ![Author[m]] = work[m].left]
  /\ Stage(m, "recording")
  /\ UNCHANGED <<queue, worker, runtime, stored, mutes, panel, trace, ops, faults>>

\* The call fails, with or without effect.
RestrictFails(m) ==
  /\ work[m].stage = "restricting" /\ Fault
  /\ \/ /\ UNCHANGED restricted
        /\ trace' = Ended(trace, Author[m], "nothing")
     \/ /\ restricted' = [restricted EXCEPT ![Author[m]] = work[m].left]
        /\ trace' = Ended(trace, Author[m], "half")
  /\ Finish(m)
  /\ UNCHANGED <<queue, runtime, stored, mutes, panel, ops>>

\* record_mute: the row of the author, if there is one ...
MuteOf(u) == {id \in DOMAIN mutes : mutes[id].user = u}
FindRow(m) ==
  /\ work[m].stage = "recording"
  /\ work' = [work EXCEPT ![m].stage = "saving",
       ![m].row = IF MuteOf(Author[m]) = {} THEN NoRow ELSE CHOOSE id \in MuteOf(Author[m]) : TRUE]
  /\ UNCHANGED <<queue, worker, runtime, stored, mutes, restricted, panel, trace,
                 ops, faults>>

\* ... is changed, or one inserted, and committed.  The insertion is refused
\* when the author has a row by now, the change when that row is gone.
NextId == Max(DOMAIN mutes \cup {NoRow}) + 1
With(id, u, left) ==
  [i \in DOMAIN mutes \cup {id} |-> IF i = id THEN [user |-> u, left |-> left] ELSE mutes[i]]

Refused(m) ==
  IF work[m].row = NoRow THEN MuteOf(Author[m]) # {} ELSE work[m].row \notin DOMAIN mutes

MutantRecorded(m) ==                              \* mutated: the old end is kept
  IF work[m].row = NoRow THEN With(NextId, Author[m], work[m].left) ELSE mutes
Recorded(m) ==
  IF work[m].row = NoRow THEN With(NextId, Author[m], work[m].left)
  ELSE With(work[m].row, mutes[work[m].row].user, work[m].left)

Record(m) ==
  /\ work[m].stage = "saving" /\ ~Refused(m)
  /\ mutes' = Recorded(m)
  /\ trace' = LET own == work[m].row = NoRow \/ mutes[work[m].row].user = Author[m]
              IN  Ended(Strayed(trace, work[m].row, Author[m]), Author[m],
                        IF own THEN "done" ELSE "half")
  /\ Finish(m)
  /\ UNCHANGED <<queue, runtime, stored, restricted, panel, ops, faults>>

\* The failure is logged and goes no further.
RecordFails(m) ==
  /\ work[m].stage \in {"recording", "saving"}
  /\ \/ work[m].stage = "saving" /\ Refused(m) /\ UNCHANGED faults
     \/ Fault
  /\ trace' = Ended(trace, Author[m], "half")
  /\ Finish(m)
  /\ UNCHANGED <<queue, runtime, stored, mutes, restricted, panel, ops>>

-----------------------------------------------------------------------------
(* Administrators lift a mute: from the list, or by the author's number.    *)
Operation == ops < MaxOps /\ ops' = ops + 1
Panel(a, p) == panel' = [panel EXCEPT ![a] = p]

\* moderation_confirm reads the row and calls Telegram.  Keyboards are kept
\* for as long as one likes and hold the row's number alone: any row there
\* is may be named, expired or not, and one that is gone is only reported.
Confirm(a) ==
  /\ panel[a].pc = "idle"
  /\ Operation
  /\ \E id \in DOMAIN mutes :
       /\ Panel(a, [pc |-> "restoring", id |-> id, user |-> mutes[id].user])
       /\ trace' = Begun(trace, mutes[id].user)
  /\ UNCHANGED <<work, queue, worker, runtime, stored, mutes, restricted, faults>>

\* moderation_manual_user_id: no row is looked for.
LiftByNumber(a) ==
  /\ panel[a].pc = "idle"
  /\ Operation
  /\ \E u \in Users :
       /\ Panel(a, [pc |-> "restoring", id |-> NoRow, user |-> u])
       /\ trace' = Begun(trace, u)
  /\ UNCHANGED <<work, queue, worker, runtime, stored, mutes, restricted, faults>>

Restore(a) ==
  /\ panel[a].pc = "restoring"
  /\ restricted' = [restricted EXCEPT ![panel[a].user] = 0]
  /\ Panel(a, [panel[a] EXCEPT !.pc = "removing"])
  /\ UNCHANGED <<work, queue, worker, runtime, stored, mutes, trace, ops, faults>>

RestoreFails(a) ==
  /\ panel[a].pc = "restoring" /\ Fault
  /\ \/ /\ UNCHANGED restricted
        /\ trace' = Ended(trace, panel[a].user, "nothing")
     \/ /\ restricted' = [restricted EXCEPT ![panel[a].user] = 0]
        /\ trace' = Ended(trace, panel[a].user, "half")
  /\ Panel(a, Idle)
  /\ UNCHANGED <<work, queue, worker, runtime, stored, mutes, ops>>

Without(ids) == [i \in DOMAIN mutes \ ids |-> mutes[i]]

\* remove by the row's number, remove_for_user by the author.
Removed(a) == IF panel[a].id = NoRow THEN MuteOf(panel[a].user) ELSE {panel[a].id}
RemoveRecord(a) ==
  /\ panel[a].pc = "removing"
  /\ mutes' = Without(Removed(a))
  /\ trace' = Ended(Strayed(trace, panel[a].id, panel[a].user), panel[a].user, "done")
  /\ Panel(a, Idle)
  /\ UNCHANGED <<work, queue, worker, runtime, stored, restricted, ops, faults>>

RemoveFails(a) ==
  /\ panel[a].pc = "removing" /\ Fault
  /\ trace' = Ended(trace, panel[a].user, "half")
  /\ Panel(a, Idle)
  /\ UNCHANGED <<work, queue, worker, runtime, stored, mutes, restricted, ops>>

-----------------------------------------------------------------------------
(* update_runtime: read the row, change and commit it, then use it.  A      *)
(* column is written only if it differs from what was read; what is used is *)
(* the row as it was read.                                                  *)
Changed(s, change) ==
  IF change \in {"on", "off"} THEN [s EXCEPT !.enabled = (change = "on")]
  ELSE [s EXCEPT !.interval = change]

Written(seen, change) ==
  IF Changed(seen, change) = seen THEN stored ELSE Changed(stored, change)

BeginChange(a) ==
  /\ panel[a].pc = "idle"
  /\ Operation
  /\ \E change \in Changes : Panel(a, [pc |-> "changing", change |-> change, seen |-> stored])
  /\ trace' = Begun(trace, "settings")
  /\ UNCHANGED <<work, queue, worker, runtime, stored, mutes, restricted, faults>>

CommitChange(a) ==
  /\ panel[a].pc = "changing"
  /\ stored' = Written(panel[a].seen, panel[a].change)
  /\ Panel(a, [panel[a] EXCEPT !.pc = "applying"])
  /\ UNCHANGED <<work, queue, worker, runtime, mutes, restricted, trace, ops, faults>>

MutantChangeFails(a) ==                           \* mutated: used before it is stored
  /\ panel[a].pc = "changing" /\ Fault
  /\ runtime' = Changed(panel[a].seen, panel[a].change)
  /\ trace' = Ended(trace, "settings", "nothing")
  /\ Panel(a, Idle)
  /\ UNCHANGED <<work, queue, worker, stored, mutes, restricted, ops>>

ChangeFails(a) ==
  /\ panel[a].pc = "changing" /\ Fault
  /\ trace' = Ended(trace, "settings", "nothing")
  /\ Panel(a, Idle)
  /\ UNCHANGED <<work, queue, worker, runtime, stored, mutes, restricted, ops>>

UseChange(a) ==
  /\ panel[a].pc = "applying"
  /\ runtime' = Changed(panel[a].seen, panel[a].change)
  /\ trace' = Ended(trace, "settings", "done")
  /\ Panel(a, Idle)
  /\ UNCHANGED <<work, queue, worker, stored, mutes, restricted, ops, faults>>

-----------------------------------------------------------------------------
Sooner(n) == IF n = 0 THEN 0 ELSE n - 1
Tick ==
  /\ restricted' = [u \in Users |-> Sooner(restricted[u])]
  /\ mutes' = [id \in DOMAIN mutes |-> [mutes[id] EXCEPT !.left = Sooner(@)]]
  /\ work' = [m \in Messages |-> [work[m] EXCEPT !.left = Sooner(@)]]
  /\ UNCHANGED <<queue, worker, runtime, stored, panel, trace, ops, faults>>

(* The process ends, in an orderly way or not: the queue and what is under  *)
(* way are gone.  The next one loads its settings (initialize) and may get  *)
(* a text again that was under way and not confirmed to Telegram.           *)
Restart ==
  /\ Fault
  /\ \E again \in BOOLEAN :
       work' = [m \in Messages |->
         IF work[m].stage = "unsent" \/ (again /\ m \notin Media /\ work[m].stage # "over")
         THEN Unsent ELSE Over]
  /\ queue' = <<>>
  /\ worker' = "idle"
  /\ runtime' = stored
  /\ panel' = [a \in Admins |-> Idle]
  /\ trace' = [x \in DOMAIN trace |->
                 IF x = "settings" THEN "agree"
                 ELSE IF Operations(x) > 0 THEN "differ" ELSE trace[x]]
  /\ UNCHANGED <<stored, mutes, restricted, ops>>

Moderate(m) == \/ JudgeFails(m) \/ Spare(m) \/ BeginMute(m) \/ RestrictAuthor(m)
               \/ RestrictFails(m) \/ FindRow(m) \/ Record(m) \/ RecordFails(m)
Arrive(m) == TextMatched(m) \/ Enqueue(m)
Administer(a) == \/ Confirm(a) \/ LiftByNumber(a) \/ Restore(a)
                 \/ RestoreFails(a) \/ RemoveRecord(a) \/ RemoveFails(a)
                 \/ BeginChange(a) \/ CommitChange(a) \/ ChangeFails(a) \/ UseChange(a)
Next == \/ \E m \in Messages : Arrive(m) \/ Moderate(m)
        \/ \E a \in Admins : Administer(a)
        \/ Take \/ Tick \/ Restart

Spec == Init /\ [][Next]_vars

-----------------------------------------------------------------------------
TypeOK ==
  /\ work \in [Messages -> [stage : {"unsent", "queued", "judging", "restricting", "recording",
                                     "saving", "over"},
                            left : Left, row : MuteIds \cup {NoRow}]]
  /\ Len(queue) <= QueueMax
  /\ {queue[i] : i \in DOMAIN queue} = {m \in Media : work[m].stage = "queued"}
  /\ worker \in {"idle", "busy"}
  /\ runtime \in Settings /\ stored \in Settings
  /\ DOMAIN mutes \subseteq MuteIds
  /\ \A id \in DOMAIN mutes : mutes[id] \in [user : Users, left : Left]
  /\ restricted \in [Users -> Left]
  /\ DOMAIN panel = Admins
  /\ trace \in [Users \cup {"settings"} -> {"agree", "mixed", "differ"}]
  /\ ops \in 0..MaxOps /\ faults \in 0..MaxFaults

(* The list administrators see is the truth about an author: he is listed   *)
(* exactly while Telegram restricts him and to the same end, if the         *)
(* operations on him never overlapped, none failed half way and no row took *)
(* the number of his.  With TextMute # MediaMute an overlap may even leave  *)
(* him restricted with a row that has expired.                              *)
Listed(u) == IF MuteOf(u) = {} THEN 0 ELSE mutes[CHOOSE id \in MuteOf(u) : TRUE].left
ListMatchesTelegram ==
  \A u \in Users :
    (trace[u] = "agree" /\ Operations(u) = 0) => restricted[u] = Listed(u)

(* The filter runs with the settings that are stored, and therefore goes on *)
(* with them after a restart, unless two changes overlapped: a change that  *)
(* fails is not used, one that is used is stored.                           *)
RuntimeMatchesStored ==
  (trace["settings"] = "agree" /\ Operations("settings") = 0) => runtime = stored
====
