# A verification development of cocBot2

cocBot2 is a Telegram bot for a clan of Clash of Clans players. It polls the
game's API, keeps the clan's roster, wars, attacks and violations in an SQLite
database, tells the clan's administrators of violations and returning players,
and lets them correct what it recorded. This directory holds TLA+ models of the
bot, the TLC configurations that check them and proofs that TLAPS checks.

All paths below are relative to the repository; `app/` is `src/app/` in
`PROJECT.json`.

## The system

One process, one asyncio event loop, one SQLite database through SQLAlchemy
(`expire_on_commit=False`, no `PRAGMA foreign_keys`, no `AUTOINCREMENT`). Three
kinds of activities interleave at their awaits:

* jobs of APScheduler (`app/jobs/scheduler.py`): `sync_wars`,
  `sync_clan_members`, `housekeeping`. `max_instances=1` and `coalesce`: a job
  never overlaps with itself; different jobs do overlap;
* handlers of Telegram updates (aiogram, concurrent): menus, conversations whose
  state is in memory, confirmations by inline keyboards that outlive the state
  they were made from;
* workers: the security monitor and the media moderation worker.

They share the database. A session begins a transaction with its first *write*
(the driver's default), so reads before it are not protected, and holds the only
write lock from then to its commit or rollback. An exception that leaves a job's
`async with session_maker()` rolls the transaction back; Telegram messages sent
in between stay sent.

| Component | State | Operations | Interacts with | Correct when |
|---|---|---|---|---|
| positional rules `app/domain/violation_rules.py` | none | decide all attacks of a war | called by poll and recalculation | equals the rule as stated; a final decision is never revised |
| war poll `app/services/war_sync.py` | wars, participants, attacks, violations, notification marks, cycle boundary | fetch, store, reconcile, notify, league rounds, commit | API, rules, notifier, counter | rows follow the rules; nothing is announced twice without cause or withdrawn; manual rows survive; a missed league attack stands as long as the API says so |
| notifier `app/services/notifications.py` | `admin_notification_history` | `notify_once` | part of the caller's transaction | every administrator attempted once per event |
| recalculation `app/services/violation_recalculation.py` | violations | one transaction over the cycle | poll, manual violations | exactly the rules' rows; all or nothing |
| manual violations `app/services/manual_violation.py`, `app/bot/handlers/admin_panel.py` | violations | flag an attack, remove by keyboard | poll, recalculation | only administrators change them; what is removed is what was shown |
| roster job `app/services/clan_sync.py` | players, memberships, returns, archive, donation snapshots | roster, announce, snapshots, purge | API, notifier, registration, periods | memberships match players; returns not lost; purge only after a full cycle |
| registration, links `app/services/registration.py`, `admin_player_link.py` | telegram users, links, players | register, link, unlink | roster job | a tag has one owner; a user registers one player; no effect on memberships |
| violation counter `app/services/active_violation_counter.py` | resets | count, reduce, restore | violations, capital raids, cycle | reductions never exceed violations |
| manual contribution `app/repositories/manual_contribution.py` | adjustments | add with a token | dialogues in memory, roster job | one confirmation, one adjustment, for the player shown |
| contribution `app/domain/dev_contribution.py`, `app/services/dev_contribution.py` | derived | score attacks, fine unused ones, rank | attacks, violations, memberships | a star is paid once; scores shown stand; no fine for attacks made |
| donations `app/services/donations.py` | snapshots of the game's counter | sum over a cycle | roster job | nothing counted twice over resets and cycles |
| capital raids `app/services/capital_raid_sync.py` | weekends, participants, raid violations | replace a finished weekend | API, counter | violations match the participants stored |
| report dialogues `app/bot/handlers/admin.py`, `admin_panel.py` | FSM state and data in memory, messages in the chat | numbered lists, panel of periods | all read-only services | a report is of what was asked for |
| security monitor `app/security/` | state file, counters in memory | check, alert, recover | Telegram, start-up, every update | alerts not lost by deduplication; incidents closed |
| update audit `app/security/audit.py`, `scripts/incident_report.py` | hash-chained files | append, rotate, verify | the bot and scripts as writers | the chain verifies unless something was tampered with |
| conversation log `app/conversations/`, `app/services/conversation_history.py` | a journal per chat | append, rotate, page back | every update, the administrator's screens | reading back misses no record |
| moderation `app/services/nsfw_moderation.py`, `app/bot/middlewares/` | bounded queue, mutes | enqueue, scan, delete, restrict, unmute | Telegram, handlers | an accepted item is decided once; a mute is recorded |
| lifecycle `app/main.py`, `app/services/startup_sync.py` | tasks | check, sync with retries, poll, shut down | monitor, scheduler | nothing runs without the monitor; the end is reached |
| statistics, exports, other scripts | derived | queries, formatting, files | | |

What is hard to test: a failure between a message and the commit that should
remember it; administrators' writes between the reads and the writes of a job; a
session that does not refresh what it holds; row numbers that are used again;
keyboards and dialogues older than the data; two messages of one administrator
handled at once; decisions that wait for a later attack, a clock or the end of a
war; partial answers of the API; the order in which polls happen to see attacks;
crashes between the roster's commit and what follows it. `PROJECT.json` lists each hazard with its
line and the properties that would catch it going wrong, or why none does. Where the code
lets a race happen (a confirmation pressed twice at once, two reductions from one count,
two owners of a tag, two registrations or two changes of settings at once, a restart
before a mute is recorded) the property does not exclude it: it shows that this race is
the only way to the harm, and the note says so.

## Modules

| Module | What it is |
|---|---|
| `ViolationRules`, `ViolationRulesProofs` | the rules as a pure operator `Decide`, in closed form over sets; what holds of it in every war |
| `MCViolationRules` | a war that grows attack by attack, the loops of the source as a reference definition, and the rules' properties |
| `ViolationLedger` | abstract specification: what administrators are promised about a war's violations |
| `WarSync` | the poll of one war, notifications, administrators; extends `ViolationRules`, implements `ViolationLedger` |
| `WarSyncProofs`, `MCWarSync` | TLAPS proofs about `WarSync`; rosters and possible attacks for TLC |
| `LeagueCycle` | a season of the clan war league and raid weekends as the polls record them |
| `ViolationCounter` | the counter of active violations and its reductions; extends `LeagueCycle`, whose polls change what is counted |
| `Recalculation`, `MCRecalculation` | the table of violations under all its writers |
| `MCCycle`, `CycleProofs` | composes `ViolationCounter` and `Recalculation` for TLC, as sections; proofs about them |
| `ClanMembership`, `ClanMembershipProofs`, `MCClanMembership` | the roster job and registration; proofs |
| `ManualPoints` | the two dialogues that give points, and the row numbers of the players they are given to |
| `AccountLinks` | who owns which player: registration, administrators' links |
| `AdminDeskProofs` | proofs about both |
| `MCAdminDesk` | composes the two for TLC, as sections |
| `ContributionScore` | what an attack, or one not made, is worth: pure operators on `ViolationRules`'s codes |
| `ContributionRanking` | the ranking over a war that goes on, with verdicts, members and cycles that change; extends `ContributionScore` |
| `Donations` | snapshots of the game's counter and the sum over a cycle |
| `ReportDialogs` | the dialogues of an administrator who asks for reports |
| `MCWarScores` | composes rules, ranking, donations and dialogues for TLC, as sections |
| `WarScoresProofs` | proofs about the rules over successive polls and the source's loops, the scores, the ranking, the donations and the dialogues |
| `SecurityMonitor`, `SecurityMonitorProofs` | the monitor of the bot's account, its state file, the update audit's marks, and the life of the process; proofs about it and about all files of JSON lines |
| `JsonLines` | files of JSON lines with torn lines, their rotation, and the objects in them |
| `AuditTrail` | the hash chain of the audit and the report that verifies it; extends `JsonLines` |
| `MCSecurityMonitor` | composes `SecurityMonitor` and `AuditTrail`, as sections |
| `Moderation`, `ModerationProofs` | moderation of texts and media, mutes and their lifting, the filter's settings; proofs |
| `ConversationLog` | the log of each chat and reading it back; extends `JsonLines` |
| `MCModeration` | composes `Moderation` and `ConversationLog`, as sections |

A *section* is a part that shares no state with the other parts of its module: a
variable `section`, chosen initially, says which part takes steps, and the others
stay in one initial state. The interleavings of parts that share nothing show
nothing new and would only multiply the states. Parts that do share state are
composed fully: `ViolationCounter` with `LeagueCycle`, `ContributionRanking` with the
scores, `Recalculation` with the poll and administrators.

Definitions whose name begins with `Mutant` are deliberately wrong variants kept
next to the definition they vary, to show that the properties notice; no
specification uses them.

### ViolationRules

`Decide(war, attacks, at, a)` is `evaluate_war_attack_violations` for one attack.
The source builds `triples_before`, `by_player` and the chains `above` and
`below` in loops; here these are set definitions (`TriplesBefore`, `ByPlayer`,
`MetBefore`, `Reached`). `MCViolationRules` writes the loops down as recursive
functions over the sorted lists of the source, run `verdicts_and_scores` compares the
two on every attack at every poll (`AgreesWithLoops`), and they are proved equal in
every war (`LoopsAgree`). Attack order is the key: `(order, id)` is
`order` alone, which is unique in a war. The text of the reason is a function of
the code and is left out.

`attacker_position` and the first attack's position are distinct notions in the
source (`_decision_for_positions` gets the former, the base is built from the
latter); both are kept.

### WarSync

One regular war. `db` are the committed tables: `observed_at` (`seen`) and
violation (`rows`) of each attack, the marks of `admin_notification_history`, the
enemy roster, whether the war has ended. A poll is a program counter and what it
carries over its awaits:

| Action | Code |
|---|---|
| `Fetch` | `get_current_war` answers in `sync_all` |
| `Persist` | `_persist_war` up to its announcements: `upsert_war`, participants, attacks (skipped when the base is not in the served roster), `reconcile_war`, `created_attack_ids` |
| `Skip`, `Deliver`, `SendRaises` | one turn of the loop of `notify_once` for one attack and administrator |
| `Commit` | `get_cwl_group` and its rounds succeed, `session.commit()` |
| `Abort` | an exception after the fetch, or the end of the process |
| `FlagClaimed`, `RemoveManual` | `apply_claimed_target_violation`, `remove_manual_violation_callback` |
| `Fight`, `Tick` | the game and the clock (external) |

`Persist` is one step although the code awaits the database inside it: from its
first statement that writes (`upsert_war`) the session has the lock, what it reads
is its own transaction, and other sessions see none of it before the commit.
Administrators write only while `pc # "writing"`.

`inbox` and `lost` are the world's side: messages an administrator really got, and
deliveries whose mark was not committed. `queue` holds the messages of a poll that
are still to be sent; the loops of `_persist_war` and `notify_once` fix their
order (`IsNext`).

The war is timed, regular, starts at time 0 and has a quota, so that all four
reasons for finality occur. A member's place on the map is used as his name. Friendly
wars are not in the model; the league is `LeagueCycle`'s, and that it may fail before
the commit is `Abort`. The two are modelled apart because they write different rows
and share only the commit.

### Recalculation

Violations as rows with numbers. A recalculation loads all wars of the cycle with
attacks *and violations* (`list_regular_wars_in_period`), then, war by war, checks
the roster, selects the violations again, decides and flushes. Since the session's
identity map does not refresh loaded objects, the second select yields the rows as
they were loaded for numbers it holds (`InMemory`), while the flush acts on the
database by number. Before its first write it has no lock; a conflict (unique
`attack_id`, an update that finds no row) or a busy database fails the handler,
which rolls back (`Fail`). What the rules decide is data (`judged`) that may settle
in between. The initial load is one step: its statements are not separated.

### ClanMembership

`players`, open and closed memberships, return events, the archive, and the marks of
announcements, with the job's steps `Fetch`, `Persist`, `Announce`, `Snapshots`,
`Purge` at its commits, `Crash` between any two, and `Register` as the other writer
of `player_accounts`. Row numbers are modelled because they are used again. Days are
the unit of time because announcement keys contain the date; a boundary is the
beginning of a day, so a player seen on day `d` was seen after boundary `d` and
`last_seen > start` of the code is `seen >= PreviousStart`. Duplicate or incomplete rosters raise before anything
is written and are no step.

### SecurityMonitor

`config` is the deployment, `telegram` the service (webhook, profile, the last
update confirmed), `phase` the stages of `main.run`, `mon` the monitor with its
alerts and all they keep in memory, `poll` the dispatcher, `file`
`security-state.json`. `mon.pc` names the await the coroutine is in; an action is a
call's outcome together with the code up to the next await, which includes the
writes to the file and the deduplication of an alert (`Raise`).

| Action | Code |
|---|---|
| `GetMe`, `IdentityMismatch` | `_identity` of a check |
| `WebhookEmpty`, `WebhookDetected` | `getWebhookInfo`; `begin_webhook_incident` and the alert |
| `Delete`, `DeleteFails`, `Verified`, `VerifyFails` | `deleteWebhook` and the second `getWebhookInfo`; the incident's status |
| `CheckProfile`, `Restore`, `RestoreFails` | profile drift |
| `Heartbeat` | the stamp of the state, end of a streak of network failures |
| `CheckFails` | a network failure or any other exception in a check |
| `Delivered`, `Undelivered` | an alert's channels took it, or all failed |
| `Started`, `Wake`, `StartPolling`, `Stop`, `Shutdown`, `Crash`, `Restart` | `main.run`, `_await_while_monitoring`, systemd |
| `Receive`, `Complete` | `UpdateAuditMiddleware` and the offset of `getUpdates` |

The file outlives the process and each write replaces it whole or is refused
(`Saved`). Timestamps are kept as ages in monitoring intervals, since the code only
compares them with ten minutes; the interval is 300 seconds, so ten minutes are two,
and a check is short beside one. `calm` is false during a spell in which any call
may fail, every one of them or only some; a spell counts as one fault. Incidents
have the smallest number that is not in use instead of a time-based name. The
profile is right or wrong as a whole. What the monitor
writes to the audit trail it never reads: the trail is `AuditTrail`'s.

`heard` and `intact` are history: what administrators last heard of the network, and
whether no write was refused and no process was ended from outside.

### Moderation

`work` says of each message how far the bot is with it; `queue`, `worker` and
`runtime` are the media moderator's memory, `stored` and `mutes` its two tables,
`restricted` what Telegram enforces, `panel` the handler each administrator has under
way. Text moderation and the worker have the last part in common (`_apply_action`
and `__call__` make the same calls), which is one set of actions here:

| Action | Code |
|---|---|
| `TextMatched`, `Enqueue`, `Take` | the middlewares up to their first await, `_run_worker` |
| `JudgeFails`, `Spare`, `BeginMute` | scan, deletion, `get_chat_member` and what they lead to |
| `RestrictAuthor`, `RestrictFails` | `restrict_chat_member` |
| `FindRow`, `Record`, `RecordFails` | `record_mute`: the select, then insert or update with commit |
| `Confirm`, `LiftByNumber`, `Restore`, `RestoreFails`, `RemoveRecord`, `RemoveFails` | `moderation_confirm`, `moderation_manual_user_id` |
| `BeginChange`, `CommitChange`, `ChangeFails`, `UseChange` | `update_runtime` |
| `Restart` | `close` or a crash, then `initialize` and `start` |

Not in the model: whether a deletion succeeds (it changes nothing else), what the
detectors look for, private chats and plain groups, an author who is promoted while
restricted, media delivered again after a restart. `trace` is history: whether the
operations on an author, or on the settings, kept apart. It is what
`ListMatchesTelegram` and `RuntimeMatchesStored` are relative to: they say that two
operations at a time, an operation that fails half way, and a row number used again
are the *only* ways in which the list and Telegram, or the filter and its row, come
apart. The code prevents none of the three.

### LeagueCycle and ViolationCounter

`LeagueCycle` has the calendar in days, the rounds the league's group names so far,
the attacks its wars' answers show (an attack made in time may be shown a day late),
and a job that fetches, commits the league and then the raids, failing wherever it
likes (`FetchLeague`, `CommitLeague`, `CommitRaids`, `PollFails`, `NoLeague`).
`CommitLeague` is `_reconcile_cwl_missed_attack_violations` for every round that the
answer says is over, with the boundary of `_sync_cwl_group` and the commit;
`CommitRaids` replaces the violations of the weekends that are over. `settled` is
history: the answer committed last.

`ViolationCounter` adds `violation_counter_resets` and the dialogues. A reduction
reads the cycle and the counter (`StrikeOff`), awaits, and writes its row
(`WriteReset`); `stale` is history: the reductions since whose reading the counter or
the cycle has changed. Rows with amount 0 are those an earlier version left
(`legacy_reset`); they strike off everything until then. The dialogue's numbered list,
its amounts, "back" and the removal list with its row numbers are actions
(`List`, `Choose`, `GoBack`, `ShowReductions`, `Restore`).

### ManualPoints

One administrator and the table. `dialogue` is his FSM state with the data both
dialogues share, `confirmations` the messages with a button that are in the chat for
good, `handlers` the confirm handlers between their awaits (`Confirm` or `Approve`,
then `Store`, then `Finish`). The menu's button carries a token that the table keeps
unique and that must be the dialogue's latest; the panel makes a token at the press
and is protected only by the dialogue's state. Players are row numbers that `Purge`
frees and `Join` uses again. Comments, the text of a message, and data that are
always overwritten before they are read (`Live`) are left out.

### AccountLinks

`work` holds the handlers between their check and their commit. A registration asks
whether the user is registered at each message and again in `register_player`, then
awaits the game's verdict on the token; an administrator's link asks for other owners
and for membership, then writes. `checked` and `at` are history: how many links had
been made at the check and at the commit, so the properties can say which came first.
Both clear the dialogue after the commit, be it still the same (`Clear`).

### ContributionScore and ContributionRanking

`AttackScore` is `calculate_attack_contribution` with the branches before it. The
source computes with binary floating point and rounds to two decimals; all numbers
it meets (destruction in whole percent, 10 or 5 a star, 0.1 or 0.05 a percent, the
league's factor 1.25) are
multiples of 1/80 of a point, so the model counts those and `Rounded` turns them
into hundredths, a half to the even neighbour. That `round()` of the floating point
number agrees in the cases of a half is assumed, not shown.

`ContributionRanking` is a war whose attacks a poll stores in the order it meets the
members (`Look`), so `observed_at` orders them otherwise than the game did. Verdicts
change (`Judge`), members leave and return, the war ends, and the last league war's
end begins a new cycle (`EndOfWar`). `Before`, `Score`, `Used`, `Left` and `Fine` are
`build_contribution_calculation` as a function of that state.

### Donations

One player's counter in the game, which falls to zero at the end of the game's season,
snapshots at any time and cycles that begin at any time. `given` is what the player
really gave, which the bot cannot see.

### ReportDialogs

One administrator, several handlers at work. `fsm` is the one state and set of data
that all dialogues share; `board` are the panel's messages, which outlive it; `last`
is the list he saw last. `MayStart` gives the order of the handlers in the router: in
the state of a numbered list the menu's button for an earlier handler starts that
dialogue, for a later one it is taken for a number. A handler that reads twice
(`ReadOptions`, then `KeepList`), one that clears the dialogue late (`Forget` after
`SendReport`) and one that fails half way (`HandlerFails`) are separate steps, so
others come in between. `clean` is history and marks the answers to which an
exception named in the property applies. The numbered lists and the panel are run as
two sections: the one state is common to both in the module (`DialogsNext`), but TLC
does not mix them.

### JsonLines, AuditTrail, ConversationLog

`JsonLines` models what both writers do to a file: append with `O_APPEND`, a line cut
by a full disk or a kill, to which the next one is glued, and the rotation by
`os.replace`, one file at a time. In `AuditTrail` two writers hold the lock in turn;
`LastHash` searches the files from the newest for the last event that parses, the
rotation is a step per file and may stop half way, and the operator's report reads
one file after another without the lock. An event's hash is its number.
In `ConversationLog` a write does not suspend the bot, so it is one step with all its
outcomes; each press of a button is itself a record of the administrator's own chat,
written before the page is read. What a record holds, and the tokens and secrets left
out of it, are not modelled.

Both files hold UTF-8 that is not ASCII, so a write may also stop within a character, and
the bytes of that line are no text (`bytes`). The readers of the audit decode line by line,
or replace what does not decode: for them it is one more line that does not parse, and
`TornLines` has those already. The reader of the conversation log decodes the file as it
goes, 8192 bytes at a time, and `_read_path` leaves the file at a `UnicodeError`.
`Decoded` says what it has by then: all that is before half a character at the very end, as the
decoder only complains of it at the end of the file; but once something is glued to it, only
the buffers before the one that it is in. `BufferLines` is the buffer's length, in lines.

## Runs

Each run is a line of `PROJECT.json`; `tlc -config X.cfg M`.

| Run | Bounds | States | Shows |
|---|---|---|---|
| `verdicts_and_scores` | verdicts: 4 attacks by 2 players, polls at 0..2 with the window ending at 1, a roster with a chain above and one with a chain below the player; scores: 2 members, bases 1, 4 and 9, 3 results, 3 attacks with nothing changing or 2 with a verdict and two moves; donations: 4 troops, 4 snapshots, 2 seasons; dialogues: 2 handlers, 2 messages of the panel with one button a page, 4 requests, 1 change | 2 429 000 | `AgreesWithLoops`, `SettledStands`, `StarsCreditedOnce`, `FinedOnlyIfUnused`, `ScoresStand`, `NothingCountedTwice`, `AnswersWhatWasAsked` |
| `poll_faults` | 2 administrators, 2 attacks by one member, rosters full or partial, one aborted poll, one delivery that raises per message | 176 000 | `DeliveriesAccounted`, `ManualRowsKept`, `EveryAdminAttempted` |
| `poll_verdicts` | 1 administrator, 3 attacks: an ally closes the base, a jump over a target, a second attack that bridges it or fails to | 395 000 | `RowsFollowRules`, `ImplementsLedger`, `EveryAttackStored`, `PendingIsSettled` |
| `poll_duplicates` | as `poll_faults`, sender never raises after a delivery | | violation of `NoDuplicates` |
| `recalculation_manual` | 2 recalculations, 2 wars | | violation of `RecalculationKeepsManual` |
| `recalculation_panels` | 1 recalculation, 2 keyboards, 3 edits | | violation of `RemovesWhatWasShown` |
| `membership` | 2 players, 3 days with 2 boundaries, 4 row numbers, 3 moves, 1 crash | 601 000 | `MembershipMatchesPlayer`, `EveryReturnRecorded`, `AnnouncedOnce`, `PurgedAfterFullCycle`, `AbsentArePurged` |
| `security_monitor` | monitor: ten minutes of 2 intervals, 3 failures for an alert, 2 incidents on file, 2 updates, 2 faults of any kind, 3 deployments; audit: 2 writers, files of 2 lines with 2 backups, 8 events, 2 writes cut short | 2 355 000 | `IncidentsClosed`, `RecoveryIsNews`, `WatermarksSound`, `FirstUpdateKept`, `VouchedFor`, `LinksVerify` |
| `security_repair` | the monitor without updates, with fairness | 303 000 | `RepairOrStop` |
| `moderation` | group: a text and a medium of one author, a medium of another, a queue of one, 2 administrators, 2 operations of theirs, 1 failing call or restart; log: 2 chats, files of 2 lines with 2 backups, pages and buffers of 2, 7 records a chat, 1 write that fails | 2 153 000 | `ListMatchesTelegram`, `RuntimeMatchesStored`, `ReadingBackMissesNothing` |
| `admin_desk` | points: 2 players and 2 row numbers; 2 confirmations and 2 presses in a settled clan, or 1 of each with 2 moves and 2 cycles; 2 handlers; links: 2 users, 2 players, 2 handlers, 2 links | 1 161 000 | `PointsAsConfirmed`, `InheritedOnlyFromStale`, `StoredAgainOnlyOverlapping`, `SecondOwnerByTokenOrRace`, `RegistersOnceUnlessRace` |
| `cycle` | rounds: 1 player, 2 rounds, 2 days, 2 reductions at once of 1 or 2, 2 rows; raids: the same with a weekend, a row of the earlier version and one reduction at a time; recalculation: 2 recalculations, 2 wars with an attack each, one polled, 3 row numbers, 2 edits | 1 318 000 | `AccusedByLastAnswer`, `BoundaryMovesForward`, `OverspentOnlyWhenStale`, `OneViolationPerAttack`, `ExactIfUndisturbed`, `IncompleteStopsAll` |

Each property has a mutant in `PROJECT.json`: a definition of the model changed as a
plausible bug in its lines would change it, on which the same run reports that property.

Why the bounds are enough. Rules: a decision needs at most an ally's attack that closes
the base and two of the player's own (the game's quota); finality has four causes, each
reached by two attacks and a clock beyond the window and the end of the war. Poll: a
message is repeated after one loss, so one abort or one raising send shows it; two
administrators are the least for one to be unreachable and the other not.
Recalculation: two of them and two wars are the least for a conflict, and for an
incomplete war after a written one; three row numbers for one to be used again.
Membership: two boundaries are what a purge needs. Monitor: a fault is a webhook
set, a profile changed, a spell of failing calls, a full disk, a wrong identity, a
crash or a shutdown; two of them give every pair (a webhook and a crash in its repair, a
disk that fails and one that is repaired between two alerts), and a spell lasts as long
as it likes, so a streak of failures costs one. Two updates are the least that can
finish out of order; the file keeps 2 incidents instead of 100 so that the list does
overflow. Moderation: a text and a medium of the same author are the least that can both
find no row; with the second author's medium and two operations a row number is used
again while it is being removed. A mute lasts one tick, after which row and restriction
have both run out. Files: with two lines a file and two backups, seven or eight records
rotate the first ones out, so gaps, torn lines in an old file and a rotation that
stopped half way all occur.

Points: two presses are the least to store twice; the second player's newcomer takes the
purged one's row number, which needs two cycles and two moves. `Budgets` holds what each
behaviour may spend, so that no behaviour has everything at once: two dialogues in a
settled clan, or one over comings and goings; a dialogue meets another only in the table.
Links: two links are the least for two owners, and for one user with two players; each
check and commit has its place between the other's. Counter: two reductions of up to two
against two violations overspend in every way; the second round moves the boundary
between them. Ranking: on one base two results and a third one show every order; a
verdict, a leaving and a return are tried on two attacks (`Limits`). Donations: two
seasons between snapshots, with cycles in between. Dialogues: four requests are two
lists, or a list, a button on it, another list and a button on the first; one change of
the ranking makes any two readings differ.

Symmetry is used where players, users, handlers and reductions are interchangeable
(`admin_desk`, `cycle`); no liveness property is checked there.
Liveness of the monitor is a run of its own because its cost grows faster with the
states, and no update takes part in it. `verdicts_and_scores` stops when nothing is left
to fight, to ask for or to poll (`CHECK_DEADLOCK FALSE`); the other systems never stop.

### What is credited for a star

`StarsCreditedOnce` speaks of scores: an attack's score less the same attack's on a base
that is taken is what it is credited for being first (`Gain`). The formula pays that for
each star once. But `dev_contribution.py:198-210` keeps the result of a claimed target among
those of the base while it takes 50 points, and results too low or above the player are kept
likewise: the stars such an attack took first are paid to nobody in full (a triple above the
player is paid without its bonus), and the property says "less" for just these. Destruction
is not in it: on a base without stars it counts in full again, as
`tests/test_contribution_and_donations.py:922` wants it.

### The three violations

They are disagreements between the code and what the repository says of it, met
while modelling (`findings` in `PROJECT.json`):

* `NoDuplicates`: `PROJECT_GUIDE.md:17` promises notifications without duplicates.
  `notify_once` marks in the caller's transaction and `sync_all` may raise after it.
  What does hold is `DeliveriesAccounted` with `NoResendOnceMarked`: repetitions are
  exactly the lost marks.
* `RecalculationKeepsManual`: the confirmation text (`admin.py:91`) says manual
  violations are not changed. One set while the recalculation runs may be.
* `RemovesWhatWasShown`: the confirmation (`admin_panel.py:724`) speaks of the
  selected violation; the button holds a row number that may be another's by then.

Two more disagreements are only listed as hazards. A player who registers before the
first roster that has him is announced as returned
(`tests/test_registration.py:133` covers the opposite order). And
`docs/admin_conversation_viewer.md:8` says that choosing a user opens the last page of his
conversation: after a write that stopped within a character, and one more,
`_read_path` leaves the file there (`conversation_history.py:79`), so that the page ends
before newer records that are whole, until the file is rotated; a line that is no JSON it
passes over (`tests/test_conversation_history.py:37`). `Decoded` models it, and
`ReadingBackMissesNothing` is about the records that can be read.

## Fairness

`WarSync!FairSpec`: `WF_<<pc, queue>>(PollAdvances)` and `WF_vars(Tick)`. The
scheduler starts `sync_wars` for ever, and HTTP, Telegram and database calls have
time-outs, so an await of a poll ends, in one way or another. `PollAdvances` says
only what all outcomes have in common: the program counter or the queue moves on.
It does not say that a send or a poll succeeds. Failed polls are bounded by
`MaxAborts`: with unbounded failures nothing would ever be stored, in the code as in
the model. No fairness is assumed of members or administrators. At the last value of
the clock polls go on: that value stands for all later times.

`ClanMembership!FairSpec`: weak fairness of the job's steps, with failures bounded,
and of the calendar.

`SecurityMonitor!Fairness` (`FairSpec`; the run's `FairSecuritySpec` adds it to the
composition with the audit trail): `WF_vars(Monitor)` (every call is answered or times
out, so the coroutine goes on, to whichever outcome), `WF_vars(Interval)` (time
passes) and `WF_vars(Stop)` (`_await_while_monitoring` wakes when the monitor's task
has ended). No fairness of start-up synchronisation, which may hang, of systemd, of
repairs to the disk, or of the end of a spell of failures.

The safety properties need no fairness and are checked and proved without it.

## Proofs

Eight modules hold the theorems. All hold for every value of the constants that
satisfies the module's named assumption, and none needs fairness; only two, about
`WarSync`, have a hypothesis beyond it, given with them. Parts that TLC checks as
sections of one module have their proofs in one module too.

Several definitions compute by recursion: the loops of the evaluator, the sums of
donations and of stars, the objects of a file, the steps of a rotation. They are
recursive functions or folds of the community modules, never `RECURSIVE` operators, and
what they compute is proved as follows. `AllNaturals` is induction in a form the provers
can use: a set of numbers with 0 and with the successors of its members has all numbers
(otherwise the others have a least one, by the library's `WFMin`). From it, that a
recursive equation has a solution, for a loop of n steps (`LoopExists`) and for the folds
over finite sets (`FoldExists`): a CHOOSE of a function is worth nothing before. Then the
unfolding, once for each function (`SumsSolved`, `FlatteningSolved`, `TriplesCollected`,
`WalkCollected`), and from there facts about the function as a whole, such as that a sum over two
disjoint sets is the sum of both (`SumsOfParts`).

Where a module's assumption says more than types, it says what the code has: row
numbers begin at 1 and a clan fits into them (`ManualPoints`); initial rows obey the
table's two unique constraints and the rules' decisions have their fields
(`Recalculation`); messages, authors and administrators are finitely many
(`Moderation`); a round's end is a day of the calendar (`LeagueCycle`).

`ViolationRulesProofs` (any war, attacks and time): lemmas about `Decide` that both the
poll and the rules' own run rest on.

* `DecideShape`: a decision carries a positional code or none.
* `DecisionStands`: a decision that is final stays the same when later attacks are added,
  time passes or the war ends. The place of a member is his first attack's
  (`PlaceStands`) and what was tripled before an attack does not change (`TriplesStand`).
  A permission then stands because further attacks of the member only open more targets;
  a violation because one that left a closed base is final only when his attacks are
  used up or no more can come. The lemma assumes that nobody attacks more than twice,
  and it needs to: `evaluate_war_attack_violations` calls an attack final once a *second*
  of the player follows.

`WarSyncProofs` (any administrators, roster, moves and bounds):

* `TypeCorrect`: `Spec => []TypeOK`. `TypeOK` is inductive by itself. The one step
  that needs thought is `Persist`: `ReconciledTablesProps` bounds what storing and
  reconciling yields, from `DecideShape` and `ReconcileRow`.
* `PollExtendsTables`: `Spec => []WorkInProgress`. Relates the transaction of a poll
  to the committed tables. Administrators write the committed tables, but only while
  no transaction is open; that is why it is inductive.
* `Accounted`: `Spec => []DeliveriesAccounted`. Not inductive alone: at `Abort` one
  has to know that the marks of the transaction include the committed ones, which
  `WorkInProgress` says. The inductive invariant is
  `IInv == TypeOK /\ WorkInProgress /\ DeliveriesAccounted`.
* `NeverResent` (`NoResendOnceMarked`, which no run checks), `ManualKept`,
  `AllAttempted`: action properties, each from `[]TypeOK` and `[]WorkInProgress` by
  cases on `Next`.
* `RowsStand`: `[]RowsFollowRules`, and `LedgerImplemented`: the poll with its
  administrators implements `ViolationLedger`. Both rest on `DecisionStands`.
  `LedgerInv` carries it over the poll: each positional row, committed or
  in the transaction, was a final decision on what was stored when it was last looked at
  (`Standing`), attacks are stored in order and without gaps, and the poll's snapshot is
  a prefix of the battle not older than the tables (`SnapSound`).
  Their hypothesis is `RegularWar`: at most two attacks a member, which is the rule of
  the game's regular wars and what `DecisionStands` needs, and the roster served whole.
  Without that a base comes into view that was not there (run `poll_faults` has partial
  rosters, and neither property is among its).

`ClanMembershipProofs` (any players, boundaries, days and crashes):

* `TypeCorrect`, `OneOpenMembership`, `ReturnsRecorded`, `ReturnsAnnouncedOnce` from
  `MemberInv`. Beyond the properties it says that a row number nobody holds has no open
  membership (`FreeIds`): SQLite gives numbers again, and the row that gets one must
  start without; that whom neither table nor archive knows was never in the clan, and
  the archive holds no active player (`Newcomers`), so that a purged player who comes back is
  seen to return; and that what is still to be announced is not announced (`Waiting`).
* `PurgedAfterwards`: the action property, from `SeenSince`: the stored day a player was
  last seen is no older than any sighting.

`SecurityMonitorProofs` (any deployments, intervals, updates, faults, sizes of the file):

* `TypeCorrect`, `MarksStand`, `FirstUpdateStands`, `ChecksVouched`, `NoneLeftOpen`,
  `RecoveryToldAsNews`, all of the run's safety properties, from `SecurityInv`: an update
  being handled has been marked received (`Marks`); each stage of a check beyond the
  webhook has seen it empty, also while a message is being sent on the way (`Seen`);
  the monitor remembers having told of a failure only if that was the last notice
  (`News`); numbers of incidents are distinct, which the file's limit must not
  spoil; and while nothing interfered only an incident under repair is open (`Closed`).
  The write of the file is the hard step: what `Save` yields is described once
  (incidents, marks, open ones) and each action is one of few kinds of saves.

the files of JSON lines (any numbers of lines and backups, any lines cut short): the objects
of a journal are a `Chain`, its files' objects one file after the other. Four lemmas say all
that happens to it: an object is appended behind it or glued to its last
(`ChainAppended`), the oldest file drops a beginning of it (`ChainWithoutOldest`), moving a file
up to a free number changes nothing (`ChainShifted`), and it ends with the current file
(`ChainEndsWith`). What the conversation log's reader decodes of a journal is a journal too, which
a rotation changes in the same way (`ReadableJournal`); and what is appended either is read
behind what was, or makes the reader stop earlier in the file (`DecodedAppended`, for any
length of the buffer), so the same is true of the chain that it reads
(`ReadWhileRotated`, `ReadWhenLonger`). On them rest

* `ReportVerifies`: `[]LinksVerify`, from `AuditInv`: the chain on disk is linked at all
  times; whoever holds the lock holds the hash of its last event, through the whole rotation,
  of which each step finds the next number free (`Locked`); and a report during which
  nothing moved has read a beginning of the chain (`ReadSoFar`).
* `ReadingBack`: `ReadingBackMissesNothing`, from `LogInv`: the records of a chat rise, in
  whatever way lines were glued, decoding stopped and files were lost (`Ordered`); and whatever is older than the first
  record on the screen still lies as many records before the one that was newest then as the
  page and the newer ones have (`HeldOver`, `FarBack`). A write only *slides* the records: it drops some of
  the beginning, and adds one behind or cuts some of the end (`WriteSlides`), and sliding keeps
  both (`SlidKeepsOrder`, `SlidStaysFar`). So the
  older page begins far enough back (`OlderPassesNothing`).

`ModerationProofs` (any authors, messages, administrators, lengths of mutes, faults):

* `ListTrue`: `ListMatchesTelegram`, and `RuntimeTrue`: `RuntimeMatchesStored`. The
  properties speak of the times at which nothing is under way, so an invariant has to say what
  is true on the way. `ModerationInv` says, for each author whose operations are
  not mixed up: there is one operation at most (`Alone`); a mute between Telegram and its
  row has restricted him for as long as the row will say (`MuteStands`); a lift has freed
  him, and no row is his but the one it will remove (`LiftStands`); otherwise row and
  restriction agree (`Untouched`). It also needs that an author has one row
  (`Table`) and that what waits for the worker waits once (`Waiting`), or a message could
  be judged twice at once. `SettingsOK` is the same for the settings.

`CycleProofs`, league and counter (any members, rounds, weekends, calendar, reductions):

* `LeagueInvariant`: `[]LeagueInv`. Accusations and boundary follow the answer committed
  last only because a later answer knows at least as many rounds, and at least as many
  that are over (`AnswerIsNewer`): otherwise a commit would leave accusations of a round
  the answer does not mention. That in turn needs that what an answer calls over has
  ended (`OverHasEnded`).
* `AccusationsFollowAnswer`, `BoundaryFollowsRounds`: conjuncts of it.
* `BoundaryForward`: the action property, from `LeagueInv` at `CommitLeague`.
* `OverspentOnlyStale`: `OverspentOnlyWhenStale`, from `CounterInv`: a reduction about to
  write was overtaken (and is then in `stale`), or is of the current cycle and still
  covered. A new count within a cycle is never smaller unless a poll or another reduction took away
  from it, and each of those marks those it overtakes.

and the recalculation (any number of them, any keyboards, wars, attacks and rules):

* `TypeCorrect`, `OnePerAttack`, from `Basic`: the constraints of the table, that only the
  holder of the lock writes, and that wars passed were complete (`JobOK`). `Current`,
  which lays a recalculation's writes over the table, keeps the constraints.
* `StopsAll`: a recalculation that ends with an incomplete war ends by `Fail`, since
  `Commit` is after the last war and all wars passed were complete.
* `ExactResult`: `ExactIfUndisturbed`, by induction along the recalculation: `Undisturbed`
  says that one nothing has come in between has, for each war passed, exactly the rules'
  rows, and has changed nothing of the other wars (`Passed`, `PassedNext`).

`AdminDeskProofs`, points (any players, amounts, budgets, number of handlers):

* `PointsInvariant`: `[]PointsInv`. A dialogue that waits for a button holds what the
  last confirmation said (`MenuWaits`, `PanelWaits`); handlers carry what was shown on
  (`HandlersAsShown`); and the panel's dialogue outlives what it stored only while the
  handler that stored it has yet to clear it (`StillClearing`).
* `PointsStoredAsConfirmed`, `AgainOnlyOverlapping`: from it.
* `InheritedFromStale`: `[]InheritedOnlyFromStale`. `StaleInv` adds that no two players
  share a row number, and that each player an administrator was shown, in a list, in the dialogue
  or on a button, is in the clan or was seen since, and still has his number
  unless two cycles have begun (`Vouched`): only who was absent for a whole cycle is purged.

and links (any users, players, handlers, bound on links):

* `LinksInvariant`: `[]LinksInv`, whose core is `CheckedBefore`: a handler about to write
  found no link against its own, so all there are now were made since.
* `SecondOwners`, `RegistersOnce`: conjuncts of it.

`WarScoresProofs`, the rules (any window, attacks, polls and times, on the wars of
`MCViolationRules`):

* `FinalDecisionsStand`: `SettledStands`. `PollsInv` says that the decisions at hand are
  those on what the last poll knew, a prefix of the attacks, and that what it did not
  know came later (`LastPollJudged`). A poll then compares two evaluations to which
  `DecisionStands` applies; `AttacksTyped` gives its hypotheses.
* `LoopsAgree`: `[]AgreesWithLoops`. After i turns the source's loop over all attacks has
  the places tripled by the first i (`TriplesCollected`), and the loop over a chain has
  gone as far as every place was tripled or attacked by the player himself, and met what he
  had attacked on the way (`WalkCollected`); that the lists are sorted, have each attack
  once and so end where the sets do is counting (`ChosenByRank`, `InOrderLists`,
  `ChainLists`). `LoopsDecide` puts it together for any attacks with distinct numbers
  and any time.

the scores (all bases, places, codes and results):

* `BetterNeverScoresLess`: monotony of the whole formula, by `BaseMonotone`,
  `BonusMonotone`, `TooLowMonotone` and `RoundedMonotone`, one per branch.
* `ClaimedCostsMost`: from `RoundedBounds` and the floor.

the ranking (any lineup, enemies, results, order of storing, verdicts and moves):

* `RankingType`: `[]RankingTyped`; its core is that what is stored are attacks of the war
  and that the cycle ended at one of them.
* `FinesOnlyTheUnused`: `[]FinedOnlyIfUnused`. If all a player made is stored in the
  cycle, his positions in the ranking map onto his attacks, so he used no fewer than he
  made (`AllCounted`), and the fine of one who used all is none.
* `ShownScoresStand`: `ScoresStand`. A poll only appends (`Looks`), so positions counted
  stay and new ones come after them (`CountedStays`); hence the best result before an
  attack stays, more attacks are used and fewer bases left (`BeforeStays`, `FineStays`).
* `StarsPaidOnce`: `[]StarsCreditedOnce`. An attack whose stars are paid gains, through the
  formula, the codes, the floor and the rounding, a fixed sum for each star nobody had and
  one for being the first to triple (`GainPaid`); an unpaid one gains less if it took a star
  (`GainUnpaid`). Such gains telescope (`PaidAddUp`), so along the attacks on a base in their
  own order the sum is what the best result so far gains alone, or less once an unpaid
  attack used a star up (`CreditsAddUp`).

the donations (any donations, snapshots, seasons, cycles):

* `DonatedOnce`: `[]NothingCountedTwice`, from `DonationsInv`: between two readings the
  counter grew by no more than was given, or began again (`ReadingsGrew`), and cycles
  begin one after the other (`CyclesBegun`). A step between two snapshots is
  counted in one cycle and for no more than was given (`StepGiven`); a cycle's steps add up
  to at most what was given from its first snapshot to its last (`StepsGiven`), and the
  cycles to what was given from the first one's to the last one's (`CyclesChained`).

and the dialogues (any handlers, messages, page size, requests and changes):

* `AnswersAsAsked`: `[]AnswersWhatWasAsked`, from `DialogsInv`. What ties a message in the
  chat to a list in memory, once either may have been replaced, is the number of the
  request that led to it. A handler at work has a number that no list or message bears yet
  (`FreshNumbers`); what bears the same number is the same list, of the same period
  (`SameNumberSameList`); of the starts of a numbered list one at most is undisturbed,
  and what it shows is what it kept (`ListsAgree`); and a handler that is about to send
  has what it was asked for (`Asked`). The numbers are history: the code has none, and no
  guard reads them.

Only model-checked: liveness (`EveryAttackStored`, `PendingIsSettled`,
`AbsentArePurged`, `RepairOrStop`), since the provers know neither fairness nor ENABLED.
Every other property of a passing run is proved. The three violations need no proof:
a behaviour shows each.

## Not modelled, and the plan

Not modelled and not planned: HTTP and parsing of the game's API, texts and layouts,
exports and the queries of statistics that only read, the patterns of
`services/text_moderation.py` (which texts match is a choice in `Moderation`), what a
record of the conversation log holds and how secrets are left out of it, the weights of
raids in the ranking, settings, one-off migrations, operators' scripts other than the
report's check of the chain, the image detector (a library).

In the order planned:

1. *Dialogue of manual violations*: the numbered lists of players and attacks that lead to
   `FlagClaimed`.
2. *Start-up synchronisation*: its retries (`SecurityMonitor` has it as one stage).
3. *Raids*: participants and contributions of a weekend, and the order of a weekend's
   snapshots.
