--------------------------- MODULE SecurityMonitor ---------------------------
(***************************************************************************)
(* The watch over the bot's Telegram account and over the process itself:  *)
(* ResilientTelegramSecurityMonitor (app/security/resilient_monitor.py) on *)
(* top of TelegramSecurityMonitor and SecurityAlerts (monitor.py), the     *)
(* state file they share with the update audit (audit.py SecurityState,    *)
(* bot/middlewares/update_audit.py), and the life of the process that      *)
(* main.run ties to the monitor.                                           *)
(*                                                                         *)
(* One coroutine checks the account over and over; each await of it is a   *)
(* step, with the synchronous code up to the next await.  Updates are      *)
(* received and handled concurrently.  The state file survives the         *)
(* process; every write to it replaces the file whole, or is refused.      *)
(*                                                                         *)
(* Time is counted in monitoring intervals and only ever compared with ten *)
(* minutes, so a timestamp is kept as its age, which stops growing when it *)
(* can make no more difference.  A check is short beside an interval.  The *)
(* profile is right or wrong as a whole.                                   *)
(* The audit trail is written to and never read by this code: left out.    *)
(***************************************************************************)
EXTENDS Integers, Sequences, FiniteSets

CONSTANTS Configs,        \* telegram_security: identity baseline, restore_profile
          TenMinutes,     \* ten minutes, in monitoring intervals
          AlertThreshold, \* _NETWORK_ALERT_THRESHOLD
          MaxIncidents,   \* MAX_INCIDENTS
          MaxUpdates,     \* bound: updates users send
          MaxFaults       \* bound: everything that goes wrong, of any kind

ASSUME SecurityMonitorAssumption ==
  /\ Configs \subseteq [identity : {"expected", "absent", "required"}, restore : BOOLEAN]
  /\ TenMinutes \in Nat \ {0} /\ AlertThreshold \in Nat \ {0}
  /\ MaxIncidents \in Nat \ {0}
  /\ MaxUpdates \in Nat /\ MaxFaults \in Nat

Expired == TenMinutes + 1
Ages    == 0..Expired
Older(a) == IF a < Expired THEN a + 1 ELSE a
None == 0
NoWebhook == -1

INFO == 10
WARNING == 20
ERROR == 30
CRITICAL == 40
Ranks == {None, INFO, WARNING, ERROR, CRITICAL}
Keys == {"baseline_incomplete", "identity_mismatch", "unauthorized_webhook",
         "recovery_failed", "profile_mismatch", "restore_failed",
         "check_failed", "network_failed", "network_recovered"}
Long == [age |-> TenMinutes, rank |-> None]      \* sent long ago, or never
NeverSent == [k \in Keys |-> Long]
Sendings  == [Keys -> [age : 0..TenMinutes, rank : Ranks]]

\* An incident is named by a number that no other incident in use has.
Ids == 1..(MaxIncidents + 3)
Incidents == [id : Ids, age : Ages, recovered : 0..MaxUpdates,
              status : {"detected", "auto_recovered", "recovery_failed"}]

VARIABLES
  config,    \* the configuration of this deployment
  telegram,  \* the service: webhook (its age, or NoWebhook), profile, and
             \* offset, the last update confirmed to it
  phase,     \* main.run: "starting", "syncing", "polling" or "down"
  mon,       \* the monitor, its alerts and what they keep in memory
  poll,      \* the dispatcher: the last update received, those being handled
  file,      \* security-state.json
  calm,      \* calls to Telegram are answered; otherwise any of them may fail
  diskOk,    \* the file system takes writes
  heard,     \* history: the last notice on the network an administrator got
  intact,    \* history: no write refused, no process ended from outside
  faults     \* bound: things that went wrong so far

vars == <<config, telegram, phase, mon, poll, file, calm, diskOk, heard,
          intact, faults>>
world == <<telegram, calm, diskOk, faults>>
watch == <<mon, heard>>

-----------------------------------------------------------------------------
\* What a new process starts with; pc names the await the monitor is in.
Fresh == [pc |-> "me", key |-> "none", next |-> "sleep", incident |-> None,
          failures |-> 0, told |-> FALSE, warned |-> FALSE, slept |-> FALSE,
          lastSent |-> NeverSent, sawEmpty |-> FALSE]
Off == [Fresh EXCEPT !.pc = "off"]

Init ==
  /\ config \in Configs
  /\ telegram = [webhook |-> NoWebhook, profileOk |-> TRUE, offset |-> 0]
  /\ phase = "starting"
  /\ mon = Fresh
  /\ poll = [received |-> 0, handling |-> {}]
  /\ file = [incidents |-> <<>>, current |-> None, lastEmpty |-> Expired,
             alerts |-> NeverSent, maxReceived |-> 0, maxCompleted |-> 0]
  /\ calm = TRUE
  /\ diskOk = TRUE
  /\ heard = "nothing"
  /\ intact = TRUE
  /\ faults = 0

Fault == faults < MaxFaults /\ faults' = faults + 1

(* SecurityState.mutate: a write that is refused leaves the file as it was. *)
Saved(f) == IF diskOk THEN f ELSE file

Quiet(sent, key, rank) == sent[key].age < TenMinutes /\ rank <= sent[key].rank
Noted(sent, key, rank) == [sent EXCEPT ![key] = [age |-> 0, rank |-> rank]]

(* SecurityAlerts.send up to its first await: the alert is suppressed, or   *)
(* noted as sent - in the file, in memory when that fails - and on its way. *)
(* m and f are the monitor and the file as the caller leaves them.          *)
Raise(m, f, key, rank, next) ==
  LET sent == IF diskOk THEN f.alerts ELSE m.lastSent
  IN  IF Quiet(sent, key, rank)
      THEN mon' = [m EXCEPT !.pc = next] /\ file' = f
      ELSE /\ mon' = [m EXCEPT !.pc = "sending", !.key = key, !.next = next,
                               !.lastSent = IF diskOk THEN @ ELSE Noted(@, key, rank)]
           /\ file' = IF diskOk THEN [f EXCEPT !.alerts = Noted(@, key, rank)] ELSE f

Goto(m, f, next) == mon' = [m EXCEPT !.pc = next] /\ file' = f

-----------------------------------------------------------------------------
(* The service and the machine.                                             *)
SetWebhook ==
  /\ Fault
  /\ telegram.webhook = NoWebhook
  /\ telegram' = [telegram EXCEPT !.webhook = 0]
  /\ UNCHANGED <<config, phase, watch, poll, file, calm, diskOk, intact>>

ChangeProfile ==
  /\ Fault
  /\ telegram.profileOk
  /\ telegram' = [telegram EXCEPT !.profileOk = FALSE]
  /\ UNCHANGED <<config, phase, watch, poll, file, calm, diskOk, intact>>

Trouble ==
  /\ calm /\ Fault
  /\ calm' = FALSE
  /\ UNCHANGED <<config, telegram, phase, watch, poll, file, diskOk, intact>>

Calm ==
  /\ ~calm
  /\ calm' = TRUE
  /\ UNCHANGED <<config, telegram, phase, watch, poll, file, diskOk, intact, faults>>

DiskFails ==
  /\ diskOk /\ Fault
  /\ diskOk' = FALSE
  /\ intact' = FALSE
  /\ UNCHANGED <<config, telegram, phase, watch, poll, file, calm>>

DiskRepaired ==
  /\ ~diskOk
  /\ diskOk' = TRUE
  /\ UNCHANGED <<config, telegram, phase, watch, poll, file, calm, intact, faults>>

Aged(sent) == [k \in Keys |-> IF sent[k].age + 1 < TenMinutes
                               THEN [sent[k] EXCEPT !.age = @ + 1] ELSE Long]

AnInterval(incident) == [incident EXCEPT !.age = Older(@)]     \* older by it

Interval ==
  /\ mon.pc \in {"sleep", "off"}
  /\ telegram' = [telegram EXCEPT !.webhook = IF @ = NoWebhook THEN @ ELSE Older(@)]
  /\ mon' = [mon EXCEPT !.slept = (mon.pc = "sleep"), !.lastSent = Aged(@)]
  /\ file' = [file EXCEPT !.alerts = Aged(@), !.lastEmpty = Older(@),
                          !.incidents = [i \in DOMAIN @ |-> AnInterval(@[i])]]
  /\ UNCHANGED <<config, phase, poll, calm, diskOk, heard, intact, faults>>

-----------------------------------------------------------------------------
(* A check.  Each of its calls may fail, by the network or otherwise.  The  *)
(* failures counted are those that still make a difference.                 *)
NetworkFailure ==
  LET m == [mon EXCEPT !.failures = IF @ < AlertThreshold THEN @ + 1 ELSE @]
  IN  IF m.failures < AlertThreshold THEN Goto(m, file, "sleep")
      ELSE Raise(m, file, "network_failed", WARNING, "sleep")

\* During startup it leaves run(); later the streak of network failures ends.
OtherFailure ==
  IF phase = "starting" THEN Goto(mon, file, "raised")
  ELSE Raise([mon EXCEPT !.failures = 0, !.told = FALSE], file,
             "check_failed", ERROR, "sleep")

CheckFails ==
  /\ mon.pc \in {"me", "info", "profile"}
  /\ ~calm
  /\ NetworkFailure \/ OtherFailure
  /\ UNCHANGED <<config, telegram, phase, poll, calm, diskOk, heard, intact, faults>>

Identified ==
  IF config.identity = "expected" \/ mon.warned THEN Goto(mon, file, "info")
  ELSE Raise([mon EXCEPT !.warned = TRUE], file, "baseline_incomplete", WARNING,
             IF config.identity = "required" THEN "raised" ELSE "info")

GetMe ==
  /\ mon.pc = "me"
  /\ Identified
  /\ UNCHANGED <<config, telegram, phase, poll, calm, diskOk, heard, intact, faults>>

IdentityMismatch ==
  /\ mon.pc = "me"
  /\ config.identity = "expected"
  /\ Fault
  /\ Raise(mon, file, "identity_mismatch", CRITICAL, "raised")
  /\ UNCHANGED <<config, telegram, phase, poll, calm, diskOk, heard, intact>>

WebhookEmpty ==
  /\ mon.pc = "info"
  /\ telegram.webhook = NoWebhook
  /\ Goto([mon EXCEPT !.sawEmpty = TRUE], file, "profile")
  /\ UNCHANGED <<config, telegram, phase, poll, calm, diskOk, heard, intact, faults>>

\* begin_webhook_incident: the newest incidents are kept, and counted.
Opened(f, id) ==
  LET all == Append(f.incidents, [id |-> id, age |-> 0, recovered |-> 0, status |-> "detected"])
      first == IF Len(all) > MaxIncidents THEN Len(all) - MaxIncidents + 1 ELSE 1
  IN  [f EXCEPT !.incidents = SubSeq(all, first, Len(all)), !.current = id]

Recent(f) == Cardinality({i \in DOMAIN f.incidents : f.incidents[i].age <= TenMinutes})
Repeated(f) == diskOk /\ Recent(f) >= 2

\* After an incident the monitor always goes on to the repair.
MutantRepair(f) == IF Repeated(f) THEN "profile" ELSE "delete"  \* mutated: repaired once
Repair(f) == "delete"

Unused == CHOOSE id \in Ids :
  /\ id \notin {file.incidents[i].id : i \in DOMAIN file.incidents} \cup {file.current, mon.incident}
  /\ \A other \in Ids : other < id =>
       other \in {file.incidents[i].id : i \in DOMAIN file.incidents} \cup {file.current, mon.incident}

WebhookDetected ==
  LET id == Unused
      f  == Saved(Opened(file, id))
  IN  /\ mon.pc = "info"
      /\ telegram.webhook # NoWebhook
      /\ Raise([mon EXCEPT !.incident = id], f, "unauthorized_webhook",
               IF Repeated(f) THEN CRITICAL ELSE ERROR, Repair(f))
      /\ UNCHANGED <<config, telegram, phase, poll, calm, diskOk, heard, intact, faults>>

MutantMarked(f, status) ==                        \* mutated: the first one on file
  [f EXCEPT !.incidents = [i \in DOMAIN @ |->
     IF i = 1 THEN [@[i] EXCEPT !.status = status] ELSE @[i]]]
Marked(f, status) ==
  [f EXCEPT !.incidents = [i \in DOMAIN @ |->
     IF @[i].id = mon.incident THEN [@[i] EXCEPT !.status = status] ELSE @[i]]]

RecoveryFails(f) == Raise(mon, f, "recovery_failed", CRITICAL, "raised")

Delete ==
  /\ mon.pc = "delete"
  /\ telegram' = [telegram EXCEPT !.webhook = NoWebhook]
  /\ Goto(mon, file, "verify")
  /\ UNCHANGED <<config, phase, poll, calm, diskOk, heard, intact, faults>>

\* A call that fails may still have had its effect.
DeleteFails ==
  /\ mon.pc = "delete"
  /\ ~calm
  /\ \E webhook \in {telegram.webhook, NoWebhook} :
       telegram' = [telegram EXCEPT !.webhook = webhook]
  /\ RecoveryFails(Saved(Marked(file, "recovery_failed")))
  /\ UNCHANGED <<config, phase, poll, calm, diskOk, heard, intact, faults>>

Verified ==
  /\ mon.pc = "verify"
  /\ telegram.webhook = NoWebhook
  /\ Goto([mon EXCEPT !.sawEmpty = TRUE, !.incident = None],
          Saved(Marked(file, "auto_recovered")), "profile")
  /\ UNCHANGED <<config, telegram, phase, poll, calm, diskOk, heard, intact, faults>>

VerifyFails ==
  /\ mon.pc = "verify"
  /\ telegram.webhook # NoWebhook \/ ~calm
  /\ RecoveryFails(Saved(Marked(file, "recovery_failed")))
  /\ UNCHANGED <<config, telegram, phase, poll, calm, diskOk, heard, intact, faults>>

CheckProfile ==
  /\ mon.pc = "profile"
  /\ IF telegram.profileOk THEN Goto(mon, file, "heartbeat")
     ELSE Raise(mon, file, "profile_mismatch", ERROR,
                IF config.restore THEN "restore" ELSE "heartbeat")
  /\ UNCHANGED <<config, telegram, phase, poll, calm, diskOk, heard, intact, faults>>

Restore ==
  /\ mon.pc = "restore"
  /\ telegram' = [telegram EXCEPT !.profileOk = TRUE]
  /\ Goto(mon, file, "heartbeat")
  /\ UNCHANGED <<config, phase, poll, calm, diskOk, heard, intact, faults>>

RestoreFails ==
  /\ mon.pc = "restore"
  /\ ~calm
  /\ \E ok \in BOOLEAN : telegram' = [telegram EXCEPT !.profileOk = ok]
  /\ Raise(mon, file, "restore_failed", CRITICAL, "heartbeat")
  /\ UNCHANGED <<config, phase, poll, calm, diskOk, heard, intact, faults>>

\* The state is stamped, and a streak of network failures is over.
StreakOver(m) == [m EXCEPT !.failures = 0, !.told = FALSE]

AfterCheck == IF phase = "starting" THEN "started" ELSE "sleep"
Heartbeat ==
  LET f == Saved([file EXCEPT !.lastEmpty = 0])
  IN  /\ mon.pc = "heartbeat"
      /\ IF mon.failures > 0 /\ mon.told
         THEN Raise(StreakOver(mon), f, "network_recovered", INFO, AfterCheck)
         ELSE Goto(StreakOver(mon), f, AfterCheck)
      /\ UNCHANGED <<config, telegram, phase, poll, calm, diskOk, heard, intact, faults>>

(* SecurityAlerts.send after its awaits: some channel took it, or none did. *)
MutantTold == mon.told \/ mon.key = "network_failed"     \* mutated: whether delivered or not
Told == mon.told

Delivered ==
  /\ mon.pc = "sending"
  /\ mon' = [mon EXCEPT !.pc = mon.next, !.key = "none", !.next = "sleep",
                        !.told = Told \/ mon.key = "network_failed"]
  /\ heard' = IF mon.key \in {"network_failed", "network_recovered"} THEN mon.key ELSE heard
  /\ UNCHANGED <<config, telegram, phase, poll, file, calm, diskOk, intact, faults>>

Undelivered ==
  /\ mon.pc = "sending"
  /\ ~calm
  /\ mon' = [mon EXCEPT !.pc = mon.next, !.key = "none", !.next = "sleep", !.told = Told]
  /\ UNCHANGED <<config, telegram, phase, poll, file, calm, diskOk, heard, intact, faults>>

-----------------------------------------------------------------------------
(* Between checks, and what main.run does with the monitor.                 *)
Started ==
  /\ mon.pc = "started"
  /\ Goto(mon, file, "sleep")
  /\ phase' = "syncing"
  /\ UNCHANGED <<config, telegram, poll, calm, diskOk, heard, intact, faults>>

Wake ==
  /\ mon.pc = "sleep" /\ mon.slept
  /\ Goto([mon EXCEPT !.slept = FALSE, !.sawEmpty = FALSE], file, "me")
  /\ UNCHANGED <<config, telegram, phase, poll, calm, diskOk, heard, intact, faults>>

\* StartupSyncService.run reports, whatever failed, and never raises.
StartPolling ==
  /\ phase = "syncing"
  /\ phase' = "polling"
  /\ UNCHANGED <<config, world, watch, poll, file, intact>>

Greater(a, b) == IF a < b THEN b ELSE a
Newest(S) == IF S = {} THEN 0 ELSE CHOOSE u \in S : \A v \in S : v <= u

\* record_completed_update, for one or several updates.
MutantCompleted(f, updates) ==                    \* mutated: the last to finish
  IF updates = {} THEN f ELSE [f EXCEPT !.maxCompleted = Newest(updates)]
Completed(f, updates) == [f EXCEPT !.maxCompleted = Greater(@, Newest(updates))]

Down ==
  /\ phase' = "down"
  /\ mon' = Off
  /\ poll' = [poll EXCEPT !.handling = {}]
  /\ UNCHANGED <<config, telegram, calm, diskOk, heard>>

\* _await_while_monitoring: what runs beside the monitor ends with it.
MutantStop ==                                     \* mutated: startup is not watched
  /\ mon.pc = "raised" /\ phase # "syncing"
  /\ Down
  /\ file' = Saved(Completed(file, poll.handling))
  /\ UNCHANGED <<intact, faults>>

Stop ==
  /\ mon.pc = "raised"
  /\ Down
  /\ file' = Saved(Completed(file, poll.handling))
  /\ UNCHANGED <<intact, faults>>

\* Polling ends when the process is told to terminate; handlers are cancelled.
Shutdown ==
  /\ phase = "polling"
  /\ Fault
  /\ Down
  /\ file' = Saved(Completed(file, poll.handling))
  /\ intact' = FALSE

Crash ==
  /\ phase # "down"
  /\ Fault
  /\ Down
  /\ UNCHANGED file
  /\ intact' = FALSE

\* systemd: Restart=always.
Restart ==
  /\ phase = "down"
  /\ phase' = "starting"
  /\ mon' = Fresh
  /\ poll' = [received |-> telegram.offset, handling |-> {}]
  /\ UNCHANGED <<config, world, file, heard, intact>>

-----------------------------------------------------------------------------
(* Updates, UpdateAuditMiddleware.  Update u is the next of the batch, or   *)
(* the first of another: getUpdates confirms those before and is refused    *)
(* while a webhook is set.  A new process starts from what is confirmed.    *)
\* record_received_update: also the first update since the current incident.
MutantAwaits(incident) == incident.status = "auto_recovered"  \* mutated: the last one
Awaits(incident) == incident.status = "auto_recovered" /\ incident.recovered = 0
Received(f, u) ==
  [f EXCEPT !.maxReceived = Greater(@, u),
            !.incidents = [i \in DOMAIN @ |->
              IF @[i].id = f.current /\ Awaits(@[i]) THEN [@[i] EXCEPT !.recovered = u]
              ELSE @[i]]]

\* When the write is refused the middleware raises: no handler runs.
Receive ==
  LET u == poll.received + 1
  IN  /\ phase = "polling"
      /\ u <= MaxUpdates
      /\ \/ poll.received > telegram.offset /\ UNCHANGED telegram
         \/ /\ telegram.webhook = NoWebhook
            /\ telegram' = [telegram EXCEPT !.offset = poll.received]
      /\ file' = Saved(Received(file, u))
      /\ poll' = [received |-> u, handling |-> IF diskOk THEN poll.handling \cup {u}
                                                         ELSE poll.handling]
      /\ UNCHANGED <<config, calm, diskOk, faults, phase, watch, intact>>

Complete ==
  \E u \in poll.handling :
    /\ file' = Saved(Completed(file, {u}))
    /\ poll' = [poll EXCEPT !.handling = @ \ {u}]
    /\ UNCHANGED <<config, world, phase, watch, intact>>

-----------------------------------------------------------------------------
Call == GetMe \/ WebhookEmpty \/ WebhookDetected \/ Delete \/ Verified
        \/ CheckProfile \/ Restore \/ Heartbeat \/ Delivered
Failure == CheckFails \/ IdentityMismatch \/ DeleteFails \/ VerifyFails
           \/ RestoreFails \/ Undelivered
Monitor == Call \/ Failure \/ Started \/ Wake
Environment == SetWebhook \/ ChangeProfile \/ Trouble \/ Calm \/ DiskFails
               \/ DiskRepaired \/ Interval \/ Crash \/ Shutdown \/ Restart
Process == StartPolling \/ Stop \/ Receive \/ Complete
Next == Monitor \/ Environment \/ Process

Spec == Init /\ [][Next]_vars

(* The event loop runs whatever is ready, every call is answered or times   *)
(* out, and time passes.  Nothing is assumed of users, of what goes wrong,  *)
(* of repairs to the machine, of startup synchronisation or of systemd.     *)
Fairness == WF_vars(Monitor) /\ WF_vars(Interval) /\ WF_vars(Stop)
FairSpec == Spec /\ Fairness

-----------------------------------------------------------------------------
Services == [webhook : Ages \cup {NoWebhook}, profileOk : BOOLEAN, offset : 0..MaxUpdates]

Monitors ==
  [pc : {"me", "info", "delete", "verify", "profile", "restore", "heartbeat",
         "sending", "started", "sleep", "raised", "off"},
   key : Keys \cup {"none"},
   next : {"info", "delete", "restore", "heartbeat", "started", "raised", "sleep"},
   incident : {None} \cup Ids, failures : 0..AlertThreshold, told : BOOLEAN,
   warned : BOOLEAN, slept : BOOLEAN, lastSent : Sendings, sawEmpty : BOOLEAN]

Files ==
  [incidents : Seq(Incidents), current : {None} \cup Ids, lastEmpty : Ages,
   alerts : Sendings, maxReceived : 0..MaxUpdates, maxCompleted : 0..MaxUpdates]

TypeOK ==
  /\ config \in Configs
  /\ telegram \in Services
  /\ phase \in {"starting", "syncing", "polling", "down"}
  /\ mon \in Monitors
  /\ poll \in [received : 0..MaxUpdates,
               handling : SUBSET (1..MaxUpdates)]
  /\ file \in Files /\ Len(file.incidents) <= MaxIncidents
  /\ diskOk \in BOOLEAN /\ intact \in BOOLEAN
  /\ heard \in {"nothing", "network_failed", "network_recovered"}
  /\ calm \in BOOLEAN /\ faults \in 0..MaxFaults

(* The marks an incident report compares keep their order: the newest       *)
(* update completed is never ahead of the newest received and neither goes  *)
(* back, with handlers finishing in any order, updates delivered again      *)
(* after a restart and writes refused in between.                           *)
WatermarksSound ==
  [][/\ file'.maxCompleted <= file'.maxReceived
     /\ file.maxReceived <= file'.maxReceived
     /\ file.maxCompleted <= file'.maxCompleted]_vars

(* The first update after an incident is recorded once and for good, for    *)
(* the current incident only and only after its webhook was seen removed.   *)
FirstUpdateKept ==
  [][\A i \in DOMAIN file.incidents, j \in DOMAIN file'.incidents :
       LET a == file.incidents[i]  b == file'.incidents[j]
       IN  (a.id = b.id /\ a.recovered # b.recovered)
             => a.recovered = 0 /\ a.status = "auto_recovered" /\ a.id = file.current]_vars

(* The state file vouches for an empty webhook, and a process goes on from  *)
(* its first check, only when that very check saw the webhook empty, at     *)
(* first or after a repair: no failure on the way lets a check through.     *)
VouchedFor ==
  [][(file'.lastEmpty < file.lastEmpty \/ (phase = "starting" /\ phase' = "syncing"))
       => mon.sawEmpty]_vars

(* No incident is left open: unless a write was refused or the process was  *)
(* ended from outside, an incident still "detected" is the one the monitor  *)
(* is repairing now, and a failed repair is on file as failed.              *)
IncidentsClosed ==
  \A i \in DOMAIN file.incidents :
    file.incidents[i].status = "detected"
      => \/ ~intact
         \/ /\ mon.incident = file.incidents[i].id
            /\ mon.pc \in {"sending", "delete", "verify"}

(* Administrators are told that the network recovered only if the last they *)
(* heard of it is that it had failed.                                       *)
RecoveryIsNews ==
  (mon.pc = "sending" /\ mon.key = "network_recovered") => heard = "network_failed"

(* A webhook does not stay: once the process runs beyond its first check    *)
(* and Telegram answers, the webhook is removed or the process ends, even   *)
(* when startup synchronisation never returns and the disk is full.         *)
RepairOrStop ==
  (telegram.webhook # NoWebhook /\ phase \in {"syncing", "polling"})
     ~> (telegram.webhook = NoWebhook \/ phase = "down" \/ ~calm)
====
