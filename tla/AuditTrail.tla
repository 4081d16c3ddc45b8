----------------------------- MODULE AuditTrail -----------------------------
(***************************************************************************)
(* The hash chain of the security audit (class JsonlAudit of               *)
(* app/security/audit.py) and the report that verifies it                  *)
(* (scripts/incident_report.py).  The bot and an operator's script append  *)
(* under a lock; the report reads the files one after another without it,  *)
(* while they are appended to and rotated.                                 *)
(*                                                                         *)
(* An event's hash is its number, 0 the empty hash before the first.  A    *)
(* file's size is its number of lines.                                     *)
(***************************************************************************)
EXTENDS JsonLines

CONSTANTS Writers,       \* processes that append
          AuditLines,    \* max_bytes, in lines
          AuditBackups,  \* backup_count
          MaxEvents,     \* bound: events written
          MaxShort       \* bound: writes cut short by a full disk

ASSUME AuditAssumption == AuditBackups \in Nat \ {0} /\ AuditLines \in Nat \ {0}

VARIABLES trail,    \* the files: 0 the current one
          lock,     \* the writers that hold the lock
          writing,  \* what each writer is doing
          events,   \* events written so far
          short,    \* writes cut short so far
          report    \* the operator's report

auditVars == <<trail, lock, writing, events, short, report>>

NotWriting == [step |-> "rest"]

MutantLastHash(journal) ==  \* mutated: only the current file is looked at
  IF Parsed(journal[0]) = <<>> THEN 0 ELSE Last(Parsed(journal[0])).hash

\* The last event that can be read in the newest file that has one.
LastHash(journal) ==
  LET all == Oldest2Newest(journal, AllFiles(AuditBackups))
  IN  IF all = <<>> THEN 0 ELSE Last(all).hash

IsFull(journal) == Len(journal[0]) >= AuditLines

AuditInit ==
  /\ trail = [i \in 0..AuditBackups |-> <<>>]
  /\ lock = {} /\ events = 0 /\ short = 0
  /\ writing = [w \in Writers |-> NotWriting]
  /\ report = [todo |-> {}, read |-> <<>>, moved |-> FALSE]

-----------------------------------------------------------------------------
(* write: the lock, the hash of the last event, the rotation, the line.    *)
BeginWrite(w) ==
  /\ writing[w] = NotWriting /\ lock = {} /\ events < MaxEvents
  /\ lock' = {w}
  /\ writing' = [writing EXCEPT ![w] =
       [step |-> IF IsFull(trail) THEN "rotate" ELSE "append",
        file |-> AuditBackups, previous |-> LastHash(trail)]]
  /\ UNCHANGED <<trail, events, short, report>>

\* One file at a time: the oldest is removed, the others move up.
RotateOne(w) ==
  LET file == writing[w].file IN
  /\ writing[w].step = "rotate"
  /\ trail' = IF file = AuditBackups THEN [trail EXCEPT ![file] = <<>>] ELSE Shifted(trail, file)
  /\ writing' = IF file = 0 THEN [writing EXCEPT ![w].step = "append"]
                            ELSE [writing EXCEPT ![w].file = file - 1]
  /\ report' = [report EXCEPT !.moved = TRUE]
  /\ UNCHANGED <<lock, events, short>>

\* How much os.write wrote is not looked at.
AppendEvent(w) ==
  LET event == [hash |-> events + 1, previous |-> writing[w].previous] IN
  /\ writing[w].step = "append"
  /\ \/ trail' = Longer(trail, Line(event)) /\ UNCHANGED short
     \/ /\ short < MaxShort /\ short' = short + 1
        /\ \E line \in TornLines(event) : trail' = Longer(trail, line)
  /\ events' = events + 1
  /\ writing' = [writing EXCEPT ![w] = NotWriting]
  /\ lock' = lock \ {w}
  /\ UNCHANGED report

\* The writer is killed or one of its calls raises: the system unlocks.
GiveUpWrite(w) ==
  /\ writing[w] # NotWriting
  /\ writing' = [writing EXCEPT ![w] = NotWriting]
  /\ lock' = lock \ {w}
  /\ UNCHANGED <<trail, events, short, report>>

-----------------------------------------------------------------------------
(* The report: the names first, then each file, the highest number first.  *)
BeginReport ==
  /\ report' = [todo |-> {i \in 0..AuditBackups : i = 0 \/ trail[i] # <<>>},
                read |-> <<>>, moved |-> FALSE]
  /\ UNCHANGED <<trail, lock, writing, events, short>>

ReadOneFile ==
  /\ report.todo # {}
  /\ LET file == Max(report.todo) IN
     report' = [report EXCEPT !.todo = @ \ {file}, !.read = @ \o Parsed(trail[file])]
  /\ UNCHANGED <<trail, lock, writing, events, short>>

\* verify_hash_chain: the positions at which it reports an error.
ChainErrors(read) ==
  {i \in DOMAIN read : read[i].previous # IF i = 1 THEN 0 ELSE read[i - 1].hash}

-----------------------------------------------------------------------------
AuditNext ==
  \/ \E w \in Writers : BeginWrite(w) \/ RotateOne(w) \/ AppendEvent(w) \/ GiveUpWrite(w)
  \/ BeginReport \/ ReadOneFile

AuditSpec == AuditInit /\ [][AuditNext]_auditVars

-----------------------------------------------------------------------------
\* Whatever writers interleave, die in the middle of a rotation or have
\* their lines cut, a report during which no file moved finds every event
\* linked to the one read before it.  (The first one read has lost its
\* predecessor when a file was rotated out: verify_hash_chain then reports
\* an error although nothing is wrong, and so it may when files move while
\* it reads.)
LinksVerify ==
  report.todo = {} /\ ~report.moved => ChainErrors(report.read) \subseteq {1}
=============================================================================
