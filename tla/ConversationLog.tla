--------------------------- MODULE ConversationLog ---------------------------
(***************************************************************************)
(* The conversation log: every update and every answer of the bot is       *)
(* appended to the file of its chat (app/conversations/logger.py and its   *)
(* middlewares), and an administrator pages through a chat from its newest *)
(* records to its oldest (app/services/conversation_history.py,            *)
(* app/bot/handlers/conversation_admin.py).                                *)
(*                                                                         *)
(* The administrator talks to the bot too: each button he presses is a     *)
(* record of his own chat, also while he reads just that.  A record is the *)
(* number of the write in its chat.  Writing and reading do not suspend    *)
(* the bot, so each is one step.                                           *)
(***************************************************************************)
EXTENDS JsonLines

CONSTANTS Chats, Desk,   \* private chats; the administrator's own
          LogLines,      \* max_bytes, in lines
          LogBackups,    \* backup_count
          BufferLines,   \* what a reader decodes at a time, in lines
          PageSize,
          MaxRecords,    \* bound: records of one chat
          MaxCuts        \* bound: writes that fail

ASSUME LogAssumption ==
  /\ Desk \in Chats /\ LogLines \in Nat \ {0} /\ LogBackups \in Nat
  /\ BufferLines \in Nat \ {0} /\ PageSize \in Nat \ {0}

VARIABLES logs,   \* the files of each chat
          sent,   \* records written or lost, per chat
          cuts,   \* writes that failed so far
          screen  \* the administrator's message: a list of chats or a page

logVars == <<logs, sent, cuts, screen>>

Blank == [kind |-> "none"]

-----------------------------------------------------------------------------
\* The first k steps of a rotation: the oldest file is removed, which is
\* the only one if there are no backups, and the others move up.
RotationSteps(journal, k) ==
  LET after[i \in 0..k] ==
        IF i = 0 THEN journal
        ELSE IF i = 1 THEN [journal EXCEPT ![LogBackups] = <<>>]
        ELSE Shifted(after[i - 1], LogBackups + 1 - i)
  IN  after[k]

Fits(journal) == journal[0] = <<>> \/ Len(journal[0]) + 1 <= LogLines

StepsNeeded(journal) == IF Fits(journal) THEN 0 ELSE LogBackups + 1

\* Russian is written as it is (ensure_ascii=False), in two bytes a letter:
\* a write may end within one.
CutLines(e) == TornLines(e) \cup {[text |-> <<>>, bytes |-> "cut", ended |-> FALSE]}

\* The middlewares swallow what goes wrong in a write: the update is
\* handled and the answer sent, but the rotation stopped half way, or no
\* record or half of one is in the file.
LogWrite(c) ==
  LET n    == sent[c] + 1
      need == StepsNeeded(logs[c])
      With(line) == [logs EXCEPT ![c] = Longer(RotationSteps(@, need), line)]
  IN
  /\ sent[c] < MaxRecords
  /\ sent' = [sent EXCEPT ![c] = n]
  /\ \/ logs' = With(Line(n)) /\ UNCHANGED cuts
     \/ /\ cuts < MaxCuts /\ cuts' = cuts + 1
        /\ \/ \E k \in 0..need : logs' = [logs EXCEPT ![c] = RotationSteps(@, k)]
           \/ \E line \in CutLines(n) : logs' = With(line)

-----------------------------------------------------------------------------
(* ConversationHistoryService.                                             *)

\* _read_path decodes a buffer at a time and gives the file up at the first
\* byte that fits into no character, with the lines of that buffer.  Half a
\* character at the very end is only met after all lines were read.
Decoded(file) ==
  LET bad   == {i \in DOMAIN file : file[i].bytes # "whole"}
      first == Min(bad)
  IN  IF bad = {} THEN file
      ELSE IF file[first].bytes = "cut" THEN SubSeq(file, 1, first - 1)
      ELSE SubSeq(file, 1, BufferLines * ((first - 1) \div BufferLines))

Readable(journal) == [i \in DOMAIN journal |-> Decoded(journal[i])]

MutantRecords(journal) ==  \* mutated: the other files from the newest to the oldest
  Oldest2Newest(Readable(journal), [i \in 1..(LogBackups + 1) |-> i % (LogBackups + 1)])
\* _paths and _records: a file that is not there is as good as an empty one.
Records(journal) == Oldest2Newest(Readable(journal), AllFiles(LogBackups))

PageOf(c, records, asked) ==
  LET total == Len(records)
      pages == Max({1, (total + PageSize - 1) \div PageSize})
      page  == Min({asked, pages - 1})
      end   == total - page * PageSize
  IN [kind |-> "page", chat |-> c, asked |-> asked, page |-> page, pages |-> pages,
      shown |-> SubSeq(records, Max({0, end - PageSize}) + 1, end), newest |-> Last(records)]

KnownChats(journals) == {c \in Chats : Records(journals[c]) # <<>>}

-----------------------------------------------------------------------------
LogInit ==
  /\ logs = [c \in Chats |-> [i \in 0..LogBackups |-> <<>>]]
  /\ sent = [c \in Chats |-> 0]
  /\ cuts = 0
  /\ screen = Blank

\* A message of a user, or an answer of the bot.
Talk(c) == LogWrite(c) /\ UNCHANGED screen

\* The list of chats, asked for by a message or a button.
ListChats ==
  /\ LogWrite(Desk)
  /\ screen' = [kind |-> "chats", chats |-> KnownChats(logs')]

\* The pages that the buttons on the screen lead to.
Buttons ==
  CASE screen.kind = "chats" -> {<<c, 0>> : c \in screen.chats}
    [] screen.kind = "page"  ->
         {<<screen.chat, p>> : p \in {screen.page - 1, screen.page + 1} \cap 0..(screen.pages - 1)}
    [] OTHER -> {}

\* What is put on the screen is not logged.
ViewPage(button) ==
  LET records == Records(logs'[button[1]]) IN
  /\ LogWrite(Desk)
  /\ screen' = IF records = <<>> THEN screen
               ELSE PageOf(button[1], records, button[2])

CloseScreen == screen # Blank /\ LogWrite(Desk) /\ screen' = Blank

LogNext ==
  \/ \E c \in Chats : Talk(c)
  \/ ListChats
  \/ \E button \in Buttons : ViewPage(button)
  \/ CloseScreen

LogSpec == LogInit /\ [][LogNext]_logVars

-----------------------------------------------------------------------------
\* Reading back misses nothing.  The newest page ends with the newest record
\* that can be read, and "older" passes nothing over: no record that can
\* still be read lies between the page it leaves and the one it shows,
\* whatever was written in between, rotated away or lost.  (Except when the
\* newest record of the page's time was lost since, the next one being glued
\* to it.  "Newer" gives no such promise: what was written in between pushes
\* records over the edge, and the press itself is written to the
\* administrator's own chat.)
ReadingBackMissesNothing ==
  [][screen'.kind = "page" /\ screen' # screen =>
       LET readable == ToSet(Records(logs'[screen'.chat])) IN
       /\ screen'.page = 0 => Last(screen'.shown) = Max(readable)
       /\ (/\ screen.kind = "page" /\ screen.chat = screen'.chat
           /\ screen'.asked = screen.page + 1
           /\ screen.newest \in readable)
          => \A r \in readable : r < Head(screen.shown) => r <= Last(screen'.shown)
    ]_logVars
=============================================================================
