--------------------------- MODULE ReportDialogs ---------------------------
(***************************************************************************)
(* The dialogues of one administrator that end in a report.                *)
(*                                                                         *)
(* Numbered lists (app/bot/handlers/admin.py): the bot shows players, he   *)
(* types a number, and it is looked up in the list kept with the           *)
(* dialogue's state.  The report panel (app/bot/handlers/admin_panel.py):  *)
(* keyboards whose buttons hold only a place, looked up in the same way.   *)
(* All share one state and one set of data (FSMContext, in memory), while  *)
(* messages and keyboards stay in the chat when both are gone.             *)
(*                                                                         *)
(* A handler suspends while it reads the database or sends a message, and  *)
(* others run in between.                                                  *)
(***************************************************************************)
EXTENDS Integers, Sequences, FiniteSets

CONSTANTS Orders,       \* the rankings that the tables may give
          Handlers,     \* bound: handlers at work at once
          Keyboards,    \* bound: messages of the panel
          PanelPage,    \* buttons on a page
          MaxRequests,  \* bound: messages typed and buttons pressed
          MaxChanges    \* bound: changes of the ranking and of the cycle

ASSUME DialogsAssumption == PanelPage \in Nat \ {0} /\ <<>> \in Orders

Numbered == {"mine", "contribution", "violations", "all"}
Reports  == {"breakdown", "other"}

\* Where the handlers of a dialogue stand in the router: the first that
\* matches takes a message, so a state's handler shadows the later menus.
StartAt  == [mine |-> 1, contribution |-> 3, violations |-> 5, all |-> 6]
NumberAt == [mine |-> 2, contribution |-> 4, violations |-> 7, all |-> 8]

VARIABLES
  order,     \* the ranking as the tables give it now
  closed,    \* completed cycles
  changes,   \* changes of these two so far
  fsm,       \* the administrator's state and data
  board,     \* the messages of the panel
  last,      \* the list of players shown last
  busy,      \* handlers at work
  requests,  \* requests so far
  answer     \* the report sent last: what was asked for and what is in it

world == <<order, closed, changes>>
dialogVars == <<world, fsm, board, last, busy, requests, answer>>

NoList    == [list |-> <<>>, no |-> 0]
Forgotten == [state |-> "none", lists |-> [k \in Numbered |-> <<>>],
              cycles |-> NoList, players |-> NoList, period |-> 0,
              report |-> "none", from |-> 0]
Removed   == [kind |-> "none"]
AtRest    == [step |-> "none"]
NoAnswer  == [asked |-> <<>>, given |-> <<>>, clean |-> TRUE]

DialogsInit ==
  /\ order \in Orders /\ closed \in 0..1 /\ changes = 0
  /\ fsm = Forgotten
  /\ board = [m \in Keyboards |-> Removed]
  /\ last = [kind |-> "none", list |-> <<>>, clean |-> TRUE]
  /\ busy = [h \in Handlers |-> AtRest]
  /\ requests = 0 /\ answer = NoAnswer

\* A request comes; its number marks the lists it leads to.
Arrives == requests < MaxRequests /\ requests' = requests + 1

Starting(h) == busy[h].step \in {"options", "text", "show"}

-----------------------------------------------------------------------------
(* The world: polls and jobs change the ranking, a league closes a cycle.  *)
\* A list read before a change and its text read after it may differ.
Reshuffle(o) ==
  /\ changes < MaxChanges /\ changes' = changes + 1
  /\ order' = o
  /\ busy' = [h \in Handlers |->
       IF busy[h].step = "text" THEN [busy[h] EXCEPT !.clean = FALSE] ELSE busy[h]]
  /\ UNCHANGED <<closed, fsm, board, last, requests, answer>>

CompleteCycle ==
  /\ changes < MaxChanges /\ changes' = changes + 1
  /\ closed' = closed + 1
  /\ UNCHANGED <<order, fsm, board, last, busy, requests, answer>>

\* The process ends: memory is lost, the chat stays.
RestartDialogs ==
  /\ fsm' = Forgotten
  /\ busy' = [h \in Handlers |-> AtRest]
  /\ UNCHANGED <<world, board, last, requests, answer>>

-----------------------------------------------------------------------------
(* Numbered lists.                                                         *)
MayStart(k) == \/ fsm.state = "none"
               \/ fsm.state \in Numbered /\ StartAt[k] < NumberAt[fsm.state]

AskList(h, k) ==
  /\ Arrives
  /\ busy[h] = AtRest /\ MayStart(k)
  /\ LET alone == \A g \in Handlers : ~Starting(g) IN
     busy' = [g \in Handlers |->
       IF g = h THEN [step |-> IF k \in {"violations", "all"} THEN "options" ELSE "text",
                      kind |-> k, list |-> <<>>, clean |-> alone]
       ELSE IF Starting(g) THEN [busy[g] EXCEPT !.clean = FALSE] ELSE busy[g]]
  /\ UNCHANGED <<world, fsm, board, last, answer>>

\* Violations are read twice: the players to choose from, then the text.
ReadOptions(h) ==
  /\ busy[h].step = "options"
  /\ busy' = [busy EXCEPT ![h].step = "text", ![h].list = order]
  /\ UNCHANGED <<world, fsm, board, last, requests, answer>>

\* Whether a start opens its dialogue with the players it read.
Opens(k, options) ==
  \/ k = "mine" /\ Len(options) > 1
  \/ k = "contribution"
  \/ k \in {"violations", "all"} /\ options # <<>>

Kept(k, options) ==
  LET base == IF k = "all" THEN Forgotten ELSE fsm
  IN IF Opens(k, options) THEN [base EXCEPT !.state = k, !.lists[k] = options] ELSE base

KeepList(h) ==
  LET k == busy[h].kind
      options == IF k \in {"violations", "all"} THEN busy[h].list ELSE order
  IN
  /\ busy[h].step = "text"
  /\ fsm' = Kept(k, options)
  /\ busy' = IF Opens(k, options)
             THEN [busy EXCEPT ![h].step = "show", ![h].list = order]
             ELSE [busy EXCEPT ![h] = AtRest]
  /\ UNCHANGED <<world, board, last, requests, answer>>

ShowList(h) ==
  /\ busy[h].step = "show"
  /\ last' = [kind |-> busy[h].kind, list |-> busy[h].list, clean |-> busy[h].clean]
  /\ busy' = [busy EXCEPT ![h] = AtRest]
  /\ UNCHANGED <<world, fsm, board, requests, answer>>

\* A number of the list he sees last.  Out of range of the list that is
\* kept, it is refused and the dialogue goes on.
TypeNumber(h, i) ==
  LET k == fsm.state IN
  /\ Arrives
  /\ busy[h] = AtRest /\ k \in Numbered /\ i \in DOMAIN last.list
  /\ busy' = IF i \notin DOMAIN fsm.lists[k] THEN busy
             ELSE [busy EXCEPT ![h] =
               [step  |-> IF k = "contribution" THEN "forget" ELSE "send", from |-> k,
                asked |-> <<last.kind, last.list[i]>>, given |-> <<k, fsm.lists[k][i]>>,
                clean |-> last.clean /\ \A g \in Handlers : ~Starting(g)]]
  /\ UNCHANGED <<world, fsm, board, last, answer>>

\* Other lists clear the dialogue after the report, be it still theirs.
SendReport(h) ==
  /\ busy[h].step = "send"
  /\ answer' = [asked |-> busy[h].asked, given |-> busy[h].given, clean |-> busy[h].clean]
  /\ busy' = [busy EXCEPT ![h] =
       IF @.from \in Numbered \ {"contribution"} THEN [step |-> "clear"] ELSE AtRest]
  /\ UNCHANGED <<world, fsm, board, last, requests>>

Forget(h) ==
  /\ busy[h].step \in {"forget", "clear"}
  /\ fsm' = Forgotten
  /\ busy' = [busy EXCEPT ![h] = IF @.step = "forget" THEN [@ EXCEPT !.step = "send"] ELSE AtRest]
  /\ UNCHANGED <<world, board, last, requests, answer>>

\* A read or a message fails.  Some dialogues are cleared, others stay; one
\* that is open although its list never arrived makes the last list stale.
HandlerFails(h) ==
  /\ busy[h].step \in {"options", "text", "show", "forget", "send", "run"}
  /\ LET k == IF Starting(h) THEN busy[h].kind ELSE busy[h].from IN
     fsm' = IF k = "all" \/ (~Starting(h) /\ k \in {"mine", "violations"}) THEN Forgotten ELSE fsm
  /\ last' = [last EXCEPT !.clean = @ /\ busy[h].step # "show"]
  /\ busy' = [busy EXCEPT ![h] = AtRest]
  /\ UNCHANGED <<world, board, requests, answer>>

\* "Back" in a numbered list; the panel's menus, its closing, its start.
ClearDialogue ==
  /\ Arrives
  /\ fsm' = Forgotten
  /\ UNCHANGED <<world, board, last, busy, answer>>

-----------------------------------------------------------------------------
(* The report panel.  A period is the number of its cycle, 0 for all time  *)
(* and -1 for dates typed in.                                              *)
Custom == -1
Completed == [i \in 1..closed |-> closed + 1 - i]
Visible(screen) == {i \in DOMAIN screen.list : (i - 1) \div PanelPage = screen.page}

OpenReport(m, r) ==
  /\ Arrives
  /\ fsm' = Forgotten
  /\ board' = [board EXCEPT ![m] = [kind |-> "periods", report |-> r]]
  /\ UNCHANGED <<world, last, busy, answer>>

\* Every button of the panel and every date typed ends here.
Run(h, report, asked, given, clean) ==
  busy' = [busy EXCEPT ![h] = [step |-> "run", from |-> "panel", no |-> requests',
             asked |-> <<report, asked>>, given |-> <<report, given>>, clean |-> clean]]

PressPeriod(h, m, period) ==
  /\ Arrives
  /\ busy[h] = AtRest /\ board[m].kind = "periods"
  /\ period \in {0, closed, closed + 1}   \* without a cycle before, refused
  /\ Run(h, board[m].report, period, period, TRUE)
  /\ UNCHANGED <<world, fsm, board, last, answer>>

PressCycles(h, m) ==
  /\ Arrives
  /\ busy[h] = AtRest /\ board[m].kind = "periods"
  /\ busy' = [busy EXCEPT ![h] = [step |-> "cycles", on |-> m, report |-> board[m].report,
                                  no |-> requests']]
  /\ UNCHANGED <<world, fsm, board, last, answer>>

ListCycles(h) ==
  /\ busy[h].step = "cycles"
  /\ IF closed = 0 THEN UNCHANGED <<fsm, board>>
     ELSE /\ fsm' = [fsm EXCEPT !.cycles = [list |-> Completed, no |-> busy[h].no]]
          /\ board' = [board EXCEPT ![busy[h].on] =
               [kind |-> "cycles", report |-> busy[h].report,
                list |-> Completed, no |-> busy[h].no, page |-> 0]]
  /\ busy' = [busy EXCEPT ![h] = AtRest]
  /\ UNCHANGED <<world, last, requests, answer>>

\* Another page is drawn from the data.  A list of cycles is drawn anew;
\* of a list of players only the buttons, its text keeps the old period.
TurnPage(m, page) ==
  LET old == board[m]
      kept == IF old.kind = "cycles" THEN fsm.cycles ELSE fsm.players IN
  /\ old.kind \in {"cycles", "players"}
  /\ page \in {old.page - 1, old.page + 1} /\ page >= 0 /\ page * PanelPage < Len(old.list)
  /\ Arrives
  /\ board' = [board EXCEPT ![m] =
       [old EXCEPT !.list = kept.list, !.page = page,
                   !.no = IF old.kind = "cycles" THEN kept.no ELSE old.no]]
  /\ UNCHANGED <<world, fsm, last, busy, answer>>

PressCycle(h, m, i) ==
  /\ board[m].kind = "cycles" /\ i \in Visible(board[m])
  /\ Arrives
  /\ busy[h] = AtRest
  /\ IF i \notin DOMAIN fsm.cycles.list THEN UNCHANGED busy
     ELSE Run(h, board[m].report, board[m].list[i], fsm.cycles.list[i],
              board[m].no = fsm.cycles.no)
  /\ UNCHANGED <<world, fsm, board, last, answer>>

PressCustom(m) ==
  /\ Arrives
  /\ board[m].kind = "periods"
  /\ fsm' = [fsm EXCEPT !.state = "from", !.report = board[m].report]
  /\ UNCHANGED <<world, board, last, busy, answer>>

TypeFrom(day) ==
  /\ Arrives
  /\ fsm.state = "from"
  /\ fsm' = [fsm EXCEPT !.state = "to", !.from = day]
  /\ UNCHANGED <<world, board, last, busy, answer>>

\* An end before the start is refused.
TypeTo(h, day) ==
  /\ Arrives
  /\ busy[h] = AtRest /\ fsm.state = "to" /\ day >= fsm.from
  /\ fsm' = Forgotten
  /\ Run(h, fsm.report, Custom, Custom, TRUE)
  /\ UNCHANGED <<world, board, last, answer>>

StepBack ==
  /\ Arrives
  /\ \/ /\ fsm.state = "to" /\ fsm' = [fsm EXCEPT !.state = "from"] /\ UNCHANGED board
     \/ /\ fsm.state = "from" /\ fsm' = Forgotten
        /\ \E m \in Keyboards :
             /\ board[m] = Removed
             /\ board' = [board EXCEPT ![m] = [kind |-> "periods", report |-> fsm.report]]
  /\ UNCHANGED <<world, last, busy, answer>>

\* A breakdown shows the players of the period to choose from.
MutantKeptPlayers(h) ==  \* mutated: the period of an earlier list stays
  [fsm EXCEPT !.players = [list |-> order, no |-> busy[h].no]]
KeptPlayers(h) == [fsm EXCEPT !.players = [list |-> order, no |-> busy[h].no],
                              !.period = busy[h].given[2]]

RunReport(h) ==
  /\ busy[h].step = "run"
  /\ IF busy[h].given[1] = "breakdown"
     THEN /\ fsm' = KeptPlayers(h)
          /\ \E m \in Keyboards :
               /\ board[m] = Removed
               /\ board' = [board EXCEPT ![m] =
                    [kind |-> "players", period |-> busy[h].given[2],
                     list |-> order, no |-> busy[h].no, page |-> 0]]
     ELSE UNCHANGED <<fsm, board>>
  /\ busy' = [busy EXCEPT ![h].step = "send"]
  /\ UNCHANGED <<world, last, requests, answer>>

PressPlayer(h, m, i) ==
  /\ board[m].kind = "players" /\ i \in Visible(board[m])
  /\ Arrives
  /\ busy[h] = AtRest
  /\ busy' = IF i \notin DOMAIN fsm.players.list THEN busy
             ELSE [busy EXCEPT ![h] =
               [step  |-> "send", from |-> "panel", no |-> 0,
                asked |-> <<board[m].period, board[m].list[i]>>,
                given |-> <<fsm.period, fsm.players.list[i]>>,
                clean |-> board[m].no = fsm.players.no]]
  /\ UNCHANGED <<world, fsm, board, last, answer>>

CloseMessage(m) ==
  /\ Arrives
  /\ board[m] # Removed
  /\ board' = [board EXCEPT ![m] = Removed] /\ fsm' = Forgotten
  /\ UNCHANGED <<world, last, busy, answer>>

-----------------------------------------------------------------------------
NumberedNext ==
  \/ \E h \in Handlers :
       \/ \E k \in Numbered : AskList(h, k)
       \/ ReadOptions(h) \/ KeepList(h) \/ ShowList(h)
       \/ \E i \in 1..2 : TypeNumber(h, i)
       \/ SendReport(h) \/ Forget(h) \/ HandlerFails(h)
  \/ ClearDialogue \/ RestartDialogs
  \/ \E o \in Orders : Reshuffle(o)

PanelNext ==
  \/ \E m \in Keyboards :
       \/ \E r \in Reports : OpenReport(m, r)
       \/ PressCustom(m) \/ CloseMessage(m)
       \/ \E page \in 0..2 : TurnPage(m, page)
       \/ \E h \in Handlers :
            \/ \E period \in 0..(closed + 1) : PressPeriod(h, m, period)
            \/ PressCycles(h, m)
            \/ \E i \in 1..3 : PressCycle(h, m, i) \/ PressPlayer(h, m, i)
  \/ \E h \in Handlers :
       \/ ListCycles(h) \/ RunReport(h) \/ SendReport(h) \/ HandlerFails(h)
       \/ \E day \in 1..2 : TypeTo(h, day)
  \/ \E day \in 1..2 : TypeFrom(day)
  \/ StepBack \/ RestartDialogs \/ CompleteCycle
  \/ \E o \in Orders : Reshuffle(o)

DialogsNext == NumberedNext \/ PanelNext
DialogsSpec == DialogsInit /\ [][DialogsNext]_dialogVars

-----------------------------------------------------------------------------
\* A report is of what was asked for: the player whose number stood in the
\* list shown last, or the cycle, or the player and period, that a button
\* showed, whatever else is typed and pressed and whenever the ranking
\* changes.  The exceptions are, for a number: another list was asked for
\* before this one or its report came, a list did not arrive, or the
\* ranking changed between the two readings of a list of violations; for a
\* button: another list of its kind has been kept since.
AnswersWhatWasAsked == answer.clean => answer.given = answer.asked
=============================================================================
