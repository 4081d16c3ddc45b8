---------------------------- MODULE ManualPoints ----------------------------
(***************************************************************************)
(* Manual contribution points.  Two dialogues write the same table: the    *)
(* button of the old menu (app/bot/handlers/admin.py) and the sections of  *)
(* the panel (app/bot/handlers/admin_panel.py).  Both choose a player,     *)
(* take points and a comment, show a confirmation and store a row of       *)
(* manual_contribution_adjustments when its button is pressed.             *)
(*                                                                         *)
(* One administrator: dialogues belong to a chat and meet only in the      *)
(* table.  Its handlers run concurrently and may be interleaved wherever   *)
(* they await the database; the dialogue's own storage is in memory, never *)
(* suspends, and is lost with the process.  Buttons of messages sent long  *)
(* ago still work.  A player is a row number of player_accounts, which a   *)
(* purge frees for the next newcomer.                                      *)
(***************************************************************************)
EXTENDS Integers, Sequences, FiniteSets

CONSTANTS Tags,             \* players of the game
          Ids,              \* row numbers of player_accounts
          Points,           \* amounts an administrator enters
          Slots,            \* bound: confirm handlers at work at once
          Budgets           \* bound: each behaviour has one of these

ASSUME ManualPointsAssumption ==
  /\ IsFiniteSet(Ids) /\ Ids = 1..Cardinality(Ids)
  /\ Points \subseteq Nat \ {0}
  /\ Budgets \subseteq [clan : Nat, shown : Nat, moves : Nat, cycles : Nat,
                         presses : Nat, forms : SUBSET {"menu", "panel"}]
  /\ \A b \in Budgets : 1..b.clan \subseteq Ids

\* A player as an administrator was shown him; since is the cycle of that.
Options == [id : Nat, tag : Tags, since : Nat]
Nobody  == [id |-> 0]
MenuSteps  == {"choosing", "points", "comment", "confirming"}
PanelSteps == {"adjusting", "reason", "approving"}

VARIABLES
  account,       \* player_accounts: row number of each player, 0 if none
  inClan,        \* players now in the main clan
  lastSeen,      \* cycle a player was last seen in
  cycle,         \* the current cycle
  budget,        \* bound: forms open; players, messages... left
  dialogue,      \* the administrator's FSM state and data
  confirmations, \* confirmation messages shown; a menu token is its place
  handlers,      \* confirm handlers at work
  adjustments    \* manual_contribution_adjustments

roster == <<account, inClan, lastSeen, cycle, budget>>
desk == <<dialogue, confirmations, handlers, adjustments>>
pointsVars == <<roster, desk>>

-----------------------------------------------------------------------------
\* state.clear()
Cleared == [step |-> "none", chosen |-> Nobody, points |-> 0, token |-> 0,
            listed |-> {}, sign |-> -1, picked |-> Nobody, signed |-> 0]
Resting == [stage |-> "none"]

CurrentPlayers == {[id |-> account[t], tag |-> t, since |-> cycle] : t \in inClan}
LastAccount == CHOOSE i \in {0} \cup Ids :
                 /\ i \in {account[t] : t \in Tags} \cup {0}
                 /\ \A t \in Tags : account[t] <= i

PointsInit ==
  /\ budget \in Budgets
  /\ inClan \in {c \in SUBSET Tags : Cardinality(c) = budget.clan}
  /\ account \in {f \in [Tags -> 0..Cardinality(inClan)] :
                   /\ \A t \in Tags : f[t] = 0 <=> t \notin inClan
                   /\ \A t, u \in inClan : f[t] = f[u] => t = u}
  /\ lastSeen = [t \in Tags |-> 0]
  /\ cycle = 0
  /\ dialogue = Cleared
  /\ confirmations = <<>>
  /\ handlers = [s \in Slots |-> Resting]
  /\ adjustments = <<>>

-----------------------------------------------------------------------------
(* The clan: players come and go; the roster job gives a newcomer the row  *)
(* number after the largest, and purges who was absent for a whole cycle.  *)
Spend(what) == budget[what] > 0 /\ budget' = [budget EXCEPT ![what] = @ - 1]

Join(t) ==
  /\ Spend("moves")
  /\ t \notin inClan
  /\ account[t] = 0 => LastAccount + 1 \in Ids
  /\ inClan' = inClan \cup {t}
  /\ account' = [account EXCEPT ![t] = IF @ = 0 THEN LastAccount + 1 ELSE @]
  /\ UNCHANGED <<lastSeen, cycle, desk>>

Leave(t) ==
  /\ Spend("moves")
  /\ t \in inClan
  /\ inClan' = inClan \ {t}
  /\ lastSeen' = [lastSeen EXCEPT ![t] = cycle]
  /\ UNCHANGED <<account, cycle, desk>>

NextCycle ==
  /\ Spend("cycles")
  /\ cycle' = cycle + 1
  /\ UNCHANGED <<account, inClan, lastSeen, desk>>

MutantAbsentLong(t) == t \notin inClan /\ lastSeen[t] < cycle  \* mutated
AbsentLong(t) == t \notin inClan /\ lastSeen[t] < cycle - 1
Purge(t) ==
  /\ account[t] # 0 /\ AbsentLong(t)
  /\ account' = [account EXCEPT ![t] = 0]
  /\ UNCHANGED <<inClan, lastSeen, cycle, budget, desk>>

-----------------------------------------------------------------------------
(* The dialogues.  Data that are always overwritten before they are read   *)
(* again are forgotten at once; Say(d) is a handler that only changes the  *)
(* dialogue.                                                               *)
Live(d) ==
  [d EXCEPT !.token  = IF d.step = "confirming" THEN @ ELSE 0,
            !.picked = IF d.step \in PanelSteps THEN @ ELSE Nobody,
            !.signed = IF d.step \in {"reason", "approving"} THEN @ ELSE 0]

Say(d) ==
  /\ dialogue' = Live(d)
  /\ UNCHANGED <<roster, confirmations, handlers, adjustments>>

\* A confirmation is shown; it names the player and the points.
Show(form, option, points, d) ==
  /\ Spend("shown")
  /\ confirmations' = Append(confirmations,
       [form |-> form, player |-> option.id, tag |-> option.tag,
        points |-> points, since |-> option.since])
  /\ dialogue' = Live(d)
  /\ UNCHANGED <<account, inClan, lastSeen, cycle, handlers, adjustments>>

\* The menu's button keeps the data of an earlier dialogue.
StartMenu == /\ "menu" \in budget.forms
             /\ dialogue.step \notin {"adjusting", "reason"}
             /\ Say([dialogue EXCEPT !.step = "choosing"])

\* A button with a player's row number, pressed in whatever state.
Pick == /\ "menu" \in budget.forms
        /\ \E o \in CurrentPlayers :
             Say([dialogue EXCEPT !.chosen = o, !.step = "points"])

EnterPoints == /\ dialogue.step = "points"
               /\ \E n \in Points : Say([dialogue EXCEPT !.points = n, !.step = "comment"])

\* Without a player or points the message cannot be built: the state is
\* left at the confirmation, of a token nobody was shown.
EnterComment ==
  /\ dialogue.step = "comment"
  /\ IF dialogue.chosen = Nobody \/ dialogue.points = 0
     THEN Say([dialogue EXCEPT !.token = 0, !.step = "confirming"])
     ELSE Show("menu", dialogue.chosen, dialogue.points,
               [dialogue EXCEPT !.token = Len(confirmations) + 1, !.step = "confirming"])

\* The back button, in any state; the back text is the same in its states.
Back == /\ "menu" \in budget.forms
        /\ Say(CASE dialogue.step = "points"   -> [dialogue EXCEPT !.step = "choosing"]
                  [] dialogue.step = "comment"  -> [dialogue EXCEPT !.step = "points"]
                  [] dialogue.step = "choosing" -> Cleared
                  [] OTHER                      -> [dialogue EXCEPT !.step = "comment"])

\* Cancel, the panel's cancel and abort, its navigation, and /start.
Cancel == Say(Cleared)

StartPanel ==
  /\ "panel" \in budget.forms
  /\ \E sign \in {1, -1} : Say([Cleared EXCEPT !.listed = CurrentPlayers, !.sign = sign])

\* The player is looked up in the list the dialogue began with.
PickListed == \E o \in dialogue.listed :
  Say([dialogue EXCEPT !.picked = o, !.step = "adjusting"])

EnterAdjustment ==
  /\ dialogue.step = "adjusting"
  /\ \E n \in Points :
       Say([dialogue EXCEPT !.signed = n * dialogue.sign, !.step = "reason"])

EnterReason ==
  /\ dialogue.step = "reason"
  /\ Show("panel", dialogue.picked, dialogue.signed, [dialogue EXCEPT !.step = "approving"])

PanelBack ==
  \/ dialogue.step = "adjusting" /\ Say(Cleared)
  \/ dialogue.step = "reason" /\ Say([dialogue EXCEPT !.step = "adjusting"])

-----------------------------------------------------------------------------
(* Confirmation.  The handler reads the dialogue, stores and commits, and  *)
(* clears the dialogue; it awaits in between.                              *)
Used(token) == \E i \in 1..Len(adjustments) : adjustments[i].token = token

Begin(s, form, option, points, token) ==
  /\ handlers[s].stage = "none"
  /\ Spend("presses")
  /\ handlers' = [handlers EXCEPT ![s] =
       [stage |-> "store", form |-> form, player |-> option.id, points |-> points,
        token |-> token, shown |-> Len(confirmations)]]
  /\ UNCHANGED <<account, inClan, lastSeen, cycle, dialogue, confirmations, adjustments>>

\* Not stored before, still confirming, and the token is the latest.
MutantOpen(k) == ~Used(k) /\ dialogue.step = "confirming"  \* mutated
Open(k) == ~Used(k) /\ dialogue.step = "confirming" /\ dialogue.token = k

Confirm(s) == \E k \in 1..Len(confirmations) :
  /\ confirmations[k].form = "menu"
  /\ Open(k)
  /\ Begin(s, "menu", dialogue.chosen, dialogue.points, k)

\* The panel's button carries no token.
Approve(s) ==
  /\ dialogue.step = "approving"
  /\ Begin(s, "panel", dialogue.picked, dialogue.signed, 0)

\* The menu looks the player up again, by row number, and its token is
\* unique in the table; the panel has a token of its own for every press.
MayStore(h) == h.form = "menu" =>
  /\ \E t \in inClan : account[t] = h.player
  /\ ~Used(h.token)

Store(s) ==
  /\ handlers[s].stage = "store" /\ MayStore(handlers[s])
  /\ adjustments' = Append(adjustments,
       [player |-> handlers[s].player, points |-> handlers[s].points, token |-> handlers[s].token,
        shown |-> handlers[s].shown, cycle |-> cycle])
  /\ handlers' = [handlers EXCEPT ![s].stage = "clear"]
  /\ UNCHANGED <<roster, dialogue, confirmations>>

\* The player left, the token was used, or the database failed.
StoreFails(s) ==
  /\ handlers[s].stage = "store"
  /\ handlers' = [handlers EXCEPT ![s] = Resting]
  /\ UNCHANGED <<roster, dialogue, confirmations, adjustments>>

MutantAfterStore == dialogue  \* mutated
AfterStore == Cleared
Finish(s) ==
  /\ handlers[s].stage = "clear"
  /\ handlers' = [handlers EXCEPT ![s] = Resting]
  /\ dialogue' = AfterStore
  /\ UNCHANGED <<roster, confirmations, adjustments>>

\* The process restarts: dialogues and handlers are gone.
Restart ==
  /\ dialogue' = Cleared
  /\ handlers' = [s \in Slots |-> Resting]
  /\ UNCHANGED <<roster, confirmations, adjustments>>

PointsNext ==
  \/ \E t \in Tags : Join(t) \/ Leave(t) \/ Purge(t)
  \/ NextCycle
  \/ StartMenu \/ Pick \/ EnterPoints \/ EnterComment \/ Back \/ Cancel
  \/ StartPanel \/ PickListed \/ EnterAdjustment \/ EnterReason \/ PanelBack
  \/ \E s \in Slots : Confirm(s) \/ Approve(s) \/ Store(s) \/ StoreFails(s) \/ Finish(s)
  \/ Restart

PointsSpec == PointsInit /\ [][PointsNext]_pointsVars

-----------------------------------------------------------------------------
Shown(r) == confirmations[r.shown]

\* Whatever was pressed and however the dialogues were mixed, a stored row
\* has the player and the points of the confirmation the administrator was
\* shown last; a row of the menu is the one its own button promised.
PointsAsConfirmed == \A i \in 1..Len(adjustments) :
  LET r == adjustments[i] IN
  /\ r.shown \in 1..Len(confirmations)
  /\ r.player = Shown(r).player /\ r.points = Shown(r).points
  /\ r.token # 0 => r.token = r.shown

\* What a confirmation stored is stored again only by a press of the panel's
\* button that was accepted before the first press had cleared the dialogue:
\* the menu's token and the cleared dialogue refuse every other press, those
\* after a restart and on older messages included.
StoredAgainOnlyOverlapping ==
  [][/\ \A s \in Slots :
          (handlers[s].stage = "none" /\ handlers'[s].stage = "store")
          => \A j \in 1..Len(adjustments) : adjustments[j].shown = handlers'[s].shown
               => \E u \in Slots : handlers[u].stage = "clear"
                                   /\ handlers[u].shown = adjustments[j].shown
     /\ \A i \in 1..Len(adjustments'), j \in 1..Len(adjustments) :
          (i > Len(adjustments) /\ adjustments'[i].shown = adjustments[j].shown)
          => adjustments'[i].token = 0]_pointsVars

\* Points count by row number.  In the current cycle they count for another
\* player than the one shown only when the dialogue outlived a whole cycle.
InheritedOnlyFromStale == \A i \in 1..Len(adjustments), t \in Tags :
  LET r == adjustments[i] IN
  (r.cycle = cycle /\ account[t] = r.player /\ t # Shown(r).tag) => r.cycle >= Shown(r).since + 2
=============================================================================
