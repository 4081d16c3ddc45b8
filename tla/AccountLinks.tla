---------------------------- MODULE AccountLinks ----------------------------
(***************************************************************************)
(* Which Telegram user owns which player: telegram_player_links.  A user   *)
(* registers one player himself with a token of the game                   *)
(* (app/services/registration.py and its handlers); an administrator links *)
(* a player to a Telegram ID (app/services/admin_player_link.py and its    *)
(* dialogue) and removes links from a list.                                *)
(*                                                                         *)
(* A handler reads the table, awaits the game's server or the database,    *)
(* and writes later; others run in between.  A row has the number after    *)
(* the largest, so the number of the newest link is given out again once   *)
(* it is removed.                                                          *)
(***************************************************************************)
EXTENDS Integers, FiniteSets

CONSTANTS Users,     \* Telegram users
          Players,   \* player tags
          Workers,   \* bound: handlers at work at once
          MaxLinks   \* bound: links ever made

ASSUME AccountLinksAssumption == MaxLinks \in Nat

VARIABLES
  links,     \* telegram_player_links; checked and at are history
  made,      \* links made so far: the time that checked and at refer to
  members,   \* players in the main clan
  form,      \* the registration dialogue of each user
  wizard,    \* the administrator's dialogue
  listed,    \* the row numbers on the buttons of the removal list
  work       \* handlers between their check and their commit

linksVars == <<links, made, members, form, wizard, listed, work>>

NoForm   == [step |-> "none"]
NoWizard == [step |-> "none"]
Free     == [stage |-> "none"]

-----------------------------------------------------------------------------
OwnersOf(t) == {l.user : l \in {k \in links : k.tag = t}}
IsRegistered(u) == \E l \in links : l.user = u
NextLinkId == CHOOSE i \in 1..(Cardinality(links) + MaxLinks) :
                /\ \A l \in links : l.id < i
                /\ i = 1 \/ \E l \in links : l.id = i - 1

LinksInit ==
  /\ links = {} /\ made = 0
  /\ members \in SUBSET Players
  /\ form = [u \in Users |-> NoForm]
  /\ wizard = NoWizard
  /\ listed = {}
  /\ work = [w \in Workers |-> Free]

\* The roster job.
MoveMember(t) ==
  /\ members' = IF t \in members THEN members \ {t} ELSE members \cup {t}
  /\ UNCHANGED <<links, made, form, wizard, listed, work>>

-----------------------------------------------------------------------------
(* A handler past its check: it will link the player to the user.          *)
Take(w, via, u, t) ==
  /\ work[w] = Free
  /\ work' = [work EXCEPT ![w] =
       [stage |-> "write", via |-> via, user |-> u, tag |-> t, checked |-> made]]

\* add_link_if_missing and commit.
Write(w) ==
  LET h == work[w] IN
  /\ h.stage = "write"
  /\ IF \E l \in links : l.user = h.user /\ l.tag = h.tag
     THEN UNCHANGED <<links, made>>
     ELSE /\ made < MaxLinks
          /\ made' = made + 1
          /\ links' = links \cup {[id |-> NextLinkId, user |-> h.user, tag |-> h.tag,
                                   via |-> h.via, checked |-> h.checked, at |-> made']}
  /\ work' = [work EXCEPT ![w].stage = "clear"]
  /\ UNCHANGED <<members, form, wizard, listed>>

\* After the commit, or a failed one of the administrator's, the dialogue
\* is cleared, be it still the same or not.
Clear(w) ==
  LET h == work[w] IN
  /\ h.stage = "clear" \/ (h.stage = "write" /\ h.via = "admin")
  /\ IF h.via = "admin" THEN wizard' = NoWizard /\ UNCHANGED form
     ELSE form' = [form EXCEPT ![h.user] = NoForm] /\ UNCHANGED wizard
  /\ work' = [work EXCEPT ![w] = Free]
  /\ UNCHANGED <<links, made, members, listed>>

-----------------------------------------------------------------------------
(* Registration.  Every message first asks whether the user is registered. *)
Ask(u, step, next) ==
  /\ form[u].step = step
  /\ form' = [form EXCEPT ![u] = IF IsRegistered(u) THEN NoForm ELSE next]
  /\ UNCHANGED <<links, made, members, wizard, listed, work>>

\* The command works in every state of the dialogue.
StartRegistration(u) == Ask(u, form[u].step, [step |-> "tag"])
GiveTag(u, t) == Ask(u, "tag", [step |-> "token", tag |-> t])

\* register_player asks once more, then awaits the game's verdict.
MutantMayRegister(u) == TRUE  \* mutated
MayRegister(u) == ~IsRegistered(u)
GiveToken(u, w) ==
  /\ form[u].step = "token"
  /\ IF MayRegister(u)
     THEN Take(w, "token", u, form[u].tag) /\ UNCHANGED form
     ELSE form' = [form EXCEPT ![u] = NoForm] /\ UNCHANGED work
  /\ UNCHANGED <<links, made, members, wizard, listed>>

\* A wrong token, or no answer of the game: the dialogue waits for another.
TokenRefused(w) ==
  /\ work[w].stage = "write" /\ work[w].via = "token"
  /\ work' = [work EXCEPT ![w] = Free]
  /\ UNCHANGED <<links, made, members, form, wizard, listed>>

-----------------------------------------------------------------------------
(* The administrator's dialogue; buttons of old lists still work in it.    *)
Turn(next) ==
  /\ wizard' = next
  /\ UNCHANGED <<links, made, members, form, listed, work>>

StartLink == Turn([step |-> "id"])   \* also: another Telegram ID
CancelLink == wizard.step # "none" /\ Turn(NoWizard)

GiveId(u) == /\ wizard.step = "id"
             /\ Turn(IF members = {} THEN NoWizard
                     ELSE [step |-> "player", target |-> u])

\* link_player: refused for a player outside the clan or of another owner,
\* and nothing to do when the link exists.
MutantForeign(t, u) == OwnersOf(t) \ Users  \* mutated
Foreign(t, u) == OwnersOf(t) \ {u}
PickPlayer(t, w) ==
  /\ wizard.step = "player" /\ t \in members
  /\ Foreign(t, wizard.target) = {}
  /\ IF wizard.target \in OwnersOf(t)
     THEN Turn(NoWizard)
     ELSE /\ Take(w, "admin", wizard.target, t)
          /\ UNCHANGED <<links, made, members, form, wizard, listed>>

ShowLinks ==
  /\ links # {} /\ listed' = {l.id : l \in links}
  /\ UNCHANGED <<links, made, members, form, wizard, work>>

\* The button carries the row's number.
Unlink == \E i \in listed :
  /\ links' = {l \in links : l.id # i}
  /\ UNCHANGED <<made, members, form, wizard, listed, work>>

\* The process restarts.
RestartLinks ==
  /\ form' = [u \in Users |-> NoForm]
  /\ wizard' = NoWizard
  /\ work' = [w \in Workers |-> Free]
  /\ UNCHANGED <<links, made, members, listed>>

LinksNext ==
  \/ \E t \in Players : MoveMember(t)
  \/ \E u \in Users : StartRegistration(u) \/ GiveId(u)
  \/ \E u \in Users, t \in Players : GiveTag(u, t)
  \/ \E u \in Users, w \in Workers : GiveToken(u, w)
  \/ \E w \in Workers : TokenRefused(w) \/ Write(w) \/ Clear(w)
  \/ \E t \in Players, w \in Workers : PickPlayer(t, w)
  \/ StartLink \/ CancelLink \/ ShowLinks \/ Unlink \/ RestartLinks

LinksSpec == LinksInit /\ [][LinksNext]_linksVars

-----------------------------------------------------------------------------
\* An administrator never gives a player that has an owner a second one: two
\* owners mean that the later proved his ownership with a token, or that the
\* earlier link was committed after the later's check and before its write.
SecondOwnerByTokenOrRace == \A k, l \in links :
  (k.tag = l.tag /\ k.user # l.user /\ k.at < l.at)
  => l.via = "token" \/ l.checked < k.at

\* A user with a player does not register another himself, whatever dialogues
\* he begins: a second one was checked before the first was committed.
RegistersOnceUnlessRace == \A k, l \in links :
  (k.user = l.user /\ k.at < l.at /\ l.via = "token") => l.checked < k.at
=============================================================================
