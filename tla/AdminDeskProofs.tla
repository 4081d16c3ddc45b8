-------------------------- MODULE AdminDeskProofs --------------------------
(***************************************************************************)
(* Theorems about the administrators' desk: ManualPoints, for any players, *)
(* amounts, budgets and number of handlers at work, and AccountLinks, for  *)
(* any users, players and number of handlers.  The two share no state.     *)
(***************************************************************************)
EXTENDS ManualPoints, AccountLinks, SequenceTheorems, FiniteSetTheorems, TLAPS

Forms   == {"menu", "panel"}
Steps   == {"none"} \cup MenuSteps \cup PanelSteps
Buttons == [form : Forms, player : Nat, tag : Tags, points : Int, since : Nat]
Work    == [stage : {"store", "clear"}, form : Forms, player : Nat, points : Int,
            token : Nat, shown : Nat]
Rows    == [player : Nat, points : Int, token : Nat, shown : Nat, cycle : Nat]
Talks   == [step : Steps, chosen : Options \cup {Nobody}, points : Nat, token : Nat,
            listed : SUBSET Options, sign : {1, -1}, picked : Options \cup {Nobody},
            signed : Int]

PointsTypeOK ==
  /\ account \in [Tags -> Nat] /\ inClan \subseteq Tags /\ cycle \in Nat
  /\ dialogue \in Talks
  /\ dialogue.step \in PanelSteps => dialogue.picked \in Options
  /\ confirmations \in Seq(Buttons)
  /\ handlers \in [Slots -> Work \cup {Resting}]
  /\ adjustments \in Seq(Rows)

Last == Len(confirmations)

\* x is what the confirmation at its place promised, and of its form.
AsShown(x) ==
  /\ x.shown \in 1..Last
  /\ x.player = confirmations[x.shown].player
  /\ x.points = confirmations[x.shown].points
  /\ IF x.token = 0 THEN confirmations[x.shown].form = "panel"
     ELSE x.token = x.shown /\ confirmations[x.shown].form = "menu"

MenuWaits == (dialogue.step = "confirming" /\ dialogue.token # 0) =>
  /\ dialogue.token = Last /\ Last > 0
  /\ dialogue.chosen.id = confirmations[Last].player
  /\ dialogue.points = confirmations[Last].points
  /\ confirmations[Last].form = "menu"

PanelWaits == dialogue.step = "approving" =>
  /\ Last > 0
  /\ dialogue.picked.id = confirmations[Last].player
  /\ dialogue.signed = confirmations[Last].points
  /\ confirmations[Last].form = "panel"

\* The panel's dialogue outlives what its confirmation stored only while the
\* handler that stored it has yet to clear it.
StillClearing == dialogue.step = "approving" =>
  \A j \in 1..Len(adjustments) : adjustments[j].shown = Last =>
    \E u \in Slots : handlers[u].stage = "clear" /\ handlers[u].shown = Last

HandlersAsShown == \A s \in Slots : handlers[s].stage # "none" =>
  /\ AsShown(handlers[s])
  /\ handlers[s].form = "menu" <=> handlers[s].token # 0
RowsAsShown == \A i \in 1..Len(adjustments) : AsShown(adjustments[i])

PointsInv ==
  /\ PointsTypeOK
  /\ MenuWaits /\ PanelWaits /\ StillClearing
  /\ HandlersAsShown /\ RowsAsShown

USE ManualPointsAssumption

\* It holds before anything is confirmed.
LEMMA InitTyped == PointsInit => PointsInv
<1> SUFFICES ASSUME PointsInit PROVE PointsInv
  OBVIOUS
<1>1. inClan \subseteq Tags /\ account \in [Tags -> Nat] /\ cycle \in Nat
  <2>1. inClan \subseteq Tags /\ account \in [Tags -> 0..Cardinality(inClan)]
    BY DEF PointsInit
  <2> QED BY <2>1 DEF PointsInit
<1>2. /\ dialogue = Cleared /\ confirmations = <<>> /\ adjustments = <<>>
      /\ handlers = [s \in Slots |-> Resting]
  BY DEF PointsInit
<1>3. Cleared \in Talks /\ Cleared.step = "none"
  BY DEF Cleared, Talks, Steps, Options
<1>4. PointsTypeOK
  BY <1>1, <1>2, <1>3 DEF PointsTypeOK, PanelSteps
<1>5. MenuWaits /\ PanelWaits /\ StillClearing
  BY <1>2, <1>3 DEF MenuWaits, PanelWaits, StillClearing
<1>6. HandlersAsShown /\ RowsAsShown
  BY <1>2 DEF HandlersAsShown, RowsAsShown, Resting
<1> QED BY <1>4, <1>5, <1>6 DEF PointsInv

\* A dialogue whose token has been dropped is one still.
LEMMA LiveTyped ==
  ASSUME NEW d \in Talks
  PROVE  /\ Live(d) \in Talks /\ Live(d).step = d.step
         /\ Live(d).chosen = d.chosen /\ Live(d).points = d.points
         /\ d.step = "confirming" => Live(d).token = d.token
         /\ d.step # "confirming" => Live(d).token = 0
         /\ d.step \in PanelSteps => Live(d).picked = d.picked
         /\ d.step = "approving" => Live(d).signed = d.signed
<1> DEFINE a == IF d.step = "confirming" THEN d.token ELSE 0
           b == IF d.step \in PanelSteps THEN d.picked ELSE Nobody
           c == IF d.step \in {"reason", "approving"} THEN d.signed ELSE 0
           e == [d EXCEPT !.token = a]
           f == [e EXCEPT !.picked = b]
           g == [f EXCEPT !.signed = c]
<1>1. a \in Nat /\ b \in Options \cup {Nobody} /\ c \in Int
  BY DEF Talks
<1>2. /\ e \in Talks /\ e.step = d.step /\ e.chosen = d.chosen /\ e.points = d.points
      /\ e.token = a
  <2> HIDE DEF a
  <2> QED BY <1>1 DEF Talks
<1>3. /\ f \in Talks /\ f.step = d.step /\ f.chosen = d.chosen /\ f.points = d.points
      /\ f.token = a /\ f.picked = b
  <2> HIDE DEF a, b, e
  <2> QED BY <1>1, <1>2 DEF Talks
<1>4. /\ g \in Talks /\ g.step = d.step /\ g.chosen = d.chosen /\ g.points = d.points
      /\ g.token = a /\ g.picked = b /\ g.signed = c
  <2> HIDE DEF a, b, c, e, f
  <2> QED BY <1>1, <1>3 DEF Talks
<1>5. Live(d) = g
  BY DEF Live
<1>6. d.step = "approving" => d.step # "confirming" /\ d.step \in PanelSteps
  BY DEF PanelSteps
<1> HIDE DEF g
<1> QED BY <1>4, <1>5, <1>6

\* Handlers that only change the dialogue, to a step that waits for no button
\* or for one that nobody was shown.
LEMMA SayKeeps ==
  ASSUME PointsInv, NEW d \in Talks, Say(d),
         d.step \in PanelSteps => d.picked \in Options,
         d.step # "approving", d.step = "confirming" => d.token = 0
  PROVE  PointsInv'
<1>1. /\ dialogue' \in Talks /\ dialogue'.step = d.step
      /\ d.step = "confirming" => dialogue'.token = 0
      /\ d.step \in PanelSteps => dialogue'.picked \in Options
  BY LiveTyped DEF Say
<1>2. UNCHANGED <<roster, confirmations, handlers, adjustments>>
  BY DEF Say
<1>3. PointsTypeOK'
  BY <1>1, <1>2 DEF PointsInv, PointsTypeOK, roster
<1>4. MenuWaits' /\ PanelWaits' /\ StillClearing'
  BY <1>1 DEF MenuWaits, PanelWaits, StillClearing
<1>5. HandlersAsShown' /\ RowsAsShown'
  BY <1>2 DEF PointsInv, HandlersAsShown, RowsAsShown, AsShown, Last
<1> QED BY <1>3, <1>4, <1>5 DEF PointsInv

\* What an older confirmation said does not change when one is shown.
LEMMA ShowKeeps ==
  ASSUME PointsInv, NEW way \in Forms, NEW option \in Options, NEW n \in Int,
         NEW d \in Talks, Show(way, option, n, d),
         way = "menu"  => /\ d.step = "confirming" /\ d.token = Last + 1
                           /\ d.chosen = option /\ d.points = n,
         way = "panel" => d.step = "approving" /\ d.picked = option /\ d.signed = n
  PROVE  PointsInv'
<1> DEFINE button == [form |-> way, player |-> option.id, tag |-> option.tag,
                      points |-> n, since |-> option.since]
<1>1. button \in Buttons
  BY DEF Options, Buttons
<1>2. confirmations \in Seq(Buttons) /\ Last \in Nat /\ adjustments \in Seq(Rows)
  BY DEF PointsInv, PointsTypeOK, Last
<1>3. /\ confirmations' = Append(confirmations, button) /\ dialogue' = Live(d)
      /\ account' = account /\ inClan' = inClan /\ cycle' = cycle
      /\ handlers' = handlers /\ adjustments' = adjustments
  BY DEF Show
<1>4. /\ confirmations' \in Seq(Buttons) /\ Last' = Last + 1
      /\ confirmations'[Last'] = button
      /\ \A k \in 1..Last : confirmations'[k] = confirmations[k]
  <2> HIDE DEF button
  <2> QED BY <1>1, <1>2, <1>3 DEF Last
<1>5. /\ dialogue' \in Talks /\ dialogue'.step = d.step
      /\ way = "menu" => /\ d.step = "confirming" /\ dialogue'.token = Last'
                          /\ dialogue'.chosen = option /\ dialogue'.points = n
      /\ way = "panel" => /\ d.step = "approving"
                           /\ dialogue'.picked = option /\ dialogue'.signed = n
  BY <1>3, <1>4, LiveTyped DEF PanelSteps
<1>6. PointsTypeOK'
  <2>1. dialogue'.step \in PanelSteps => dialogue'.picked \in Options
    BY <1>5 DEF Forms, PanelSteps
  <2> QED BY <1>3, <1>4, <1>5, <2>1 DEF PointsInv, PointsTypeOK
<1>7. MenuWaits' /\ PanelWaits'
  <2>1. /\ button.form = way /\ button.player = option.id /\ button.points = n
    OBVIOUS
  <2> HIDE DEF button
  <2> QED BY <1>2, <1>4, <1>5, <2>1 DEF MenuWaits, PanelWaits, Forms
<1>9. HandlersAsShown' /\ RowsAsShown'
  <2>1. HandlersAsShown /\ RowsAsShown
    BY DEF PointsInv
  <2>2. RowsAsShown'
    <3> SUFFICES ASSUME NEW i \in 1..Len(adjustments) PROVE AsShown(adjustments[i])'
      BY <1>3 DEF RowsAsShown
    <3>1. AsShown(adjustments[i])
      BY <2>1 DEF RowsAsShown
    <3>2. adjustments[i]' = adjustments[i]
      BY <1>3
    <3> QED BY <1>2, <1>4, <3>1, <3>2 DEF AsShown
  <2>3. HandlersAsShown'
    <3> SUFFICES ASSUME NEW s \in Slots, handlers[s].stage # "none"
                 PROVE  AsShown(handlers[s])' /\ (handlers[s].form = "menu" <=> handlers[s].token # 0)
      BY <1>3 DEF HandlersAsShown
    <3>1. AsShown(handlers[s]) /\ (handlers[s].form = "menu" <=> handlers[s].token # 0)
      BY <2>1 DEF HandlersAsShown
    <3>2. handlers[s]' = handlers[s]
      BY <1>3
    <3> QED BY <1>2, <1>4, <3>1, <3>2 DEF AsShown
  <2> QED BY <2>2, <2>3
<1>10. StillClearing'
  <2>1. \A j \in 1..Len(adjustments) : adjustments[j].shown # Last'
    <3>1. \A j \in 1..Len(adjustments) : adjustments[j].shown \in 1..Last
      BY DEF PointsInv, RowsAsShown, AsShown
    <3> QED BY <1>2, <1>4, <3>1
  <2> QED BY <1>3, <2>1 DEF StillClearing
<1> QED BY <1>6, <1>7, <1>9, <1>10 DEF PointsInv

\* The steps of both dialogues.
Conversation ==
  \/ StartMenu \/ Pick \/ EnterPoints \/ EnterComment \/ Back \/ Cancel
  \/ StartPanel \/ PickListed \/ EnterAdjustment \/ EnterReason \/ PanelBack

\* What is picked and typed keeps it.
LEMMA ConversationKeeps == PointsInv /\ Conversation => PointsInv'
<1> SUFFICES ASSUME PointsInv, Conversation PROVE PointsInv'
  OBVIOUS
<1>1. /\ dialogue \in Talks
      /\ dialogue.step \in PanelSteps => dialogue.picked \in Options
      /\ confirmations \in Seq(Buttons) /\ Last \in Nat
  BY DEF PointsInv, PointsTypeOK, Last
<1>2. CurrentPlayers \subseteq Options
  BY DEF PointsInv, PointsTypeOK, CurrentPlayers, Options
<1>3. Cleared \in Talks /\ Cleared.step = "none"
  BY DEF Cleared, Talks, Steps, Options
<1>4. \A step \in Steps : LET d == [dialogue EXCEPT !.step = step] IN d \in Talks /\ d.step = step
  BY <1>1 DEF Talks
<1>5. \A step \in {"choosing", "points", "comment"} : step \in Steps \ PanelSteps /\ step # "confirming"
  BY DEF Steps, MenuSteps, PanelSteps
<1>6. ASSUME NEW step \in {"choosing", "points", "comment"}, Say([dialogue EXCEPT !.step = step])
      PROVE  PointsInv'
  <2>1. step \in Steps /\ step \notin PanelSteps /\ step # "confirming" /\ step # "approving"
    BY <1>6, <1>5
  <2> DEFINE d == [dialogue EXCEPT !.step = step]
  <2>2. d \in Talks /\ d.step = step
    BY <1>4, <2>1
  <2> HIDE DEF d
  <2>3. Say(d)
    BY <1>6 DEF d
  <2> QED BY <2>1, <2>2, <2>3, SayKeeps
<1>7. CASE Say(Cleared)
  BY <1>3, <1>7, SayKeeps DEF PanelSteps
<1>8. CASE StartMenu
  BY <1>6, <1>8 DEF StartMenu
<1>9. CASE Pick
  <2>1. PICK o \in Options : Say([dialogue EXCEPT !.chosen = o, !.step = "points"])
    BY <1>2, <1>9 DEF Pick
  <2> DEFINE d == [dialogue EXCEPT !.chosen = o, !.step = "points"]
  <2>2. d \in Talks /\ d.step = "points"
    BY <1>1 DEF Talks, Steps, MenuSteps
  <2> HIDE DEF d
  <2>3. Say(d)
    BY <2>1 DEF d
  <2> QED BY <2>2, <2>3, SayKeeps DEF PanelSteps
<1>10. CASE EnterPoints
  <2>1. PICK n \in Nat : Say([dialogue EXCEPT !.points = n, !.step = "comment"])
    BY <1>10 DEF EnterPoints
  <2> DEFINE d == [dialogue EXCEPT !.points = n, !.step = "comment"]
  <2>2. d \in Talks /\ d.step = "comment"
    BY <1>1 DEF Talks, Steps, MenuSteps
  <2> HIDE DEF d
  <2>3. Say(d)
    BY <2>1 DEF d
  <2> QED BY <2>2, <2>3, SayKeeps DEF PanelSteps
<1>11. CASE EnterComment
  <2> DEFINE k == IF dialogue.chosen = Nobody \/ dialogue.points = 0 THEN 0 ELSE Len(confirmations) + 1
             d == [dialogue EXCEPT !.token = k, !.step = "confirming"]
  <2>0. k \in Nat
    BY <1>1 DEF Last
  <2>1. /\ d \in Talks /\ d.step = "confirming" /\ d.token = k
        /\ d.chosen = dialogue.chosen /\ d.points = dialogue.points
    <3> HIDE DEF k
    <3> QED BY <1>1, <2>0 DEF Talks, Steps, MenuSteps
  <2>2. CASE k = 0
    <3>1. Say(d)
      <4>1. dialogue.chosen = Nobody \/ dialogue.points = 0
        BY <1>1, <2>2 DEF Last
      <4>2. Say([dialogue EXCEPT !.token = 0, !.step = "confirming"])
        BY <1>11, <4>1 DEF EnterComment
      <4> HIDE DEF k
      <4> QED BY <2>2, <4>2
    <3> HIDE DEF d
    <3> QED BY <2>1, <2>2, <3>1, SayKeeps DEF PanelSteps
  <2>3. CASE k # 0
    <3>1. /\ Show("menu", dialogue.chosen, dialogue.points, d)
          /\ dialogue.chosen \in Options /\ dialogue.points \in Int /\ k = Last + 1
      <4>1. /\ ~(dialogue.chosen = Nobody \/ dialogue.points = 0)
            /\ k = Len(confirmations) + 1
        BY <2>3
      <4>2. Show("menu", dialogue.chosen, dialogue.points,
                 [dialogue EXCEPT !.token = Len(confirmations) + 1, !.step = "confirming"])
        BY <1>11, <4>1 DEF EnterComment
      <4>3. dialogue.chosen \in Options /\ dialogue.points \in Int
        BY <1>1, <4>1 DEF Talks
      <4> HIDE DEF k
      <4> QED BY <4>1, <4>2, <4>3 DEF Last
    <3> HIDE DEF d, k
    <3> QED BY <2>1, <3>1, ShowKeeps DEF Forms
  <2> QED BY <2>2, <2>3
<1>12. CASE Back
  BY <1>6, <1>7, <1>12 DEF Back
<1>13. CASE Cancel
  BY <1>7, <1>13 DEF Cancel
<1>14. CASE StartPanel
  <2>1. PICK sign \in {1, -1} : Say([Cleared EXCEPT !.listed = CurrentPlayers, !.sign = sign])
    BY <1>14 DEF StartPanel
  <2> DEFINE d == [Cleared EXCEPT !.listed = CurrentPlayers, !.sign = sign]
  <2>2. d \in Talks /\ d.step = "none"
    <3> HIDE DEF CurrentPlayers
    <3> QED BY <1>2, <1>3 DEF Talks
  <2> HIDE DEF d
  <2>3. Say(d)
    BY <2>1 DEF d
  <2> QED BY <2>2, <2>3, SayKeeps DEF PanelSteps
<1>15. CASE PickListed
  <2>1. PICK o \in Options : Say([dialogue EXCEPT !.picked = o, !.step = "adjusting"])
    BY <1>1, <1>15 DEF PickListed, Talks
  <2> DEFINE d == [dialogue EXCEPT !.picked = o, !.step = "adjusting"]
  <2>2. d \in Talks /\ d.step = "adjusting" /\ d.picked = o
    BY <1>1 DEF Talks, Steps, PanelSteps
  <2> HIDE DEF d
  <2>3. Say(d)
    BY <2>1 DEF d
  <2> QED BY <2>2, <2>3, SayKeeps
<1>16. CASE EnterAdjustment
  <2>1. PICK n \in Nat : Say([dialogue EXCEPT !.signed = n * dialogue.sign, !.step = "reason"])
    BY <1>16 DEF EnterAdjustment
  <2>2. dialogue.sign \in Int /\ dialogue.picked \in Options
    BY <1>1, <1>16 DEF Talks, EnterAdjustment, PanelSteps
  <2> DEFINE m == n * dialogue.sign
             d == [dialogue EXCEPT !.signed = m, !.step = "reason"]
  <2>3. m \in Int
    BY <2>2
  <2>4. d \in Talks /\ d.step = "reason" /\ d.picked = dialogue.picked
    <3> HIDE DEF m
    <3> QED BY <1>1, <2>3 DEF Talks, Steps, PanelSteps
  <2>5. Say(d)
    BY <2>1
  <2> HIDE DEF d
  <2> QED BY <2>2, <2>4, <2>5, SayKeeps
<1>17. CASE EnterReason
  <2> DEFINE d == [dialogue EXCEPT !.step = "approving"]
  <2>1. /\ d \in Talks /\ d.step = "approving"
        /\ d.picked = dialogue.picked /\ d.signed = dialogue.signed
    BY <1>1 DEF Talks, Steps, PanelSteps
  <2>2. dialogue.picked \in Options /\ dialogue.signed \in Int
    BY <1>1, <1>17 DEF EnterReason, PanelSteps, Talks
  <2>3. Show("panel", dialogue.picked, dialogue.signed, d)
    BY <1>17 DEF EnterReason
  <2> HIDE DEF d
  <2> QED BY <2>1, <2>2, <2>3, ShowKeeps DEF Forms
<1>18. CASE PanelBack
  <2>1. CASE Say(Cleared)
    BY <1>7, <2>1
  <2>2. CASE dialogue.step = "reason" /\ Say([dialogue EXCEPT !.step = "adjusting"])
    <3> DEFINE d == [dialogue EXCEPT !.step = "adjusting"]
    <3>1. d \in Talks /\ d.step = "adjusting" /\ d.picked = dialogue.picked
      BY <1>1 DEF Talks, Steps, PanelSteps
    <3>2. dialogue.picked \in Options
      BY <1>1, <2>2 DEF PanelSteps
    <3>3. Say(d)
      BY <2>2
    <3> HIDE DEF d
    <3> QED BY <3>1, <3>2, <3>3, SayKeeps
  <2> QED BY <1>18, <2>1, <2>2 DEF PanelBack
<1> QED
  BY <1>8, <1>9, <1>10, <1>11, <1>12, <1>13, <1>14, <1>15, <1>16, <1>17, <1>18 DEF Conversation

-----------------------------------------------------------------------------
(* The clan and the handlers of the confirmations.                         *)

\* Steps of the clan: no dialogue, handler or row changes.
LEMMA ClanKeeps ==
  ASSUME PointsInv, UNCHANGED desk,
         account' \in [Tags -> Nat], inClan' \subseteq Tags, cycle' \in Nat
  PROVE  PointsInv'
<1>1. /\ UNCHANGED <<dialogue, confirmations, handlers, adjustments>>
  BY DEF desk
<1>2. PointsTypeOK'
  BY <1>1 DEF PointsInv, PointsTypeOK
<1>3. MenuWaits' /\ PanelWaits' /\ StillClearing'
  BY <1>1 DEF PointsInv, MenuWaits, PanelWaits, StillClearing, Last
<1>4. HandlersAsShown' /\ RowsAsShown'
  BY <1>1 DEF PointsInv, HandlersAsShown, RowsAsShown, AsShown, Last
<1> QED BY <1>2, <1>3, <1>4 DEF PointsInv

\* A handler begins with what the dialogue holds, which is what the last
\* confirmation said.
LEMMA BeginKeeps ==
  ASSUME PointsInv, NEW s \in Slots, Confirm(s) \/ Approve(s)
  PROVE  /\ PointsInv'
         /\ handlers'[s].shown = Last
         /\ \A u \in Slots \ {s} : handlers'[u] = handlers[u]
         /\ adjustments' = adjustments
         /\ dialogue.step = "approving"
            \/ \A j \in 1..Len(adjustments) : adjustments[j].shown # Last
<1>t. /\ dialogue \in Talks /\ confirmations \in Seq(Buttons) /\ Last \in Nat
      /\ handlers \in [Slots -> Work \cup {Resting}] /\ adjustments \in Seq(Rows)
  BY DEF PointsInv, PointsTypeOK, Last
<1>1. PICK way \in Forms, option \in Options \cup {Nobody}, n \in Int, k \in Nat :
        /\ Begin(s, way, option, n, k)
        /\ Last > 0
        /\ option.id = confirmations[Last].player /\ n = confirmations[Last].points
        /\ confirmations[Last].form = way
        /\ way = "menu" <=> k # 0
        /\ k # 0 => k = Last /\ ~Used(k)
        /\ way = "panel" => dialogue.step = "approving"
  <2>1. CASE Confirm(s)
    <3>1. PICK k \in 1..Len(confirmations) :
            Open(k) /\ Begin(s, "menu", dialogue.chosen, dialogue.points, k)
      BY <2>1 DEF Confirm
    <3>2. k \in Nat /\ k # 0 /\ dialogue.step = "confirming" /\ dialogue.token = k /\ ~Used(k)
      BY <3>1 DEF Open
    <3>3. /\ k = Last /\ Last > 0
          /\ dialogue.chosen.id = confirmations[Last].player
          /\ dialogue.points = confirmations[Last].points
          /\ confirmations[Last].form = "menu"
      BY <3>2 DEF PointsInv, MenuWaits
    <3>4. dialogue.chosen \in Options \cup {Nobody} /\ dialogue.points \in Int
      BY <1>t DEF Talks
    <3> QED BY <3>1, <3>2, <3>3, <3>4 DEF Forms
  <2>2. CASE Approve(s)
    <3>1. /\ dialogue.step = "approving"
          /\ Begin(s, "panel", dialogue.picked, dialogue.signed, 0)
      BY <2>2 DEF Approve
    <3>2. /\ Last > 0
          /\ dialogue.picked.id = confirmations[Last].player
          /\ dialogue.signed = confirmations[Last].points
          /\ confirmations[Last].form = "panel"
      BY <3>1 DEF PointsInv, PanelWaits
    <3>3. dialogue.picked \in Options \cup {Nobody} /\ dialogue.signed \in Int
      BY <1>t DEF Talks
    <3> QED BY <3>1, <3>2, <3>3 DEF Forms
  <2> QED BY <2>1, <2>2
<1> DEFINE w == [stage |-> "store", form |-> way, player |-> option.id, points |-> n,
                 token |-> k, shown |-> Last]
<1>2. /\ handlers[s].stage = "none" /\ handlers' = [handlers EXCEPT ![s] = w]
      /\ account' = account /\ inClan' = inClan /\ cycle' = cycle
      /\ UNCHANGED <<dialogue, confirmations, adjustments>>
  BY <1>1 DEF Begin, Last
<1>3. option.id \in Nat
  BY DEF Options, Nobody
<1>4. w \in Work
  BY <1>t, <1>3 DEF Work
<1>5. AsShown(w) /\ (w.form = "menu" <=> w.token # 0) /\ w.stage = "store" /\ w.shown = Last
  BY <1>1, <1>t DEF AsShown, Forms
<1> HIDE DEF w
<1>6. /\ handlers' \in [Slots -> Work \cup {Resting}] /\ handlers'[s] = w
      /\ \A u \in Slots \ {s} : handlers'[u] = handlers[u]
  BY <1>t, <1>2, <1>4
<1>7. PointsTypeOK'
  BY <1>2, <1>6 DEF PointsInv, PointsTypeOK
<1>8. MenuWaits' /\ PanelWaits'
  BY <1>2 DEF PointsInv, MenuWaits, PanelWaits, Last
<1>9. StillClearing'
  BY <1>2, <1>5, <1>6 DEF PointsInv, StillClearing, Last
<1>10. RowsAsShown'
  BY <1>2 DEF PointsInv, RowsAsShown, AsShown, Last
<1>11. HandlersAsShown'
  <2> SUFFICES ASSUME NEW u \in Slots, handlers'[u].stage # "none"
               PROVE  AsShown(handlers[u])' /\ (handlers'[u].form = "menu" <=> handlers'[u].token # 0)
    BY DEF HandlersAsShown
  <2>1. AsShown(handlers'[u]) /\ (handlers'[u].form = "menu" <=> handlers'[u].token # 0)
    <3>1. CASE u = s
      BY <1>5, <1>6, <3>1
    <3>2. CASE u # s
      BY <1>6, <3>2 DEF PointsInv, HandlersAsShown
    <3> QED BY <3>1, <3>2
  <2> QED BY <1>2, <2>1 DEF AsShown, Last
<1>12. dialogue.step = "approving" \/ \A j \in 1..Len(adjustments) : adjustments[j].shown # Last
  <2> SUFFICES ASSUME way = "menu", NEW j \in 1..Len(adjustments), adjustments[j].shown = Last
               PROVE  FALSE
    BY <1>1 DEF Forms
  <2>1. AsShown(adjustments[j])
    BY DEF PointsInv, RowsAsShown
  <2>2. adjustments[j].token = Last
    BY <1>1, <2>1 DEF AsShown
  <2> QED BY <1>1, <2>2 DEF Used
<1> QED
  BY <1>2, <1>5, <1>6, <1>7, <1>8, <1>9, <1>10, <1>11, <1>12 DEF PointsInv

\* A row is what its handler holds.  A row of the menu is the first with its
\* confirmation, for its token was not in the table.
LEMMA StoreKeeps ==
  ASSUME PointsInv, NEW s \in Slots, Store(s)
  PROVE  /\ PointsInv'
         /\ Len(adjustments') = Len(adjustments) + 1
         /\ \A i \in 1..Len(adjustments) : adjustments'[i] = adjustments[i]
         /\ \A u \in Slots : handlers'[u].stage = "store" => handlers[u].stage = "store"
         /\ LET r == adjustments'[Len(adjustments')]
            IN r.token = 0 \/ \A j \in 1..Len(adjustments) : adjustments[j].shown # r.shown
<1>t. /\ confirmations \in Seq(Buttons) /\ Last \in Nat /\ cycle \in Nat
      /\ handlers \in [Slots -> Work \cup {Resting}] /\ adjustments \in Seq(Rows)
  BY DEF PointsInv, PointsTypeOK, Last
<1> DEFINE h == handlers[s]
           row == [player |-> h.player, points |-> h.points, token |-> h.token,
                   shown |-> h.shown, cycle |-> cycle]
           done == [h EXCEPT !.stage = "clear"]
<1>1. h \in Work /\ h.stage = "store" /\ AsShown(h) /\ (h.form = "menu" <=> h.token # 0)
  BY <1>t DEF Store, Resting, PointsInv, HandlersAsShown
<1>2. /\ row \in Rows /\ row.shown = h.shown /\ row.token = h.token
      /\ row.player = h.player /\ row.points = h.points
  BY <1>1, <1>t DEF Work, Rows
<1>3. /\ done \in Work /\ done.stage = "clear" /\ done.shown = h.shown /\ done.token = h.token
      /\ done.form = h.form /\ done.player = h.player /\ done.points = h.points
  <2> HIDE DEF h
  <2> QED BY <1>1 DEF Work
<1>4. /\ adjustments' = Append(adjustments, row)
      /\ handlers' = [handlers EXCEPT ![s] = done]
      /\ UNCHANGED <<account, inClan, cycle, dialogue, confirmations>>
      /\ h.form = "menu" => ~Used(h.token)
  BY DEF Store, roster, MayStore
<1>5. AsShown(row)
  BY <1>1, <1>2 DEF AsShown
<1> HIDE DEF h, row, done
<1>6. /\ adjustments' \in Seq(Rows) /\ Len(adjustments') = Len(adjustments) + 1
      /\ adjustments'[Len(adjustments')] = row
      /\ \A i \in 1..Len(adjustments) : adjustments'[i] = adjustments[i]
      /\ Len(adjustments) \in Nat
  BY <1>t, <1>2, <1>4
<1>7. /\ handlers' \in [Slots -> Work \cup {Resting}] /\ handlers'[s] = done
      /\ \A u \in Slots \ {s} : handlers'[u] = handlers[u]
  BY <1>t, <1>3, <1>4
<1>8. PointsTypeOK'
  BY <1>4, <1>6, <1>7 DEF PointsInv, PointsTypeOK
<1>9. MenuWaits' /\ PanelWaits'
  BY <1>4 DEF PointsInv, MenuWaits, PanelWaits, Last
<1>10. RowsAsShown'
  <2> SUFFICES ASSUME NEW i \in 1..Len(adjustments') PROVE AsShown(adjustments'[i])
    BY <1>4 DEF RowsAsShown, AsShown, Last
  <2>1. CASE i = Len(adjustments')
    BY <1>5, <1>6, <2>1
  <2>2. CASE i \in 1..Len(adjustments)
    BY <1>6, <2>2 DEF PointsInv, RowsAsShown
  <2> QED BY <1>6, <2>1, <2>2
<1>11. HandlersAsShown'
  <2> SUFFICES ASSUME NEW u \in Slots, handlers'[u].stage # "none"
               PROVE  AsShown(handlers'[u]) /\ (handlers'[u].form = "menu" <=> handlers'[u].token # 0)
    BY <1>4 DEF HandlersAsShown, AsShown, Last
  <2>1. CASE u = s
    BY <1>1, <1>3, <1>7, <2>1 DEF AsShown
  <2>2. CASE u # s
    BY <1>7, <2>2 DEF PointsInv, HandlersAsShown
  <2> QED BY <2>1, <2>2
<1>12. StillClearing'
  <2> SUFFICES ASSUME dialogue.step = "approving",
                      NEW j \in 1..Len(adjustments'), adjustments'[j].shown = Last
               PROVE  \E u \in Slots : handlers'[u].stage = "clear" /\ handlers'[u].shown = Last
    BY <1>4 DEF StillClearing, Last
  <2>1. CASE j = Len(adjustments')
    BY <1>2, <1>3, <1>6, <1>7, <2>1
  <2>2. CASE j \in 1..Len(adjustments)
    <3>1. PICK u \in Slots : handlers[u].stage = "clear" /\ handlers[u].shown = Last
      BY <1>6, <2>2 DEF PointsInv, StillClearing
    <3>2. u # s
      BY <1>1, <3>1 DEF h
    <3> QED BY <1>7, <3>1, <3>2
  <2> QED BY <1>6, <2>1, <2>2
<1>13. \A u \in Slots : handlers'[u].stage = "store" => handlers[u].stage = "store"
  BY <1>3, <1>7
<1>14. row.token = 0 \/ \A j \in 1..Len(adjustments) : adjustments[j].shown # row.shown
  <2> SUFFICES ASSUME h.token # 0, NEW j \in 1..Len(adjustments), adjustments[j].shown = h.shown
               PROVE  FALSE
    BY <1>2
  <2>1. AsShown(adjustments[j])
    BY DEF PointsInv, RowsAsShown
  <2>2. adjustments[j].token = h.token
    BY <1>1, <2>1 DEF AsShown
  <2> QED BY <1>1, <1>4, <2>2 DEF Used
<1> QED BY <1>6, <1>8, <1>9, <1>10, <1>11, <1>12, <1>13, <1>14 DEF PointsInv

\* A handler that ends, and a restart.
LEMMA RestKeeps ==
  ASSUME PointsInv,
         \/ \E s \in Slots : StoreFails(s) \/ Finish(s)
         \/ Restart
  PROVE  /\ PointsInv' /\ adjustments' = adjustments
         /\ \A u \in Slots : handlers'[u] \in {handlers[u], Resting}
<1>t. /\ handlers \in [Slots -> Work \cup {Resting}] /\ Resting.stage = "none"
      /\ Cleared \in Talks /\ Cleared.step = "none"
  BY DEF PointsInv, PointsTypeOK, Resting, Cleared, Talks, Steps, Options
<1>1. /\ handlers' \in [Slots -> Work \cup {Resting}]
      /\ \A u \in Slots : handlers'[u] \in {handlers[u], Resting}
      /\ UNCHANGED <<account, inClan, cycle, confirmations, adjustments>>
      /\ \/ /\ dialogue' = dialogue
            /\ \A u \in Slots : handlers[u].stage = "clear" => handlers'[u] = handlers[u]
         \/ dialogue' = Cleared
  <2>1. CASE \E s \in Slots : StoreFails(s)
    BY <1>t, <2>1 DEF StoreFails, roster
  <2>2. CASE \E s \in Slots : Finish(s)
    BY <1>t, <2>2 DEF Finish, AfterStore, roster
  <2>3. CASE Restart
    BY <1>t, <2>3 DEF Restart, roster
  <2> QED BY <2>1, <2>2, <2>3
<1>2. PointsTypeOK'
  BY <1>1, <1>t DEF PointsInv, PointsTypeOK, PanelSteps
<1>3. MenuWaits' /\ PanelWaits'
  BY <1>1, <1>t DEF PointsInv, MenuWaits, PanelWaits, Last
<1>4. StillClearing'
  BY <1>1, <1>t DEF PointsInv, StillClearing, Last
<1>5. RowsAsShown'
  BY <1>1 DEF PointsInv, RowsAsShown, AsShown, Last
<1>6. HandlersAsShown'
  <2> SUFFICES ASSUME NEW u \in Slots, handlers'[u].stage # "none"
               PROVE  AsShown(handlers'[u]) /\ (handlers'[u].form = "menu" <=> handlers'[u].token # 0)
    BY <1>1 DEF HandlersAsShown, AsShown, Last
  <2>1. handlers'[u] = handlers[u]
    BY <1>1, <1>t
  <2> QED BY <2>1 DEF PointsInv, HandlersAsShown
<1> QED BY <1>1, <1>2, <1>3, <1>4, <1>5, <1>6 DEF PointsInv

\* Every step of dialogues, presses and the clan keeps it.
LEMMA StepKeeps == PointsInv /\ [PointsNext]_pointsVars => PointsInv'
<1> SUFFICES ASSUME PointsInv, [PointsNext]_pointsVars PROVE PointsInv'
  OBVIOUS
<1>t. account \in [Tags -> Nat] /\ inClan \subseteq Tags /\ cycle \in Nat
  BY DEF PointsInv, PointsTypeOK
<1>1. ASSUME NEW t \in Tags, Join(t) PROVE PointsInv'
  <2>1. account' = [account EXCEPT ![t] = IF @ = 0 THEN LastAccount + 1 ELSE @]
        /\ (account[t] = 0 => LastAccount + 1 \in Nat)
    <3>1. Cardinality(Ids) \in Nat
      BY FS_CardinalityType
    <3>2. Ids \subseteq Nat
      BY <3>1
    <3> QED  BY <1>1, <3>2 DEF Join
  <2>2. account' \in [Tags -> Nat]
    BY <1>t, <2>1
  <2> QED BY <1>1, <1>t, <2>2, ClanKeeps DEF Join
<1>2. ASSUME NEW t \in Tags, Leave(t) PROVE PointsInv'
  BY <1>2, <1>t, ClanKeeps DEF Leave
<1>3. ASSUME NEW t \in Tags, Purge(t) PROVE PointsInv'
  <2>1. account' \in [Tags -> Nat]
    BY <1>3, <1>t DEF Purge
  <2> QED BY <1>3, <1>t, <2>1, ClanKeeps DEF Purge
<1>4. CASE NextCycle
  BY <1>4, <1>t, ClanKeeps DEF NextCycle
<1>5. CASE Conversation
  BY <1>5, ConversationKeeps
<1>6. ASSUME NEW s \in Slots, Confirm(s) \/ Approve(s) PROVE PointsInv'
  BY <1>6, BeginKeeps
<1>7. ASSUME NEW s \in Slots, Store(s) PROVE PointsInv'
  BY <1>7, StoreKeeps
<1>8. CASE (\E s \in Slots : StoreFails(s) \/ Finish(s)) \/ Restart
  BY <1>8, RestKeeps
<1>9. CASE UNCHANGED pointsVars
  BY <1>9, <1>t, ClanKeeps DEF pointsVars, roster
<1> QED
  BY <1>1, <1>2, <1>3, <1>4, <1>5, <1>6, <1>7, <1>8, <1>9 DEF PointsNext, Conversation

\* The inductive invariant holds in every state.
THEOREM PointsInvariant == PointsSpec => []PointsInv
<1> QED BY InitTyped, StepKeeps, PTL DEF PointsSpec

\* Every stored row has the player and the points of a confirmation that was
\* shown, a row of the menu those of its own button, in whatever order buttons
\* of old messages, both dialogues and the handlers at work take their turns.
THEOREM PointsStoredAsConfirmed == PointsSpec => []PointsAsConfirmed
<1>1. PointsInv => PointsAsConfirmed
  <2> SUFFICES ASSUME PointsInv, NEW i \in 1..Len(adjustments)
               PROVE  LET r == adjustments[i] IN
                      /\ r.shown \in 1..Len(confirmations)
                      /\ r.player = Shown(r).player /\ r.points = Shown(r).points
                      /\ r.token # 0 => r.token = r.shown
    BY DEF PointsAsConfirmed
  <2>1. AsShown(adjustments[i])
    BY DEF PointsInv, RowsAsShown
  <2> QED BY <2>1 DEF AsShown, Shown, Last
<1> QED BY <1>1, PointsInvariant, PTL

\* A confirmation is stored again only by a press of the panel's button that
\* was accepted while the handler of the first was still to clear the dialogue.
THEOREM AgainOnlyOverlapping == PointsSpec => StoredAgainOnlyOverlapping
<1> DEFINE Accepted == \A s \in Slots :
             (handlers[s].stage = "none" /\ handlers'[s].stage = "store")
             => \A j \in 1..Len(adjustments) : adjustments[j].shown = handlers'[s].shown
                  => \E u \in Slots : handlers[u].stage = "clear"
                                      /\ handlers[u].shown = adjustments[j].shown
           Added == \A i \in 1..Len(adjustments'), j \in 1..Len(adjustments) :
             (i > Len(adjustments) /\ adjustments'[i].shown = adjustments[j].shown)
             => adjustments'[i].token = 0
<1>1. PointsInv /\ [PointsNext]_pointsVars => [Accepted /\ Added]_pointsVars
  <2> SUFFICES ASSUME PointsInv, PointsNext PROVE Accepted /\ Added
    OBVIOUS
  <2>l. Len(adjustments) \in Nat /\ Resting.stage = "none"
    BY DEF PointsInv, PointsTypeOK, Resting
  <2>1. ASSUME NEW s \in Slots, Confirm(s) \/ Approve(s) PROVE Accepted /\ Added
    <3>1. /\ handlers'[s].shown = Last /\ adjustments' = adjustments
          /\ \A u \in Slots \ {s} : handlers'[u] = handlers[u]
          /\ \/ dialogue.step = "approving"
             \/ \A j \in 1..Len(adjustments) : adjustments[j].shown # Last
      BY <2>1, BeginKeeps
    <3>2. Added
      BY <2>l, <3>1
    <3>3. \A j \in 1..Len(adjustments) : adjustments[j].shown = Last =>
            \E u \in Slots : handlers[u].stage = "clear" /\ handlers[u].shown = Last
      BY <3>1 DEF PointsInv, StillClearing
    <3>4. Accepted
      BY <3>1, <3>3
    <3> QED BY <3>2, <3>4
  <2>2. ASSUME NEW s \in Slots, Store(s) PROVE Accepted /\ Added
    <3>1. /\ Len(adjustments') = Len(adjustments) + 1
          /\ \A u \in Slots : handlers'[u].stage = "store" => handlers[u].stage = "store"
          /\ LET r == adjustments'[Len(adjustments')]
             IN r.token = 0 \/ \A j \in 1..Len(adjustments) : adjustments[j].shown # r.shown
      BY <2>2, StoreKeeps
    <3>2. Accepted
      BY <3>1
    <3>3. Added
      <4> SUFFICES ASSUME NEW i \in 1..Len(adjustments'), NEW j \in 1..Len(adjustments),
                          i > Len(adjustments), adjustments'[i].shown = adjustments[j].shown
                   PROVE  adjustments'[i].token = 0
        OBVIOUS
      <4>1. i = Len(adjustments')
        BY <2>l, <3>1
      <4> QED BY <3>1, <4>1
    <3> QED BY <3>2, <3>3
  <2>3. CASE (\E s \in Slots : StoreFails(s) \/ Finish(s)) \/ Restart
    <3>1. adjustments' = adjustments /\ \A u \in Slots : handlers'[u] \in {handlers[u], Resting}
      BY <2>3, RestKeeps
    <3> QED BY <2>l, <3>1
  <2>4. CASE UNCHANGED <<handlers, adjustments>>
    BY <2>l, <2>4
  <2>5. CASE Conversation
    <3>1. UNCHANGED <<handlers, adjustments>>
      BY <2>5 DEF Conversation, StartMenu, Pick, EnterPoints, EnterComment, Back, Cancel,
                  StartPanel, PickListed, EnterAdjustment, EnterReason, PanelBack, Say, Show
    <3> QED BY <2>4, <3>1
  <2>6. CASE NextCycle \/ \E t \in Tags : Join(t) \/ Leave(t) \/ Purge(t)
    <3>1. UNCHANGED <<handlers, adjustments>>
      BY <2>6 DEF NextCycle, Join, Leave, Purge, desk
    <3> QED BY <2>4, <3>1
  <2> QED BY <2>1, <2>2, <2>3, <2>5, <2>6 DEF PointsNext, Conversation
<1> QED BY <1>1, PointsInvariant, PTL DEF PointsSpec, StoredAgainOnlyOverlapping

-----------------------------------------------------------------------------
(* Whose row number a confirmation holds.  A player an administrator was    *)
(* shown keeps his row number for the next cycle as well, for only who was  *)
(* absent for a whole cycle is purged; and no two players share a number.   *)

Vouched(id, tag, since) ==
  /\ id # 0 /\ since <= cycle
  /\ tag \in inClan \/ lastSeen[tag] >= since
  /\ cycle < since + 2 => account[tag] = id

RowNumbers ==
  /\ account \in [Tags -> {0} \cup Ids] /\ lastSeen \in [Tags -> Nat]
  /\ \A t \in inClan : account[t] # 0
  /\ \A t, u \in Tags : account[t] = account[u] /\ account[t] # 0 => t = u

Believed == {Nobody} \cup {o \in Options : Vouched(o.id, o.tag, o.since)}
TalkVouched == /\ dialogue.chosen \in Believed /\ dialogue.picked \in Believed
               /\ dialogue.listed \subseteq Believed
ConfirmationsVouched == \A k \in 1..Last :
  LET c == confirmations[k] IN Vouched(c.player, c.tag, c.since)

StaleInv == PointsInv /\ RowNumbers /\ TalkVouched /\ ConfirmationsVouched

\* A set of numbers that is not empty has a least one.
LEMMA LeastNumber ==
  ASSUME NEW T \in SUBSET Nat, T # {}
  PROVE  \E x \in T : \A y \in T : x <= y
<1> DEFINE R == OpToRel(<, Nat)
<1>1. \A x, y \in Nat : y < x => <<y, x>> \in R
  BY DEF OpToRel
<1>2. IsWellFoundedOn(R, Nat)
  BY NatLessThanWellFounded
<1> HIDE DEF R
<1>3. PICK x \in T : \A y \in T : <<y, x>> \notin R
  BY <1>2, WFMin
<1>4. ASSUME NEW y \in T PROVE x <= y
  <2>1. ~(y < x)
    BY <1>1, <1>3
  <2> QED  BY <2>1
<1> QED  BY <1>4

\* The last row number is no player's, or no player's is greater.
LEMMA LastAccountProps ==
  ASSUME account \in [Tags -> {0} \cup Ids]
  PROVE  LastAccount \in Nat /\ \A t \in Tags : account[t] <= LastAccount
<1> DEFINE n == Cardinality(Ids)
           used == {0} \cup {account[t] : t \in Tags}
           room == {n - i : i \in used}
<1>1. n \in Nat /\ Ids = 1..n
  BY FS_CardinalityType
<1> HIDE DEF n
<1>2. \A i \in used : i \in {0} \cup Ids /\ i \in Nat /\ n - i \in Nat
  BY <1>1
<1>3. 0 \in used /\ \A t \in Tags : account[t] \in used
  OBVIOUS
<1>4. \A i \in used : i \in {account[t] : t \in Tags} \cup {0}
  OBVIOUS
<1> HIDE DEF used
<1>5. room \in SUBSET Nat /\ room # {}
  BY <1>2, <1>3
<1>6. PICK r \in room : \A x \in room : r <= x
  <2> HIDE DEF room
  <2> QED  BY <1>5, LeastNumber
<1>7. PICK i \in used : r = n - i
  OBVIOUS
<1>8. \A j \in used : j <= i
  <2> SUFFICES ASSUME NEW j \in used PROVE j <= i
    OBVIOUS
  <2>1. n - j \in room
    OBVIOUS
  <2>2. r <= n - j
    BY <1>6, <2>1
  <2>3. j \in Nat /\ i \in Nat
    BY <1>2
  <2> HIDE DEF room
  <2> QED  BY <1>1, <1>7, <2>2, <2>3
<1>9. \E k \in {0} \cup Ids : /\ k \in {account[t] : t \in Tags} \cup {0}
                              /\ \A t \in Tags : account[t] <= k
  BY <1>2, <1>3, <1>4, <1>8
<1>10. /\ LastAccount \in {0} \cup Ids
       /\ \A t \in Tags : account[t] <= LastAccount
  BY <1>9 DEF LastAccount
<1> QED  BY <1>1, <1>10

\* At first no dialogue is older than the players it knows.
LEMMA StaleInit == PointsInit => StaleInv
<1> SUFFICES ASSUME PointsInit PROVE StaleInv
  OBVIOUS
<1>1. PointsInv
  BY InitTyped
<1>2. RowNumbers
  <2>1. /\ budget \in Budgets /\ Cardinality(inClan) = budget.clan
        /\ account \in [Tags -> 0..Cardinality(inClan)]
        /\ \A t \in Tags : account[t] = 0 <=> t \notin inClan
        /\ \A t, u \in inClan : account[t] = account[u] => t = u
        /\ lastSeen = [t \in Tags |-> 0]
        /\ inClan \in SUBSET Tags
    BY DEF PointsInit
  <2>2. budget.clan \in Nat /\ 1..budget.clan \subseteq Ids
    BY <2>1
  <2>3. 0..Cardinality(inClan) \subseteq {0} \cup Ids
    BY <2>1, <2>2
  <2>4. account \in [Tags -> {0} \cup Ids]
    BY <2>1, <2>3
  <2> QED  BY <2>1, <2>4 DEF RowNumbers
<1>3. TalkVouched /\ ConfirmationsVouched
  BY DEF PointsInit, TalkVouched, ConfirmationsVouched, Cleared, Believed, Last
<1> QED  BY <1>1, <1>2, <1>3 DEF StaleInv

\* Who is shown as a current player is vouched for.
LEMMA CurrentBelieved == StaleInv => CurrentPlayers \subseteq Believed
<1> SUFFICES ASSUME StaleInv, NEW t \in inClan
             PROVE  [id |-> account[t], tag |-> t, since |-> cycle] \in Believed
  BY DEF CurrentPlayers
<1>1. /\ t \in Tags /\ account[t] \in Nat /\ account[t] # 0 /\ cycle \in Nat
  BY DEF StaleInv, PointsInv, PointsTypeOK, RowNumbers
<1>2. Vouched(account[t], t, cycle)
  BY <1>1 DEF Vouched
<1> QED  BY <1>1, <1>2 DEF Believed, Options

\* The steps of the dialogues show current players, or who was shown before.
LEMMA TalkKeeps == StaleInv /\ Conversation => StaleInv'
<1> SUFFICES ASSUME StaleInv, Conversation PROVE StaleInv'
  OBVIOUS
<1>1. PointsInv'
  BY ConversationKeeps DEF StaleInv
<1>2. /\ dialogue \in Talks /\ Cleared \in Talks /\ CurrentPlayers \subseteq Believed
      /\ dialogue.chosen \in Believed /\ dialogue.picked \in Believed
      /\ dialogue.listed \subseteq Believed /\ Nobody \in Believed
      /\ dialogue.step \in PanelSteps => dialogue.picked \in Options
      /\ Last \in Nat /\ confirmations \in Seq(Buttons)
      /\ CurrentPlayers \subseteq Options
  BY CurrentBelieved
     DEF StaleInv, PointsInv, PointsTypeOK, TalkVouched, Believed, Cleared, Talks, Steps, Options,
         Last, CurrentPlayers
<1>3. UNCHANGED <<account, inClan, lastSeen, cycle>>
  BY DEF Conversation, StartMenu, Pick, EnterPoints, EnterComment, Back, Cancel, StartPanel,
         PickListed, EnterAdjustment, EnterReason, PanelBack, Say, Show, roster
<1>4. Believed' = Believed /\ RowNumbers'
  BY <1>3 DEF Believed, Vouched, StaleInv, RowNumbers
<1>5. ASSUME NEW d \in Talks, dialogue' = Live(d), d.chosen \in Believed,
             d.picked \in Believed, d.listed \subseteq Believed
      PROVE  TalkVouched'
  <2>1. Live(d).chosen = d.chosen /\ Live(d).listed = d.listed
        /\ Live(d).picked \in {d.picked, Nobody}
    BY DEF Live, Talks
  <2> QED  BY <1>2, <1>4, <1>5, <2>1 DEF TalkVouched
<1>6. CASE EnterComment \/ EnterReason
  <2>1. TalkVouched'
    <3>1. CASE EnterComment
      <4>1. PICK k \in Nat : dialogue' = Live([dialogue EXCEPT !.token = k, !.step = "confirming"])
        <5>1. CASE dialogue.chosen = Nobody \/ dialogue.points = 0
          <6>1. dialogue' = Live([dialogue EXCEPT !.token = 0, !.step = "confirming"])
            BY <3>1, <5>1 DEF EnterComment, Say
          <6> QED  BY <6>1
        <5>2. CASE ~(dialogue.chosen = Nobody \/ dialogue.points = 0)
          <6>1. /\ dialogue' = Live([dialogue EXCEPT !.token = Len(confirmations) + 1,
                                                     !.step = "confirming"])
                /\ Len(confirmations) + 1 \in Nat
            BY <1>2, <3>1, <5>2 DEF EnterComment, Show, Last
          <6> QED  BY <6>1
        <5> QED  BY <5>1, <5>2
      <4> DEFINE d == [dialogue EXCEPT !.token = k, !.step = "confirming"]
      <4>2. /\ d \in Talks /\ d.chosen = dialogue.chosen /\ d.picked = dialogue.picked
            /\ d.listed = dialogue.listed
        BY <1>2 DEF Talks, Steps, MenuSteps
      <4> HIDE DEF d
      <4>3. dialogue' = Live(d)
        BY <4>1 DEF d
      <4> QED  BY <1>2, <1>5, <4>2, <4>3
    <3>2. CASE EnterReason
      <4> DEFINE d == [dialogue EXCEPT !.step = "approving"]
      <4>1. /\ d \in Talks /\ d.chosen = dialogue.chosen /\ d.picked = dialogue.picked
            /\ d.listed = dialogue.listed
        BY <1>2 DEF Talks, Steps, PanelSteps
      <4>2. dialogue' = Live(d)
        BY <3>2 DEF EnterReason, Show
      <4> HIDE DEF d
      <4> QED  BY <1>2, <1>5, <4>1, <4>2
    <3> QED  BY <1>6, <3>1, <3>2
  <2>2. \/ confirmations' = confirmations
        \/ \E o \in Options \cap Believed, way \in Forms, n \in Int :
             confirmations' = Append(confirmations,
               [form |-> way, player |-> o.id, tag |-> o.tag, points |-> n, since |-> o.since])
    <3>1. CASE EnterComment
      <4>1. CASE dialogue.chosen = Nobody \/ dialogue.points = 0
        BY <3>1, <4>1 DEF EnterComment, Say
      <4>2. CASE ~(dialogue.chosen = Nobody \/ dialogue.points = 0)
        <5>1. dialogue.chosen \in Options /\ dialogue.points \in Int
          BY <1>2, <4>2 DEF Talks
        <5>2. confirmations' = Append(confirmations,
                [form |-> "menu", player |-> dialogue.chosen.id, tag |-> dialogue.chosen.tag,
                 points |-> dialogue.points, since |-> dialogue.chosen.since])
          BY <3>1, <4>2 DEF EnterComment, Show
        <5> QED  BY <1>2, <5>1, <5>2 DEF Forms
      <4> QED  BY <4>1, <4>2
    <3>2. CASE EnterReason
      <4>1. dialogue.picked \in Options /\ dialogue.signed \in Int
        BY <1>2, <3>2 DEF EnterReason, PanelSteps, Talks
      <4>2. confirmations' = Append(confirmations,
              [form |-> "panel", player |-> dialogue.picked.id, tag |-> dialogue.picked.tag,
               points |-> dialogue.signed, since |-> dialogue.picked.since])
        BY <3>2 DEF EnterReason, Show
      <4> QED  BY <1>2, <4>1, <4>2 DEF Forms
    <3> QED  BY <1>6, <3>1, <3>2
  <2>3. ConfirmationsVouched'
    <3>1. CASE confirmations' = confirmations
      BY <1>3, <3>1 DEF StaleInv, ConfirmationsVouched, Vouched, Last
    <3>2. ASSUME NEW o \in Options \cap Believed, NEW way \in Forms, NEW n \in Int,
                 confirmations' = Append(confirmations,
                   [form |-> way, player |-> o.id, tag |-> o.tag, points |-> n, since |-> o.since])
          PROVE  ConfirmationsVouched'
      <4> DEFINE c == [form |-> way, player |-> o.id, tag |-> o.tag, points |-> n,
                       since |-> o.since]
      <4>1. c \in Buttons /\ c.player = o.id /\ c.tag = o.tag /\ c.since = o.since
        BY DEF Options, Buttons
      <4>2. Vouched(o.id, o.tag, o.since)
        <5>1. o \in Options /\ (o = Nobody \/ Vouched(o.id, o.tag, o.since))
          BY DEF Believed
        <5>2. o # Nobody
          BY <5>1 DEF Options, Nobody
        <5> QED  BY <5>1, <5>2
      <4> HIDE DEF c
      <4>3. /\ Last' = Last + 1 /\ confirmations'[Last'] = c
            /\ \A k \in 1..Last : confirmations'[k] = confirmations[k]
        BY <1>2, <3>2, <4>1 DEF Last, c
      <4> SUFFICES ASSUME NEW k \in 1..Last'
                   PROVE  Vouched(confirmations'[k].player, confirmations'[k].tag,
                                  confirmations'[k].since)
        BY <1>3 DEF ConfirmationsVouched, Vouched
      <4>4. CASE k = Last'
        BY <4>1, <4>2, <4>3, <4>4
      <4>5. CASE k \in 1..Last
        BY <4>3, <4>5 DEF StaleInv, ConfirmationsVouched
      <4> QED  BY <1>2, <4>3, <4>4, <4>5
    <3> QED  BY <2>2, <3>1, <3>2
  <2> QED  BY <1>1, <1>4, <2>1, <2>3 DEF StaleInv
<1>7. ASSUME UNCHANGED confirmations, TalkVouched' PROVE StaleInv'
  <2>1. ConfirmationsVouched'
    BY <1>3, <1>7 DEF StaleInv, ConfirmationsVouched, Vouched, Last
  <2> QED  BY <1>1, <1>4, <1>7, <2>1 DEF StaleInv
<1>8. ASSUME NEW d \in Talks, Say(d), d.chosen \in Believed,
             d.picked \in Believed, d.listed \subseteq Believed
      PROVE  StaleInv'
  BY <1>5, <1>7, <1>8 DEF Say
<1>9. ASSUME NEW step \in Steps, Say([dialogue EXCEPT !.step = step]) PROVE StaleInv'
  <2> DEFINE d == [dialogue EXCEPT !.step = step]
  <2>1. /\ d \in Talks /\ d.chosen = dialogue.chosen /\ d.picked = dialogue.picked
        /\ d.listed = dialogue.listed
    BY <1>2 DEF Talks
  <2> HIDE DEF d
  <2>2. Say(d)
    BY <1>9 DEF d
  <2> QED  BY <1>2, <1>8, <2>1, <2>2
<1>10. CASE Say(Cleared)
  <2>1. /\ Cleared.chosen = Nobody /\ Cleared.picked = Nobody /\ Cleared.listed = {}
    BY DEF Cleared
  <2> QED  BY <1>2, <1>8, <1>10, <2>1
<1>11. \A step \in {"choosing", "points", "comment", "adjusting"} : step \in Steps
  BY DEF Steps, MenuSteps, PanelSteps
<1>12. CASE StartMenu \/ Back \/ Cancel \/ PanelBack
  <2>1. \/ Say(Cleared)
        \/ \E step \in {"choosing", "points", "comment", "adjusting"} :
             Say([dialogue EXCEPT !.step = step])
    <3>1. CASE StartMenu
      BY <3>1 DEF StartMenu
    <3>2. CASE Back
      BY <3>2 DEF Back
    <3>3. CASE Cancel
      BY <3>3 DEF Cancel
    <3>4. CASE PanelBack
      BY <3>4 DEF PanelBack
    <3> QED  BY <1>12, <3>1, <3>2, <3>3, <3>4
  <2> QED  BY <1>9, <1>10, <1>11, <2>1
<1>13. CASE Pick
  <2>1. PICK o \in CurrentPlayers : Say([dialogue EXCEPT !.chosen = o, !.step = "points"])
    BY <1>13 DEF Pick
  <2> DEFINE d == [dialogue EXCEPT !.chosen = o, !.step = "points"]
  <2>2. o \in Options /\ o \in Believed
    BY <1>2
  <2>3. d \in Talks /\ d.chosen = o /\ d.picked = dialogue.picked /\ d.listed = dialogue.listed
    BY <1>2, <2>2 DEF Talks, Steps, MenuSteps
  <2> HIDE DEF d
  <2>4. Say(d)
    BY <2>1 DEF d
  <2> QED  BY <1>2, <1>8, <2>2, <2>3, <2>4
<1>14. CASE EnterPoints
  <2>1. PICK n \in Nat : Say([dialogue EXCEPT !.points = n, !.step = "comment"])
    BY <1>14 DEF EnterPoints
  <2> DEFINE d == [dialogue EXCEPT !.points = n, !.step = "comment"]
  <2>2. /\ d \in Talks /\ d.chosen = dialogue.chosen /\ d.picked = dialogue.picked
        /\ d.listed = dialogue.listed
    BY <1>2 DEF Talks, Steps, MenuSteps
  <2> HIDE DEF d
  <2>3. Say(d)
    BY <2>1 DEF d
  <2> QED  BY <1>2, <1>8, <2>2, <2>3
<1>15. CASE StartPanel
  <2>1. PICK sign \in {1, -1} : Say([Cleared EXCEPT !.listed = CurrentPlayers, !.sign = sign])
    BY <1>15 DEF StartPanel
  <2> DEFINE players == CurrentPlayers
             d == [Cleared EXCEPT !.listed = players, !.sign = sign]
  <2>2. Cleared.chosen = Nobody /\ Cleared.picked = Nobody
    BY DEF Cleared
  <2>3. players \in SUBSET Options /\ players \subseteq Believed
    BY <1>2
  <2> HIDE DEF players
  <2>4. d \in Talks /\ d.chosen = Nobody /\ d.picked = Nobody /\ d.listed = players
    BY <1>2, <2>2, <2>3 DEF Talks
  <2>5. Say(d)
    BY <2>1 DEF players
  <2> HIDE DEF d
  <2> QED  BY <1>2, <1>8, <2>3, <2>4, <2>5
<1>16. CASE PickListed
  <2>1. PICK o \in dialogue.listed : Say([dialogue EXCEPT !.picked = o, !.step = "adjusting"])
    BY <1>16 DEF PickListed
  <2> DEFINE d == [dialogue EXCEPT !.picked = o, !.step = "adjusting"]
  <2>2. o \in Options /\ o \in Believed
    BY <1>2 DEF Talks
  <2>3. d \in Talks /\ d.picked = o /\ d.chosen = dialogue.chosen /\ d.listed = dialogue.listed
    BY <1>2, <2>2 DEF Talks, Steps, PanelSteps
  <2> HIDE DEF d
  <2>4. Say(d)
    BY <2>1 DEF d
  <2> QED  BY <1>2, <1>8, <2>2, <2>3, <2>4
<1>17. CASE EnterAdjustment
  <2>1. PICK n \in Nat : Say([dialogue EXCEPT !.signed = n * dialogue.sign, !.step = "reason"])
    BY <1>17 DEF EnterAdjustment
  <2> DEFINE m == n * dialogue.sign
             d == [dialogue EXCEPT !.signed = m, !.step = "reason"]
  <2>2. m \in Int
    BY <1>2 DEF Talks
  <2>3. /\ d \in Talks /\ d.chosen = dialogue.chosen /\ d.picked = dialogue.picked
        /\ d.listed = dialogue.listed
    <3> HIDE DEF m
    <3> QED  BY <1>2, <2>2 DEF Talks, Steps, PanelSteps
  <2>4. Say(d)
    BY <2>1
  <2> HIDE DEF d
  <2> QED  BY <1>2, <1>8, <2>3, <2>4
<1> QED
  BY <1>6, <1>12, <1>13, <1>14, <1>15, <1>16, <1>17 DEF Conversation

\* Steps of the clan: who was vouched for still is, for a player who is purged
\* was last seen two cycles ago, and a newcomer's number is new.
LEMMA ClanBelieved ==
  ASSUME StaleInv, NextCycle \/ \E t \in Tags : Join(t) \/ Leave(t) \/ Purge(t)
  PROVE  /\ RowNumbers'
         /\ \A id \in Nat, tag \in Tags, since \in Nat :
              Vouched(id, tag, since) => Vouched(id, tag, since)'
<1>t. /\ account \in [Tags -> {0} \cup Ids] /\ lastSeen \in [Tags -> Nat]
      /\ inClan \subseteq Tags /\ cycle \in Nat /\ Ids \subseteq Nat \ {0}
      /\ \A t \in inClan : account[t] # 0
      /\ \A t, u \in Tags : account[t] = account[u] /\ account[t] # 0 => t = u
  <2>1. Cardinality(Ids) \in Nat
    BY FS_CardinalityType
  <2>2. Ids \subseteq Nat \ {0}
    BY <2>1
  <2> QED  BY <2>2 DEF StaleInv, RowNumbers, PointsInv, PointsTypeOK
<1>1. CASE NextCycle
  <2>1. UNCHANGED <<account, inClan, lastSeen>> /\ cycle' = cycle + 1
    BY <1>1 DEF NextCycle
  <2>2. RowNumbers'
    BY <1>t, <2>1 DEF RowNumbers
  <2>3. ASSUME NEW id \in Nat, NEW tag \in Tags, NEW since \in Nat, Vouched(id, tag, since)
        PROVE  Vouched(id, tag, since)'
    BY <1>t, <2>1, <2>3 DEF Vouched
  <2> QED  BY <2>2, <2>3
<1>2. ASSUME NEW t \in Tags, Join(t)
      PROVE  /\ RowNumbers'
             /\ \A id \in Nat, tag \in Tags, since \in Nat :
                  Vouched(id, tag, since) => Vouched(id, tag, since)'
  <2>1. /\ inClan' = inClan \cup {t} /\ UNCHANGED <<lastSeen, cycle>>
        /\ account' = [account EXCEPT ![t] = IF @ = 0 THEN LastAccount + 1 ELSE @]
        /\ account[t] = 0 => LastAccount + 1 \in Ids
    BY <1>2 DEF Join
  <2>2. LastAccount \in Nat /\ \A u \in Tags : account[u] <= LastAccount
    BY <1>t, LastAccountProps
  <2>3. /\ account' \in [Tags -> {0} \cup Ids]
        /\ \A u \in Tags : account[u] # 0 => account'[u] = account[u]
        /\ account'[t] # 0
        /\ \A u \in Tags : u # t => account'[u] = account[u]
        /\ account[t] = 0 => account'[t] = LastAccount + 1
    BY <1>t, <2>1, <2>2
  <2>4. \A u, v \in Tags : account'[u] = account'[v] /\ account'[u] # 0 => u = v
    <3> SUFFICES ASSUME NEW u \in Tags, NEW v \in Tags,
                        account'[u] = account'[v], account'[u] # 0
                 PROVE  u = v
      OBVIOUS
    <3>1. ASSUME NEW x \in Tags PROVE account[x] \in Nat /\ account[x] # LastAccount + 1
      <4>1. account[x] \in Nat
        BY DEF StaleInv, PointsInv, PointsTypeOK
      <4>2. account[x] <= LastAccount
        BY <2>2
      <4> QED  BY <2>2, <4>1, <4>2
    <3> QED  BY <1>t, <2>3, <3>1
  <2>5. RowNumbers'
    BY <1>t, <2>1, <2>3, <2>4 DEF RowNumbers
  <2>6. ASSUME NEW id \in Nat, NEW tag \in Tags, NEW since \in Nat, Vouched(id, tag, since)
        PROVE  Vouched(id, tag, since)'
    BY <1>t, <2>1, <2>3, <2>6 DEF Vouched
  <2> QED  BY <2>5, <2>6
<1>3. ASSUME NEW t \in Tags, Leave(t)
      PROVE  /\ RowNumbers'
             /\ \A id \in Nat, tag \in Tags, since \in Nat :
                  Vouched(id, tag, since) => Vouched(id, tag, since)'
  <2>1. /\ inClan' = inClan \ {t} /\ lastSeen' = [lastSeen EXCEPT ![t] = cycle]
        /\ UNCHANGED <<account, cycle>>
    BY <1>3 DEF Leave
  <2>2. RowNumbers'
    BY <1>t, <2>1 DEF RowNumbers
  <2>3. ASSUME NEW id \in Nat, NEW tag \in Tags, NEW since \in Nat, Vouched(id, tag, since)
        PROVE  Vouched(id, tag, since)'
    BY <1>t, <2>1, <2>3 DEF Vouched
  <2> QED  BY <2>2, <2>3
<1>4. ASSUME NEW t \in Tags, Purge(t)
      PROVE  /\ RowNumbers'
             /\ \A id \in Nat, tag \in Tags, since \in Nat :
                  Vouched(id, tag, since) => Vouched(id, tag, since)'
  <2>1. /\ account' = [account EXCEPT ![t] = 0] /\ UNCHANGED <<inClan, lastSeen, cycle>>
        /\ t \notin inClan /\ lastSeen[t] < cycle - 1
    BY <1>4 DEF Purge, AbsentLong
  <2>2. RowNumbers'
    BY <1>t, <2>1 DEF RowNumbers
  <2>3. ASSUME NEW id \in Nat, NEW tag \in Tags, NEW since \in Nat, Vouched(id, tag, since)
        PROVE  Vouched(id, tag, since)'
    <3>1. CASE tag = t
      <4>1. since <= lastSeen[t] /\ lastSeen[t] \in Nat
        BY <1>t, <2>1, <2>3, <3>1 DEF Vouched
      <4>2. ~(cycle < since + 2)
        BY <1>t, <2>1, <4>1
      <4> QED  BY <2>1, <2>3, <4>2 DEF Vouched
    <3>2. CASE tag # t
      BY <1>t, <2>1, <2>3, <3>2 DEF Vouched
    <3> QED  BY <3>1, <3>2
  <2> QED  BY <2>2, <2>3
<1> QED  BY <1>1, <1>2, <1>3, <1>4

\* Every step keeps what the administrators were shown true for a cycle more.
LEMMA StaleStep == StaleInv /\ [PointsNext]_pointsVars => StaleInv'
<1> SUFFICES ASSUME StaleInv, [PointsNext]_pointsVars PROVE StaleInv'
  OBVIOUS
<1>1. PointsInv'
  BY StepKeeps DEF StaleInv
<1>2. /\ dialogue \in Talks /\ Last \in Nat /\ confirmations \in Seq(Buttons)
  BY DEF StaleInv, PointsInv, PointsTypeOK, Last
<1>3. CASE Conversation
  BY <1>3, TalkKeeps
<1>4. CASE NextCycle \/ \E t \in Tags : Join(t) \/ Leave(t) \/ Purge(t)
  <2>1. UNCHANGED <<dialogue, confirmations>>
    BY <1>4 DEF NextCycle, Join, Leave, Purge, desk
  <2>2. /\ RowNumbers'
        /\ \A id \in Nat, tag \in Tags, since \in Nat :
             Vouched(id, tag, since) => Vouched(id, tag, since)'
    BY <1>4, ClanBelieved
  <2>3. ASSUME NEW o, o \in Believed PROVE o \in Believed'
    <3>1. CASE o = Nobody
      BY <3>1 DEF Believed
    <3>2. CASE o # Nobody
      <4>1. o \in Options /\ Vouched(o.id, o.tag, o.since)
        BY <2>3, <3>2 DEF Believed
      <4>2. o.id \in Nat /\ o.tag \in Tags /\ o.since \in Nat
        BY <4>1 DEF Options
      <4>3. Vouched(o.id, o.tag, o.since)'
        BY <2>2, <4>1, <4>2
      <4> QED  BY <4>1, <4>3 DEF Believed
    <3> QED  BY <3>1, <3>2
  <2>4. TalkVouched'
    BY <2>1, <2>3 DEF StaleInv, TalkVouched
  <2>5. ConfirmationsVouched'
    <3> SUFFICES ASSUME NEW k \in 1..Last
                 PROVE  Vouched(confirmations[k].player, confirmations[k].tag,
                                confirmations[k].since)'
      BY <2>1 DEF ConfirmationsVouched, Last
    <3>1. confirmations[k] \in Buttons
      BY <1>2 DEF Last
    <3>2. /\ confirmations[k].player \in Nat /\ confirmations[k].tag \in Tags
          /\ confirmations[k].since \in Nat
      BY <3>1 DEF Buttons
    <3>3. Vouched(confirmations[k].player, confirmations[k].tag, confirmations[k].since)
      BY DEF StaleInv, ConfirmationsVouched
    <3>4. UNCHANGED confirmations
      BY <2>1
    <3> QED  BY <2>2, <3>2, <3>3, <3>4 DEF Vouched
  <2> QED  BY <1>1, <2>2, <2>4, <2>5 DEF StaleInv
<1>5. CASE UNCHANGED <<account, inClan, lastSeen, cycle, confirmations>>
           /\ dialogue' \in {dialogue, Cleared}
  <2>1. Believed' = Believed /\ RowNumbers'
    BY <1>5 DEF Believed, Vouched, StaleInv, RowNumbers
  <2>2. Cleared.chosen = Nobody /\ Cleared.picked = Nobody /\ Cleared.listed = {}
        /\ Nobody \in Believed
    BY DEF Cleared, Believed
  <2>3. TalkVouched'
    BY <1>5, <2>1, <2>2 DEF StaleInv, TalkVouched
  <2>4. ConfirmationsVouched'
    BY <1>5 DEF StaleInv, ConfirmationsVouched, Vouched, Last
  <2> QED  BY <1>1, <2>1, <2>3, <2>4 DEF StaleInv
<1>6. ASSUME NEW s \in Slots, Confirm(s) \/ Approve(s) \/ Store(s) \/ StoreFails(s) \/ Finish(s)
      PROVE  StaleInv'
  BY <1>5, <1>6 DEF Confirm, Approve, Begin, Store, StoreFails, Finish, AfterStore, roster
<1>7. CASE Restart
  BY <1>5, <1>7 DEF Restart, roster
<1>8. CASE UNCHANGED pointsVars
  BY <1>5, <1>8 DEF pointsVars, roster, desk
<1> QED
  BY <1>3, <1>4, <1>6, <1>7, <1>8 DEF PointsNext, Conversation

\* Points given in this cycle count for another player than the one shown
\* only when the dialogue outlived a whole cycle.
THEOREM InheritedFromStale == PointsSpec => []InheritedOnlyFromStale
<1>1. StaleInv => InheritedOnlyFromStale
  <2> SUFFICES ASSUME StaleInv, NEW i \in 1..Len(adjustments), NEW t \in Tags,
                      adjustments[i].cycle = cycle, account[t] = adjustments[i].player,
                      t # Shown(adjustments[i]).tag
               PROVE  adjustments[i].cycle >= Shown(adjustments[i]).since + 2
    BY DEF InheritedOnlyFromStale
  <2> DEFINE r == adjustments[i]
             c == confirmations[r.shown]
  <2>1. r.shown \in 1..Last /\ r.player = c.player
    BY DEF StaleInv, PointsInv, RowsAsShown, AsShown
  <2>2. c.tag \in Tags /\ c.since \in Nat /\ cycle \in Nat
    <3>1. confirmations \in Seq(Buttons) /\ cycle \in Nat
      BY DEF StaleInv, PointsInv, PointsTypeOK
    <3>2. c \in Buttons
      BY <2>1, <3>1 DEF Last
    <3> QED  BY <3>1, <3>2 DEF Buttons
  <2>3. Vouched(c.player, c.tag, c.since)
    BY <2>1 DEF StaleInv, ConfirmationsVouched
  <2>4. c = Shown(adjustments[i])
    BY DEF Shown
  <2> HIDE DEF r, c
  <2>5. r = adjustments[i]
    BY DEF r
  <2>6. ~(cycle < c.since + 2)
    <3> SUFFICES ASSUME cycle < c.since + 2 PROVE FALSE
      OBVIOUS
    <3>1. account[c.tag] = account[t] /\ account[t] # 0
      BY <2>1, <2>3, <2>5 DEF Vouched
    <3>2. c.tag = t
      BY <2>2, <3>1 DEF StaleInv, RowNumbers
    <3> QED  BY <2>4, <3>2
  <2> QED  BY <2>2, <2>4, <2>5, <2>6
<1> QED  BY <1>1, StaleInit, StaleStep, PTL DEF PointsSpec

-----------------------------------------------------------------------------
(* Links: what a handler found missing when it checked can only have been   *)
(* added since, so it is younger than the check.                            *)


Jobs  == [stage : {"write", "clear"}, via : {"token", "admin"}, user : Users,
          tag : Players, checked : Nat]

LinksTypeOK ==
  /\ made \in Nat
  /\ work \in [Workers -> Jobs \cup {Free}]
  /\ \A l \in links : l.at \in Nat /\ l.at <= made /\ l.via \in {"token", "admin"}
  /\ DOMAIN form = Users
  /\ \A u \in Users : form[u].step = "token" => form[u].tag \in Players
  /\ wizard.step = "player" => wizard.target \in Users

\* A handler that is to write has checked that the player has no other owner,
\* or that the user has no player: links against it were made since.
CheckedBefore == \A w \in Workers : work[w].stage = "write" =>
  /\ work[w].checked <= made
  /\ \A k \in links :
       \/ work[w].checked < k.at
       \/ IF work[w].via = "admin" THEN k.tag # work[w].tag \/ k.user = work[w].user
          ELSE k.user # work[w].user

LinksInv ==
  /\ LinksTypeOK /\ CheckedBefore
  /\ SecondOwnerByTokenOrRace /\ RegistersOnceUnlessRace

\* At first there are no links and no writes under way.
LEMMA LinksInitOK == LinksInit => LinksInv
<1> SUFFICES ASSUME LinksInit PROVE LinksInv
  OBVIOUS
<1>1. links = {} /\ made = 0 /\ work = [w \in Workers |-> Free] /\ Free.stage = "none"
  BY DEF LinksInit, Free
<1>2. LinksTypeOK
  BY <1>1 DEF LinksInit, LinksTypeOK, NoForm, NoWizard
<1>3. CheckedBefore /\ SecondOwnerByTokenOrRace /\ RegistersOnceUnlessRace
  BY <1>1 DEF CheckedBefore, SecondOwnerByTokenOrRace, RegistersOnceUnlessRace
<1> QED BY <1>2, <1>3 DEF LinksInv

\* Steps that change no handler's data but to rest, and no link but to remove it.
LEMMA QuietKeeps ==
  ASSUME LinksInv,
         made' = made, links' \subseteq links,
         work' \in [Workers -> Jobs \cup {Free}],
         \A w \in Workers : work'[w].stage = "write" => work'[w] = work[w],
         DOMAIN form' = Users,
         \A u \in Users : form'[u].step = "token" => form'[u].tag \in Players,
         wizard'.step = "player" => wizard'.target \in Users
  PROVE  LinksInv'
<1>1. LinksTypeOK'
  BY DEF LinksInv, LinksTypeOK
<1>2. CheckedBefore'
  BY DEF LinksInv, CheckedBefore
<1>3. SecondOwnerByTokenOrRace' /\ RegistersOnceUnlessRace'
  BY DEF LinksInv, SecondOwnerByTokenOrRace, RegistersOnceUnlessRace
<1> QED BY <1>1, <1>2, <1>3 DEF LinksInv

\* A handler that takes a link over has just seen that nothing is against it.
LEMMA TakeKeeps ==
  ASSUME LinksInv, NEW w \in Workers, NEW via \in {"token", "admin"}, NEW u \in Users,
         NEW t \in Players, Take(w, via, u, t),
         UNCHANGED <<links, made, form, wizard>>,
         IF via = "admin" THEN Foreign(t, u) = {} ELSE MayRegister(u)
  PROVE  LinksInv'
<1> DEFINE job == [stage |-> "write", via |-> via, user |-> u, tag |-> t, checked |-> made]
<1>1. job \in Jobs /\ job.via = via /\ job.user = u /\ job.tag = t /\ job.checked = made
  BY DEF LinksInv, LinksTypeOK, Jobs
<1>2. work' = [work EXCEPT ![w] = job]
  BY DEF Take
<1> HIDE DEF job
<1>3. work \in [Workers -> Jobs \cup {Free}] /\ made \in Nat
  BY DEF LinksInv, LinksTypeOK
<1>4. \A k \in links : IF via = "admin" THEN k.tag # t \/ k.user = u ELSE k.user # u
  BY DEF Foreign, OwnersOf, MayRegister, IsRegistered
<1>5. LinksTypeOK'
  BY <1>1, <1>2, <1>3 DEF LinksInv, LinksTypeOK
<1>6. CheckedBefore'
  <2> SUFFICES ASSUME NEW v \in Workers, work'[v].stage = "write"
               PROVE  /\ work'[v].checked <= made
                      /\ \A k \in links :
                           \/ work'[v].checked < k.at
                           \/ IF work'[v].via = "admin"
                              THEN k.tag # work'[v].tag \/ k.user = work'[v].user
                              ELSE k.user # work'[v].user
    BY DEF CheckedBefore
  <2>1. CASE v = w
    BY <1>1, <1>2, <1>3, <1>4, <2>1
  <2>2. CASE v # w
    BY <1>2, <1>3, <2>2 DEF LinksInv, CheckedBefore
  <2> QED BY <2>1, <2>2
<1>7. SecondOwnerByTokenOrRace' /\ RegistersOnceUnlessRace'
  BY DEF LinksInv, SecondOwnerByTokenOrRace, RegistersOnceUnlessRace
<1> QED BY <1>5, <1>6, <1>7 DEF LinksInv

\* A write rests on its check.
LEMMA WriteKeeps == ASSUME LinksInv, NEW w \in Workers, Write(w) PROVE LinksInv'
<1> DEFINE h == work[w]
           done == [h EXCEPT !.stage = "clear"]
<1>t. /\ made \in Nat /\ work \in [Workers -> Jobs \cup {Free}]
      /\ \A l \in links : l.at \in Nat /\ l.at <= made /\ l.via \in {"token", "admin"}
  BY DEF LinksInv, LinksTypeOK
<1>1. h \in Jobs /\ h.stage = "write"
  BY <1>t DEF Write, Free
<1>2. done \in Jobs /\ done.stage = "clear"
  <2> HIDE DEF h
  <2> QED BY <1>1 DEF Jobs
<1>3. work' = [work EXCEPT ![w] = done] /\ UNCHANGED <<form, wizard>>
  BY DEF Write
<1> HIDE DEF done
<1>4. /\ work' \in [Workers -> Jobs \cup {Free}]
      /\ \A v \in Workers : work'[v].stage = "write" => work'[v] = work[v]
  BY <1>t, <1>2, <1>3
<1>5. CASE UNCHANGED <<links, made>>
  BY <1>3, <1>4, <1>5, QuietKeeps DEF LinksInv, LinksTypeOK
<1>6. CASE /\ made' = made + 1
           /\ links' = links \cup {[id |-> NextLinkId, user |-> h.user, tag |-> h.tag,
                                    via |-> h.via, checked |-> h.checked, at |-> made']}
  <2> DEFINE l == [id |-> NextLinkId, user |-> h.user, tag |-> h.tag,
                   via |-> h.via, checked |-> h.checked, at |-> made']
  <2>1. /\ links' = links \cup {l}
        /\ l.user = h.user /\ l.tag = h.tag /\ l.via = h.via
        /\ l.checked = h.checked /\ l.at = made + 1
    BY <1>6
  <2>2. /\ h.via \in {"token", "admin"} /\ h.checked <= made
        /\ \A k \in links :
             \/ h.checked < k.at
             \/ IF h.via = "admin" THEN k.tag # h.tag \/ k.user = h.user ELSE k.user # h.user
    BY <1>1 DEF LinksInv, CheckedBefore, Jobs
  <2> HIDE DEF h, l
  <2>3. LinksTypeOK'
    BY <1>t, <1>3, <1>4, <1>6, <2>1, <2>2 DEF LinksInv, LinksTypeOK
  <2>4. CheckedBefore'
    <3>1. \A v \in Workers : work'[v].stage = "write" => work'[v].checked \in Nat
      BY <1>4 DEF Jobs, Free
    <3> QED BY <1>t, <1>4, <1>6, <2>1, <3>1 DEF LinksInv, CheckedBefore
  <2>5. SecondOwnerByTokenOrRace'
    BY <1>t, <2>1, <2>2 DEF LinksInv, SecondOwnerByTokenOrRace
  <2>6. RegistersOnceUnlessRace'
    BY <1>t, <2>1, <2>2 DEF LinksInv, RegistersOnceUnlessRace
  <2> QED BY <2>3, <2>4, <2>5, <2>6 DEF LinksInv
<1> QED BY <1>5, <1>6 DEF Write

\* Every step keeps it.
LEMMA LinksStepKeeps == LinksInv /\ [LinksNext]_linksVars => LinksInv'
<1> SUFFICES ASSUME LinksInv, [LinksNext]_linksVars PROVE LinksInv'
  OBVIOUS
<1>t. /\ made \in Nat /\ work \in [Workers -> Jobs \cup {Free}] /\ Free.stage = "none"
      /\ DOMAIN form = Users
      /\ \A u \in Users : form[u].step = "token" => form[u].tag \in Players
      /\ wizard.step = "player" => wizard.target \in Users
      /\ NoForm.step = "none" /\ NoWizard.step = "none"
  BY DEF LinksInv, LinksTypeOK, Free, NoForm, NoWizard
<1>1. ASSUME NEW t \in Players, MoveMember(t) PROVE LinksInv'
  BY <1>1, <1>t, QuietKeeps DEF MoveMember
<1>2. ASSUME NEW u \in Users, NEW step, NEW next, Ask(u, step, next),
             next.step = "token" => next.tag \in Players
      PROVE  LinksInv'
  <2> DEFINE f == IF IsRegistered(u) THEN NoForm ELSE next
  <2>1. /\ form' = [form EXCEPT ![u] = f]
        /\ UNCHANGED <<links, made, members, wizard, listed, work>>
    BY <1>2, <1>t DEF Ask
  <2> HIDE DEF f
  <2>2. \A v \in Users : form'[v].step = "token" => form'[v].tag \in Players
    <3>1. form' = [form EXCEPT ![u] = f]
      BY <2>1
    <3>2. f.step = "token" => f.tag \in Players
      BY <1>2, <1>t DEF f
    <3>3. \A v \in Users : form'[v] = form[v] \/ form'[v] = f
      BY <1>t, <3>1
    <3> QED BY <1>t, <3>2, <3>3
  <2>3. DOMAIN form' = Users
    BY <2>1, <1>t
  <2> QED BY <1>2, <1>t, <2>2, <2>3, QuietKeeps DEF Ask
<1>3. ASSUME NEW u \in Users, StartRegistration(u) PROVE LinksInv'
  BY <1>2, <1>3 DEF StartRegistration
<1>4. ASSUME NEW u \in Users, NEW t \in Players, GiveTag(u, t) PROVE LinksInv'
  BY <1>2, <1>4 DEF GiveTag
<1>5. ASSUME NEW u \in Users, NEW w \in Workers, GiveToken(u, w) PROVE LinksInv'
  <2>1. form[u].tag \in Players
    BY <1>5, <1>t DEF GiveToken
  <2>2. CASE MayRegister(u)
    BY <1>5, <2>1, <2>2, TakeKeeps DEF GiveToken
  <2>3. CASE ~MayRegister(u)
    <3>1. form' = [form EXCEPT ![u] = NoForm] /\ UNCHANGED <<links, made, wizard, work>>
      BY <1>5, <2>3 DEF GiveToken
    <3>2. /\ DOMAIN form' = Users
          /\ \A v \in Users : form'[v] = form[v] \/ form'[v] = NoForm
      BY <1>t, <3>1
    <3> QED BY <1>t, <3>1, <3>2, QuietKeeps
  <2> QED BY <2>2, <2>3
<1>6. ASSUME NEW w \in Workers, TokenRefused(w) PROVE LinksInv'
  <2>1. \A v \in Workers : work'[v] = work[v] \/ work'[v] = Free
    BY <1>6, <1>t DEF TokenRefused
  <2>2. work' \in [Workers -> Jobs \cup {Free}]
    BY <1>6, <1>t DEF TokenRefused
  <2> QED BY <1>6, <1>t, <2>1, <2>2, QuietKeeps DEF TokenRefused
<1>7. ASSUME NEW w \in Workers, Write(w) PROVE LinksInv'
  BY <1>7, WriteKeeps
<1>8. ASSUME NEW w \in Workers, Clear(w) PROVE LinksInv'
  <2>1. \A v \in Workers : work'[v] = work[v] \/ work'[v] = Free
    BY <1>8, <1>t DEF Clear
  <2>2. work' \in [Workers -> Jobs \cup {Free}]
    BY <1>8, <1>t DEF Clear
  <2>3. /\ DOMAIN form' = Users
        /\ \A v \in Users : form'[v] = form[v] \/ form'[v] = NoForm
    BY <1>8, <1>t DEF Clear
  <2>4. wizard' = wizard \/ wizard' = NoWizard
    BY <1>8 DEF Clear
  <2> QED BY <1>8, <1>t, <2>1, <2>2, <2>3, <2>4, QuietKeeps DEF Clear
<1>9. ASSUME NEW next, Turn(next), next.step = "player" => next.target \in Users
      PROVE  LinksInv'
  BY <1>9, <1>t, QuietKeeps DEF Turn
<1>10. ASSUME NEW u \in Users, GiveId(u) PROVE LinksInv'
  <2> DEFINE next == IF members = {} THEN NoWizard ELSE [step |-> "player", target |-> u]
  <2>1. Turn(next) /\ (next.step = "player" => next.target \in Users)
    BY <1>10, <1>t DEF GiveId
  <2> HIDE DEF next
  <2> QED BY <1>9, <2>1
<1>11. ASSUME NEW t \in Players, NEW w \in Workers, PickPlayer(t, w) PROVE LinksInv'
  <2>1. wizard.target \in Users /\ Foreign(t, wizard.target) = {}
    BY <1>11, <1>t DEF PickPlayer
  <2>2. CASE Turn(NoWizard)
    BY <1>9, <1>t, <2>2
  <2>3. CASE Take(w, "admin", wizard.target, t) /\ UNCHANGED <<links, made, members, form, wizard, listed>>
    BY <2>1, <2>3, TakeKeeps
  <2> QED BY <1>11, <2>2, <2>3 DEF PickPlayer
<1>12. CASE StartLink \/ CancelLink
  <2>1. CASE Turn([step |-> "id"])
    BY <1>9, <2>1
  <2>2. CASE Turn(NoWizard)
    BY <1>9, <1>t, <2>2
  <2> QED BY <1>12, <2>1, <2>2 DEF StartLink, CancelLink
<1>13. CASE ShowLinks
  BY <1>13, <1>t, QuietKeeps DEF ShowLinks
<1>14. CASE Unlink
  BY <1>14, <1>t, QuietKeeps DEF Unlink
<1>15. CASE RestartLinks
  <2>1. DOMAIN form' = Users /\ \A v \in Users : form'[v] = NoForm
    BY <1>15 DEF RestartLinks
  <2>2. work' \in [Workers -> Jobs \cup {Free}] /\ \A v \in Workers : work'[v] = Free
    BY <1>15 DEF RestartLinks
  <2> QED BY <1>15, <1>t, <2>1, <2>2, QuietKeeps DEF RestartLinks
<1>16. CASE UNCHANGED linksVars
  BY <1>16, <1>t, QuietKeeps DEF linksVars
<1> QED
  BY <1>1, <1>3, <1>4, <1>5, <1>6, <1>7, <1>8, <1>10, <1>11, <1>12, <1>13, <1>14, <1>15, <1>16
     DEF LinksNext

\* The inductive invariant holds in every state.
THEOREM LinksInvariant == LinksSpec => []LinksInv
<1> QED BY LinksInitOK, LinksStepKeeps, PTL DEF LinksSpec

\* Two owners of a player: the later has proved his ownership to the game, or
\* was linked by an administrator whose check ran before the earlier commit.
THEOREM SecondOwners == LinksSpec => []SecondOwnerByTokenOrRace
<1>1. LinksInv => SecondOwnerByTokenOrRace
  BY DEF LinksInv
<1> QED BY <1>1, LinksInvariant, PTL

\* A user registers a second player himself only when the check for it ran
\* before the first was committed.
THEOREM RegistersOnce == LinksSpec => []RegistersOnceUnlessRace
<1>1. LinksInv => RegistersOnceUnlessRace
  BY DEF LinksInv
<1> QED BY <1>1, LinksInvariant, PTL
=============================================================================
