-------------------------- MODULE ViolationLedger --------------------------
(***************************************************************************)
(* What the administrators are promised about one regular war, with no     *)
(* polls, transactions or network in it.  Every attack has at most one     *)
(* entry.  The bot records automatic entries, several at a time; it never  *)
(* withdraws or rewrites an entry.  Only an administrator turns an attack  *)
(* into a manual entry and takes a manual entry away again.  The bot tells *)
(* an administrator of an entry together with recording it, and remembers  *)
(* for good whom it told.                                                  *)
(***************************************************************************)
CONSTANTS Admins, Attacks

VARIABLES entry,   \* [Attacks -> {"none", "automatic", "manual"}]
          told     \* SUBSET (Admins \X Attacks)
vars == <<entry, told>>

Init ==
  /\ entry = [n \in Attacks |-> "none"]
  /\ told = {}

(* Some attacks break the rules; administrators hear of these now.          *)
Recorded(n) == entry[n] = "none" /\ entry'[n] = "automatic"

Record ==
  /\ \A n \in Attacks : entry'[n] = entry[n] \/ Recorded(n)
  /\ told \subseteq told'
  /\ \A m \in told' \ told : Recorded(m[2])

Flag(n) ==
  /\ entry' = [entry EXCEPT ![n] = "manual"]
  /\ UNCHANGED told

Unflag(n) ==
  /\ entry[n] = "manual"
  /\ entry' = [entry EXCEPT ![n] = "none"]
  /\ UNCHANGED told

Next ==
  \/ Record
  \/ \E n \in Attacks : Flag(n) \/ Unflag(n)

Spec == Init /\ [][Next]_vars
=============================================================================
