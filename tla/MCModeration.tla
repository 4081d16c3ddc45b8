---------------------------- MODULE MCModeration ----------------------------
(***************************************************************************)
(* Two sections that share no state: the moderation of the group, with an  *)
(* abusive text and media by one author and media by another; and the      *)
(* conversation log.  A behaviour works in one of them and leaves the      *)
(* other where it began.                                                   *)
(***************************************************************************)
EXTENDS Moderation, ConversationLog
CONSTANTS u1, u2, text, photo, video, Sections

VARIABLE section

MCUsers == {u1, u2}
MCMessages == {text, photo, video}
MCMedia == {photo, video}
MCAuthor == [m \in MCMessages |-> IF m = video THEN u2 ELSE u1]

ModerationInit ==
  /\ section \in Sections
  /\ Init /\ LogInit

\* The bound on records is reached: nothing else stops the log.
LogFull == (\A c \in Chats : sent[c] = MaxRecords) /\ UNCHANGED logVars

ModerationNext ==
  \/ section = "moderation" /\ Next /\ UNCHANGED <<section, logVars>>
  \/ section = "log" /\ (LogNext \/ LogFull) /\ UNCHANGED <<section, vars>>

ModerationSpec == ModerationInit /\ [][ModerationNext]_<<section, vars, logVars>>
=============================================================================
