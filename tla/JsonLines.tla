----------------------------- MODULE JsonLines -----------------------------
(***************************************************************************)
(* A file of JSON lines as the audit trail and the conversation log append *)
(* to it and read it back (app/security/audit.py,                          *)
(* app/conversations/logger.py).  A line holds one object, or nothing that *)
(* parses.  A write cut short leaves a last line without its end; the next *)
(* object is glued to it, and neither can be read from then on.  Where the *)
(* cut was within a character, the bytes of that line are no text either.  *)
(* A journal is file 0, which grows, and the files rotated away, 1 the     *)
(* newest.                                                                 *)
(***************************************************************************)
EXTENDS Integers, SequencesExt

Line(e) == [text |-> <<e>>, bytes |-> "whole", ended |-> TRUE]

\* Only the end of the line is missing, or some of the object too.
TornLines(e) == [text : {<<e>>, <<>>}, bytes : {"whole"}, ended : {FALSE}]

IsOpen(file) == file # <<>> /\ ~Last(file).ended

\* O_APPEND: what is written goes behind what is there.
Appended(file, line) ==
  IF IsOpen(file)
  THEN [file EXCEPT ![Len(file)] =
          [text |-> <<>>, ended |-> line.ended,
           bytes |-> IF @.bytes = "whole" THEN line.bytes ELSE "broken"]]
  ELSE Append(file, line)

\* It is file 0 that grows.
Longer(journal, line) == [journal EXCEPT ![0] = Appended(@, line)]

\* The objects of a file, lines that do not parse passed over.
Parsed(file) == FlattenSeq([i \in DOMAIN file |-> file[i].text])

\* The objects of some files, one file after the other.
Oldest2Newest(journal, files) ==
  FlattenSeq([i \in DOMAIN files |-> Parsed(journal[files[i]])])

\* All files of a journal with so many backups, the oldest first.
AllFiles(backups) == [i \in 1..(backups + 1) |-> backups + 1 - i]

\* os.replace from one number to the next; an empty file stands for none.
Shifted(journal, from) ==
  IF journal[from] = <<>> THEN journal
  ELSE [journal EXCEPT ![from + 1] = journal[from], ![from] = <<>>]
=============================================================================
