----------------------------- MODULE OverlayFile -----------------------------
(***************************************************************************)
(* The overlay file of one channel, resource/output/<channel>.txt, as the  *)
(* web page can rely on it: the writer empties it, adds a line per         *)
(* detection and closes it (src/src/main.cpp:430-471).  A reader may find  *)
(* it at any step, and the writer may stop at any.                         *)
(***************************************************************************)
EXTENDS FiniteSets

CONSTANT Class    \* the classes the detector knows

VARIABLES
  file,           \* the lines of the file: the alarm flag all have, their classes
  open            \* whether the writer has it open

fileVars == <<file, open>>

NoLines == [alarm |-> FALSE, classes |-> {}]
Overlay == {NoLines} \cup [alarm : BOOLEAN, classes : (SUBSET Class) \ {{}}]

\* A program that was killed has left whatever it had written.
FileInit == file \in Overlay /\ open = FALSE

\* std::ofstream truncates.
Truncate ==
  /\ ~open /\ open' = TRUE
  /\ file' = NoLines

\* std::endl flushes: each line becomes visible on its own.
AddLine(alarm, class) ==
  /\ open /\ class \notin file.classes
  /\ file.classes # {} => alarm = file.alarm
  /\ file' = [alarm |-> alarm, classes |-> file.classes \cup {class}]
  /\ UNCHANGED open

\* Closed by the program, or by its end at any point.
Close ==
  /\ open /\ open' = FALSE
  /\ UNCHANGED file

WriteFile ==
  \/ Truncate
  \/ \E alarm \in BOOLEAN, class \in Class : AddLine(alarm, class)
  \/ Close

FileSpec == FileInit /\ [][WriteFile]_fileVars

=============================================================================
