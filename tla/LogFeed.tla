------------------------------ MODULE LogFeed ------------------------------
(***************************************************************************)
(* How an alarm reaches the operator's screen: the program pushes lines to *)
(* a list of limited length, the log worker writes the list to app.log     *)
(* every five seconds (src/include/config/logHandler.h:43-107), and the    *)
(* page fetches the file every three seconds and pops up the alarms that   *)
(* come after the last one it has seen                                     *)
(* (src/assets/resource/script.js:548-601).                                *)
(*                                                                         *)
(* A line is its number, which stands for its time stamp and text, and     *)
(* whether it has level ALARM.                                             *)
(***************************************************************************)
EXTENDS Integers, Sequences, SequencesExt, FiniteSetsExt

CONSTANTS
  Cap,         \* maxLogSize (50)
  MaxLines,    \* bound: lines pushed in a behaviour
  MaxPolls,    \* bound: answers on their way to the page at a time
  MaxCrashes   \* bound: how often the program is killed and restarted

ASSUME LimitAssumption == /\ Cap \in Nat \ {0} /\ MaxPolls \in Nat \ {0}
                          /\ MaxLines \in Nat /\ MaxCrashes \in Nat

VARIABLES
  lastNlines,   \* Log::lastNlines
  pushed,       \* how many lines have been pushed
  writer,       \* where the log worker is in save
  file,         \* content of app.log
  answers,      \* contents of app.log on their way to the page; whole is history
  last_alarm,   \* the page's last_alarm: a line, or NoLine
  popups,       \* for each line, how often the page popped it up (2: more than once)
  crashes       \* how often the program was killed

\* History variable: it steers no action.
VARIABLE
  disturbed     \* TRUE once a file arrived late or torn, or the program was killed

logVars  == <<lastNlines, pushed>>
pageVars == <<answers, last_alarm, popups, disturbed>>
vars == <<logVars, writer, file, pageVars, crashes>>

Line   == [no : 1 .. MaxLines, alarm : BOOLEAN]
NoLine == [no |-> 0, alarm |-> FALSE]

\* The last Cap of a sequence of lines.
Newest(lines) == SubSeq(lines, Len(lines) - Cap + 1, Len(lines))

\* Mutant of Trim: the list grows for ever.
TrimNothing(lines) == lines

\* The front of a full list is popped.
Trim(lines) == IF Len(lines) > Cap THEN Newest(lines) ELSE lines

-----------------------------------------------------------------------------
(***************************************************************************)
(* The program.                                                            *)
(***************************************************************************)
\* Log::push, which waits while save holds Log_lock.
Push(alarm) ==
  /\ writer # "writing" /\ pushed < MaxLines
  /\ pushed' = pushed + 1
  /\ lastNlines' = Trim(Append(lastNlines, [no |-> pushed + 1, alarm |-> alarm]))
  /\ UNCHANGED <<writer, file, pageVars, crashes>>

\* Log::save opens, and so truncates, the file before it takes the lock.
SaveOpen ==
  /\ writer = "asleep"
  /\ writer' = "opened" /\ file' = <<>>
  /\ UNCHANGED <<logVars, pageVars, crashes>>

\* It cannot be opened: save takes the lock, writes to a closed stream, and leaves
\* everything as it is.
SaveFails == writer = "asleep" /\ UNCHANGED vars

SaveLock ==
  /\ writer = "opened"
  /\ writer' = "writing"
  /\ UNCHANGED <<logVars, file, pageVars, crashes>>

\* std::endl flushes line by line.
SaveLine ==
  /\ writer = "writing" /\ Len(file) < Len(lastNlines)
  /\ file' = Append(file, lastNlines[Len(file) + 1])
  /\ UNCHANGED <<logVars, writer, pageVars, crashes>>

\* The lock is released; the log worker sleeps for five seconds.
SaveClose ==
  /\ writer = "writing" /\ Len(file) = Len(lastNlines)
  /\ writer' = "asleep"
  /\ UNCHANGED <<logVars, file, pageVars, crashes>>

\* The program is killed and starts again: Log::load reads what the file holds.
Restart ==
  /\ crashes < MaxCrashes
  /\ crashes' = crashes + 1
  /\ writer' = "asleep"
  /\ lastNlines' = Trim(file)
  /\ disturbed' = TRUE
  /\ UNCHANGED <<pushed, file, answers, last_alarm, popups>>

-----------------------------------------------------------------------------
(***************************************************************************)
(* The page.                                                               *)
(***************************************************************************)
\* The file is served as it is at that moment.  The page does not wait for the
\* answer to a poll before it sends the next.
Poll ==
  /\ Len(answers) < MaxPolls
  /\ answers' = Append(answers, [text |-> file, whole |-> writer = "asleep"])
  /\ UNCHANGED <<logVars, writer, file, last_alarm, popups, crashes, disturbed>>

\* Mutant of NewAlarms: the first of them is taken for seen.
NewAlarmsSkip(lines) ==
  {i \in DOMAIN lines : /\ lines[i].alarm
                        /\ \E h \in 1 .. i - 1 :
                             lines[h].alarm /\ \A j \in h .. Len(lines) : lines[j] # last_alarm}

\* Mutant of NewAlarms: every alarm of the file is new.
NewAlarmsAll(lines) == {i \in DOMAIN lines : lines[i].alarm}

\* Where a file has its new alarms: the ones that come after last_alarm, that is
\* after lastIndexOf(last_alarm), and all of them when it is not there.
NewAlarms(lines) ==
  {i \in DOMAIN lines : lines[i].alarm /\ \A j \in i .. Len(lines) : lines[j] # last_alarm}

\* An answer arrives, in whatever order; each new alarm is popped up.
Arrive(i) ==
  LET text == answers[i].text
      new  == NewAlarms(text)
      seen == {text[j].no : j \in new}
  IN  /\ answers' = RemoveAt(answers, i)
      /\ last_alarm' = IF new = {} THEN last_alarm ELSE text[Max(new)]
      /\ popups' = [no \in DOMAIN popups |->
                      IF no \in seen /\ popups[no] < 2 THEN popups[no] + 1 ELSE popups[no]]
      /\ disturbed' = (disturbed \/ i # 1 \/ ~answers[i].whole)
      /\ UNCHANGED <<logVars, writer, file, crashes>>

\* An answer is lost, or is an error page.
Fail(i) ==
  /\ answers' = RemoveAt(answers, i)
  /\ UNCHANGED <<logVars, writer, file, last_alarm, popups, crashes, disturbed>>

-----------------------------------------------------------------------------
Init ==
  /\ lastNlines = <<>> /\ pushed = 0
  /\ writer = "asleep" /\ file = <<>>
  /\ answers = <<>> /\ last_alarm = NoLine
  /\ popups = [no \in 1 .. MaxLines |-> 0]
  /\ crashes = 0 /\ disturbed = FALSE

Save    == SaveOpen \/ SaveLock \/ SaveLine \/ SaveClose
Deliver == \E i \in DOMAIN answers : Arrive(i)

Next ==
  \/ \E alarm \in BOOLEAN : Push(alarm)
  \/ Save \/ SaveFails \/ Restart
  \/ Poll \/ Deliver \/ \E i \in DOMAIN answers : Fail(i)

Spec == Init /\ [][Next]_vars

\* An answer to a poll that met the whole file arrives.
DeliverWhole == \E i \in DOMAIN answers : answers[i].whole /\ Arrive(i)

\* The log worker never stops, and not every open of the file fails.  Between two
\* saves it sleeps for five seconds and the page polls every three, so again and
\* again answers arrive and a poll is sent while it sleeps; and not all of the whole
\* files so sent get lost.
FairSpec == /\ Spec /\ WF_vars(Save)
            /\ SF_vars(Poll /\ writer = "asleep")
            /\ SF_vars(Deliver /\ writer = "asleep") /\ SF_vars(DeliverWhole)

-----------------------------------------------------------------------------
(***************************************************************************)
(* Properties.                                                             *)
(***************************************************************************)
Lines == [1 .. MaxLines -> 0 .. 2]

\* Every variable has its type; the list never holds more than Cap lines.
TypeOK ==
  /\ lastNlines \in Seq(Line) /\ Len(lastNlines) <= Cap
  /\ pushed \in 0 .. MaxLines
  /\ writer \in {"asleep", "opened", "writing"}
  /\ file \in Seq(Line) /\ Len(file) <= Cap
  /\ answers \in Seq([text : Seq(Line), whole : BOOLEAN]) /\ Len(answers) <= MaxPolls
  /\ last_alarm \in Line \cup {NoLine}
  /\ popups \in Lines
  /\ crashes \in 0 .. MaxCrashes
  /\ disturbed \in BOOLEAN

\* The page never passes over an alarm: whatever file it got, torn, late or out of
\* order, the alarms older than last_alarm that the list or the file still holds
\* have been popped up (script.js:576-591).
NoAlarmSkipped ==
  \A line \in Range(lastNlines) \cup Range(file) :
    line.alarm /\ line.no <= last_alarm.no => popups[line.no] > 0

\* As long as the page gets whole files in the order it asked for them, from a
\* program that is not restarted, an alarm pops up once, also when the last alarm
\* seen has left the file for newer lines and is looked for in vain
\* (script.js:576-595).  One torn file is enough to repeat an alarm, since the file
\* is truncated before the lock is taken (logHandler.h:95-105).
AlarmPopsUpOnce == ~disturbed => \A no \in 1 .. MaxLines : popups[no] <= 1

\* Every alarm that stays in the list pops up in the end; only one that newer lines
\* push out, or a restart loses, may not.
AlarmPopsUp ==
  \A no \in 1 .. MaxLines :
    (\E line \in Range(lastNlines) : line.no = no /\ line.alarm)
      ~> (popups[no] > 0 \/ \A line \in Range(lastNlines) : line.no # no)

=============================================================================
