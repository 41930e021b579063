----------------------------- MODULE AlarmConf -----------------------------
(***************************************************************************)
(* How alarm.conf becomes rules: read_conf reads the file line by line     *)
(* (src/src/config/configHandler.cpp:5-69), a condition goes through       *)
(* make_space and postfix (src/src/config/Handler.cpp:38-101) into the     *)
(* text that define_alarm evaluates on every picture with a stack          *)
(* (src/src/alarm/alarm.cpp:67-119).                                       *)
(*                                                                         *)
(* A line is what its beginning makes of it (key), the number after the    *)
(* colon if it has one, and the words of a condition.  A word is a         *)
(* sequence of atoms: brackets may stick to their neighbours, as in        *)
(* `(not 3', which is the words <<"(", "not">> and <<"3">>.                *)
(***************************************************************************)
EXTENDS Integers, Sequences, SequencesExt, FiniteSetsExt

CONSTANTS
  Class,       \* the classes, written as numbers: the atoms that start with a digit
  Numbers,     \* what may follow a colon; NotANumber makes std::stoi throw
  Rules,       \* the conditions a file may have: records as Join makes them
  LongRules,   \* longer ones, read only as the last line of a two-line file
  StrayLines,  \* lines that are no documented part of a block: see Stray
  MaxWords,    \* bound: words of a condition that is not in LongRules
  MaxLines     \* bound: length of a file

NotANumber == "x"
Unset == "unset"

\* An empty-looking line (blanks, or the lone \r of a file with CRLF ends), and
\* the key `risk_level' of alarm.conf:7, which read_conf does not know.
Stray == {"blank", "risk_level"}

\* How a block begins, the end marker alarm.conf:12 describes, and a condition whose
\* first character is a square bracket.
Marks == {"[", "[/", "[condition"}

\* A number in the file is written like a class.
ASSUME FileAssumption ==
  /\ Numbers \cap {Unset, "none"} = {} /\ Numbers \subseteq Class \cup {NotANumber}
  /\ StrayLines \subseteq Stray
  /\ MaxLines \in Nat /\ MaxWords \in Nat

VARIABLES
  a,           \* the Alarm under construction, NoAlarm for nullptr
  alarms,      \* AlarmManager::alarms
  reading,     \* "reading", "done" at the end of the file, "died" of an exception
  lines        \* history variable: the lines read so far

vars == <<a, alarms, reading, lines>>

-----------------------------------------------------------------------------
(***************************************************************************)
(* Conditions.                                                             *)
(***************************************************************************)
Opening == [bracket \in {")", "}", "]"} |->
              CASE bracket = ")" -> "(" [] bracket = "}" -> "{" [] bracket = "]" -> "["]

Signs == {"not", "and", "or"} \cup Range(Opening)
Words == Class \cup Signs

ASSUME ConditionAssumption ==
  /\ Class \cap (Signs \cup DOMAIN Opening) = {}
  /\ \A rule \in Rules \cup LongRules : rule.line \in Seq(Seq(Words \cup DOMAIN Opening))

\* make_space: a blank on both sides of every bracket, so that each atom becomes
\* a word of its own.
MakeSpace(words) == FlattenSeq(words)

\* The position of the topmost x in a stack, 0 when there is none.
Topmost(stack, x) == Max({0} \cup {i \in DOMAIN stack : stack[i] = x})

\* Mutant of PostfixWord: a closing bracket stays among the operators.
PostfixWordKeepsClosing(s, word) ==
  IF word \in Class \cup {"not"}
  THEN [s EXCEPT !.output = Append(@, word)]
  ELSE [s EXCEPT !.op = Append(@, word)]

\* One turn of postfix's loop.  A closing bracket pops the operators above the one
\* that opened it; only the round one pops that as well, the others leave it on the
\* stack.  A word that is none of these is passed over.
PostfixWord(s, word) ==
  CASE word \in Class \cup {"not"} -> [s EXCEPT !.output = Append(@, word)]
    [] word \in {"and", "or"} \cup Range(Opening) -> [s EXCEPT !.op = Append(@, word)]
    [] word \in DOMAIN Opening ->
         LET open == Topmost(s.op, Opening[word])
         IN  [op |-> SubSeq(s.op, 1, IF word = ")" THEN open - 1 ELSE open),
              output |-> s.output \o Reverse(SubSeq(s.op, open + 1, Len(s.op)))]
    [] OTHER -> s

\* The loop on these words, with the operators and the output there are before it.
Turns(start, words) ==
  LET turn[n \in 0 .. Len(words)] ==
        IF n = 0 THEN start ELSE PostfixWord(turn[n - 1], words[n])
  IN  turn[Len(words)]

Postfix(words) ==
  LET s == Turns([op |-> <<>>, output |-> <<>>], words)
  IN  s.output \o Reverse(s.op)

\* Mutant of Operand: a `not' is never taken back.
OperandStaysNegated(s, word, picture) ==
  [s EXCEPT !.values = Append(@, (word \in picture) # s.isNot)]

\* A class on the value stack; a `not' before it is used up.
Operand(s, word, picture) ==
  [values |-> Append(s.values, (word \in picture) # s.isNot), isNot |-> FALSE]

\* An operator takes the two topmost values.
Operate(values, word) ==
  LET n == Len(values)
  IN  Append(SubSeq(values, 1, n - 2),
             IF word = "and" THEN values[n - 1] /\ values[n] ELSE values[n - 1] \/ values[n])

\* One word of a condition; an opening bracket that postfix left over is passed over.
EvalWord(s, word, picture) ==
  CASE word \in Class         -> Operand(s, word, picture)
    [] word \in {"and", "or"} -> [s EXCEPT !.values = Operate(@, word)]
    [] word = "not"           -> [s EXCEPT !.isNot = TRUE]
    [] OTHER                  -> s

Evaluate(start, words, picture) ==
  LET turn[n \in 0 .. Len(words)] ==
        IF n = 0 THEN start ELSE EvalWord(turn[n - 1], words[n], picture)
  IN  turn[Len(words)]

\* define_alarm on one picture, which is the set of classes detected on it.
Holds(condition, picture) ==
  /\ condition # <<>>
  /\ Last(Evaluate([values |-> <<>>, isNot |-> FALSE], condition, picture).values)

-----------------------------------------------------------------------------
(***************************************************************************)
(* read_conf.                                                              *)
(***************************************************************************)
NoAlarm  == [target |-> "none", id |-> "none", condition |-> <<>>]
NewAlarm == [target |-> Unset, id |-> Unset, condition |-> <<>>]

NoRule == [line |-> <<>>, holds |-> {}, top |-> "none"]
Line(key, number, rule) == [key |-> key, number |-> number, rule |-> rule]

\* The next line of the file; a long rule ends it.
Getline(line) ==
  /\ reading = "reading" /\ Len(lines) < MaxLines
  /\ lines # <<>> => Len(Last(lines).rule.line) <= MaxWords
  /\ lines' = Append(lines, line)

\* A line that starts with # or /, or has no character at all.
SkipLine ==
  /\ Getline(Line("skip", Unset, NoRule))
  /\ UNCHANGED <<a, alarms, reading>>

\* Mutant of BeginAlarm: the Alarm is used again as it is.
BeginAlarmReuses(key) ==
  /\ Getline(Line(key, Unset, NoRule))
  /\ alarms' = IF a = NoAlarm THEN alarms ELSE Append(alarms, a)
  /\ a' = IF a = NoAlarm THEN NewAlarm ELSE a
  /\ UNCHANGED reading

\* A line that starts with [, whatever it was meant to be: the alarm before it is
\* complete.
BeginAlarm(key) ==
  /\ Getline(Line(key, Unset, NoRule))
  /\ alarms' = IF a = NoAlarm THEN alarms ELSE Append(alarms, a)
  /\ a' = NewAlarm
  /\ UNCHANGED reading

\* A setter is called through the null pointer, or std::stoi throws.
Die(line) ==
  /\ Getline(line)
  /\ a = NoAlarm \/ line.number = NotANumber
  /\ reading' = "died"
  /\ UNCHANGED <<a, alarms>>

\* alarm_id : number
SetAlarmId(number) ==
  /\ Getline(Line("alarm_id", number, NoRule)) /\ number # NotANumber /\ a # NoAlarm
  /\ a' = [a EXCEPT !.id = number]
  /\ UNCHANGED <<alarms, reading>>

\* target_channel : number
SetTarget(number) ==
  /\ Getline(Line("target_channel", number, NoRule)) /\ number # NotANumber /\ a # NoAlarm
  /\ a' = [a EXCEPT !.target = number]
  /\ UNCHANGED <<alarms, reading>>

\* Alarm Sentence : text, which becomes part of messages; it is left out here.
SetAlarmSentence ==
  /\ Getline(Line("Alarm Sentence", Unset, NoRule)) /\ a # NoAlarm
  /\ UNCHANGED <<a, alarms, reading>>

\* The line's first character is a square bracket.
Opens(words) == words # <<>> /\ words[1] # <<>> /\ words[1][1] = "["

\* Any other line is compiled as a condition, an empty-looking one included: what
\* was there before is overwritten.
SetCondition(key, number, rule, words) ==
  /\ ~Opens(words)
  /\ Getline(Line(key, number, rule)) /\ a # NoAlarm
  /\ a' = [a EXCEPT !.condition = Postfix(MakeSpace(words))]
  /\ UNCHANGED <<alarms, reading>>

\* No more lines: the last alarm is complete.
EndOfFile ==
  /\ reading = "reading"
  /\ reading' = "done"
  /\ alarms' = IF a = NoAlarm THEN alarms ELSE Append(alarms, a)
  /\ UNCHANGED <<a, lines>>

\* The file cannot be opened; main does not look at the result.
NoFile ==
  /\ reading = "reading" /\ lines = <<>>
  /\ reading' = "done"
  /\ UNCHANGED <<a, alarms, lines>>

-----------------------------------------------------------------------------
Init == a = NoAlarm /\ alarms = <<>> /\ reading = "reading" /\ lines = <<>>

\* The rules a condition line may have at this place of the file.
RulesHere == IF Len(lines) = 1 THEN Rules \cup LongRules ELSE Rules

StrayLine(number) ==
  \/ /\ "blank" \in StrayLines
     /\ SetCondition("blank", Unset, NoRule, <<>>)
  \/ /\ "risk_level" \in StrayLines
     /\ SetCondition("risk_level", number, NoRule, << <<"risk_level">>, <<":">>, <<number>> >>)

ReadLine ==
  \/ SkipLine
  \/ SetAlarmSentence
  \/ \E key \in Marks : BeginAlarm(key)
  \/ \E number \in Numbers :
       \/ SetAlarmId(number) \/ SetTarget(number) \/ StrayLine(number)
       \/ \E key \in {"alarm_id", "target_channel"} : Die(Line(key, number, NoRule))
  \/ \E rule \in RulesHere : SetCondition("condition", Unset, rule, rule.line)
  \/ \E rule \in Rules : ~Opens(rule.line) /\ Die(Line("condition", Unset, rule))
  \/ \E key \in StrayLines \cup {"Alarm Sentence"} : Die(Line(key, Unset, NoRule))

\* Whether the file was read or the process has died, read_conf is not called again.
Finished == reading # "reading" /\ UNCHANGED vars

Next == ReadLine \/ EndOfFile \/ NoFile \/ Finished

Spec == Init /\ [][Next]_vars

-----------------------------------------------------------------------------
(***************************************************************************)
(* What the file's own header says (alarm.conf:5-17): how a condition is   *)
(* written and on which pictures it holds, and what a block contains.      *)
(***************************************************************************)
Pictures == SUBSET Class

Seen(class) == [line |-> << <<class>> >>, top |-> "none",
                holds |-> {picture \in Pictures : class \in picture}]
NotSeen(class) == [line |-> << <<"not">>, <<class>> >>, top |-> "none",
                   holds |-> {picture \in Pictures : class \notin picture}]

\* A part of a condition, put in brackets that stick to its first and last word.
Bracketed(open, part, close) ==
  [i \in DOMAIN part.line |-> (IF i = 1 THEN <<open>> ELSE <<>>) \o part.line[i]
                              \o (IF i = Len(part.line) THEN <<close>> ELSE <<>>)]

\* Two parts joined by `and' or `or'; a part that is itself joined by the other
\* word, or that stands on the left, is in brackets.
Join(left, word, right, brackets) ==
  LET Group(part) == IF part.top = "none" THEN part.line
                     ELSE Bracketed(brackets[1], part, brackets[2])
  IN  [line  |-> Group(left) \o << <<word>> >>
                   \o (IF right.top = word THEN right.line ELSE Group(right)),
       holds |-> IF word = "and" THEN left.holds \cap right.holds
                 ELSE left.holds \cup right.holds,
       top   |-> word]

Begins == {i \in DOMAIN lines : lines[i].key \in Marks}
Names  == {i \in DOMAIN lines : lines[i].key = "["}

\* The lines of the block that begins at line b.
Block(b) == {i \in DOMAIN lines : i > b /\ \A c \in Begins : c > b => i < c}

\* What the last line of the block with one of these keys is; an unset one when
\* there is none.
Says(b, keys) ==
  LET said == {i \in Block(b) : lines[i].key \in keys}
  IN  IF said = {} THEN Line("none", Unset, NoRule) ELSE lines[Max(said)]

\* The block whose rule is alarms[n].
BlockNo(n) == CHOOSE b \in Begins : Cardinality({c \in Begins : c <= b}) = n

-----------------------------------------------------------------------------
(***************************************************************************)
(* Properties.                                                             *)
(***************************************************************************)
AlarmType == [target : Numbers \cup {Unset}, id : Numbers \cup {Unset}, condition : Seq(Words)]

\* Every variable has its type; no condition keeps a closing bracket or a word
\* that means nothing.
TypeOK ==
  /\ a \in AlarmType \cup {NoAlarm}
  /\ alarms \in Seq(AlarmType)
  /\ reading \in {"reading", "done", "died"}
  /\ Len(lines) <= MaxLines

\* Of a file in which only names stand at the start of a line in square brackets, every
\* block becomes one rule, in the order of the file, with the channel and the number
\* its block says last, and nothing of its neighbours': a block that leaves one out
\* leaves it unset (configHandler.cpp:28-67).
EveryBlockIsARule ==
  reading = "done" /\ lines # <<>> /\ Begins = Names =>
    /\ Len(alarms) = Cardinality(Names)
    /\ \A n \in DOMAIN alarms :
         /\ alarms[n].target = Says(BlockNo(n), {"target_channel"}).number
         /\ alarms[n].id = Says(BlockNo(n), {"alarm_id"}).number

\* A rule whose block has no stray line holds on just the pictures its last condition
\* says: brackets, chains of one word, and `not' before a class survive the way
\* through make_space, postfix and the stack of define_alarm; a block without a
\* condition never holds (Handler.cpp:38-101, alarm.cpp:67-119).
ConditionMeansWhatItSays ==
  reading = "done" =>
    \A n \in DOMAIN alarms :
      LET b == BlockNo(n)
      IN  (\A i \in Block(b) : lines[i].key \notin Stray)
            => {picture \in Pictures : Holds(alarms[n].condition, picture)}
                 = Says(b, {"condition"}).rule.holds

=============================================================================
