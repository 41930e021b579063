--------------------------- MODULE LogFeedProofs ---------------------------
(***************************************************************************)
(* Proofs about the log and alarm pop-up feed, for every list limit, any   *)
(* number of lines, of answers on their way and of restarts.               *)
(***************************************************************************)
EXTENDS LogFeed, WellFoundedInduction, SequenceTheorems, TLAPS

-----------------------------------------------------------------------------
(***************************************************************************)
(* Sequences and numbers.                                                  *)
(***************************************************************************)
\* Popping the front of a full list drops some of the oldest lines and keeps the order.
LEMMA TrimIs ==
  ASSUME NEW S, NEW s \in Seq(S)
  PROVE  /\ Trim(s) \in Seq(S) /\ Len(Trim(s)) <= Cap
         /\ \E d \in Nat : /\ Len(Trim(s)) = Len(s) - d
                           /\ \A i \in DOMAIN Trim(s) : Trim(s)[i] = s[i + d]
<1> USE LimitAssumption
<1>1. CASE Len(s) > Cap
  <2>1. Trim(s) = SubSeq(s, Len(s) - Cap + 1, Len(s))
    BY <1>1 DEF Trim, Newest
  <2> DEFINE d == Len(s) - Cap
  <2>2. d \in Nat /\ Len(s) \in Nat /\ Len(s) - d = Cap /\ Len(s) - (d + 1) + 1 = Cap
    BY <1>1
  <2>3. /\ Trim(s) \in Seq(S) /\ Len(Trim(s)) = Cap
        /\ \A i \in 1 .. Cap : Trim(s)[i] = s[(d + 1) + i - 1]
    <3>1. \A i \in d + 1 .. Len(s) : s[i] \in S
      BY <2>2
    <3>2. d + 1 <= Len(s)
      BY <2>2
    <3>3. QED BY <2>1, <2>2, <3>1, <3>2, SubSeqProperties
  <2>4. ASSUME NEW i \in 1 .. Cap PROVE Trim(s)[i] = s[i + d]
    <3>1. (d + 1) + i - 1 = i + d
      BY <2>2
    <3>2. QED BY <2>3, <3>1
  <2>5. Len(Trim(s)) = Len(s) - d /\ DOMAIN Trim(s) = 1 .. Cap
    BY <2>2, <2>3
  <2> HIDE DEF d
  <2>6. \A i \in DOMAIN Trim(s) : Trim(s)[i] = s[i + d]
    BY <2>4, <2>5
  <2>7. \E e \in Nat : /\ Len(Trim(s)) = Len(s) - e
                       /\ \A i \in DOMAIN Trim(s) : Trim(s)[i] = s[i + e]
    BY <2>2, <2>5, <2>6, Zenon
  <2>8. Trim(s) \in Seq(S) /\ Len(Trim(s)) <= Cap
    BY <2>3
  <2>9. QED BY <2>7, <2>8, Zenon
<1>2. CASE ~(Len(s) > Cap)
  <2>1. Trim(s) = s
    BY <1>2 DEF Trim
  <2>2. Len(Trim(s)) = Len(s) - 0 /\ \A i \in DOMAIN Trim(s) : Trim(s)[i] = s[i + 0]
    BY <2>1
  <2>3. \E e \in Nat : /\ Len(Trim(s)) = Len(s) - e
                       /\ \A i \in DOMAIN Trim(s) : Trim(s)[i] = s[i + e]
    BY <2>2
  <2>4. Trim(s) \in Seq(S) /\ Len(Trim(s)) <= Cap
    BY <1>2, <2>1
  <2>5. QED BY <2>3, <2>4, Zenon
<1>3. QED BY <1>1, <1>2

\* Taking one element out of a sequence keeps the others in their order.
LEMMA RemoveAtIs ==
  ASSUME NEW S, NEW s \in Seq(S), NEW i \in DOMAIN s
  PROVE  /\ RemoveAt(s, i) \in Seq(S) /\ Len(RemoveAt(s, i)) = Len(s) - 1
         /\ \A m \in DOMAIN RemoveAt(s, i) :
              RemoveAt(s, i)[m] = IF m < i THEN s[m] ELSE s[m + 1]
<1> DEFINE a == SubSeq(s, 1, i - 1)
           b == SubSeq(s, i + 1, Len(s))
<1>1. a \in Seq(S) /\ Len(a) = i - 1 /\ \A m \in 1 .. i - 1 : a[m] = s[m]
  OBVIOUS
<1>2. b \in Seq(S) /\ Len(b) = Len(s) - i /\ \A m \in 1 .. Len(s) - i : b[m] = s[m + i]
  OBVIOUS
<1>3. RemoveAt(s, i) = a \o b
  BY DEF RemoveAt
<1> HIDE DEF a, b
<1>4. /\ Len(a \o b) = Len(s) - 1 /\ a \o b \in Seq(S)
      /\ \A m \in 1 .. Len(s) - 1 : (a \o b)[m] = IF m < i THEN a[m] ELSE b[m - (i - 1)]
  <2>1. /\ a \o b \in Seq(S) /\ Len(a \o b) = Len(a) + Len(b)
        /\ \A m \in 1 .. Len(a) + Len(b) :
             (a \o b)[m] = IF m <= Len(a) THEN a[m] ELSE b[m - Len(a)]
    <3>1. a \in Seq(S) /\ b \in Seq(S)
      BY <1>1, <1>2
    <3>2. QED BY <3>1, ConcatProperties
  <2>2. Len(a) = i - 1 /\ Len(b) = Len(s) - i /\ i \in 1 .. Len(s) /\ Len(s) \in Nat
    BY <1>1, <1>2
  <2>3. Len(a \o b) = Len(s) - 1 /\ a \o b \in Seq(S)
    BY <2>1, <2>2
  <2>4. ASSUME NEW m \in 1 .. Len(s) - 1
        PROVE  (a \o b)[m] = IF m < i THEN a[m] ELSE b[m - (i - 1)]
    <3>1. /\ m \in 1 .. Len(a) + Len(b) /\ (m <= Len(a) <=> m < i)
          /\ m - Len(a) = m - (i - 1)
      BY <2>2
    <3>2. QED BY <2>1, <3>1
  <2>5. QED BY <2>3, <2>4
<1>5. ASSUME NEW m \in 1 .. Len(s) - 1
      PROVE  (a \o b)[m] = IF m < i THEN s[m] ELSE s[m + 1]
  <2>1. CASE m < i
    BY <1>1, <1>4, <2>1
  <2>2. CASE ~(m < i)
    <3>1. m - (i - 1) \in 1 .. Len(s) - i /\ m - (i - 1) + i = m + 1
      BY <2>2
    <3>2. QED BY <1>2, <1>4, <2>2, <3>1
  <2>3. QED BY <2>1, <2>2
<1>6. DOMAIN (a \o b) = 1 .. Len(s) - 1
  BY <1>4
<1>7. QED BY <1>3, <1>4, <1>5, <1>6

\* "Less than" on the natural numbers is well-founded: a set of them has a least one.
LEMMA Least ==
  ASSUME NEW T, T \subseteq Nat, T # {}
  PROVE  \E x \in T : \A y \in T : x <= y
<1> DEFINE Less == {ss \in Nat \X Nat : ss[1] < ss[2]}
<1>1. IsWellFoundedOn(Less, Nat)
  BY NatLessThanWellFounded DEF OpToRel
<1>2. PICK x \in T : \A y \in T : <<y, x>> \notin Less
  BY <1>1, WFMin
<1>3. ASSUME NEW y \in T PROVE x <= y
  <2>1. <<y, x>> \in Nat \X Nat
    OBVIOUS
  <2>2. ~(y < x)
    BY <1>2, <2>1
  <2>3. QED BY <2>2
<1>4. QED BY <1>3

\* The last of a set of places is one of them, and none comes after it.
LEMMA MaxIs ==
  ASSUME NEW n \in Nat, NEW T, T \subseteq 1 .. n, T # {}
  PROVE  Max(T) \in T /\ \A y \in T : y <= Max(T)
<1> DEFINE U == {n - x : x \in T}
<1>1. \A x \in T : x \in Int /\ n - x \in Nat
  OBVIOUS
<1>2. U \subseteq Nat
  BY <1>1
<1>3. PICK t \in T : TRUE
  OBVIOUS
<1>4. n - t \in U
  OBVIOUS
<1>5. U # {}
  BY <1>4
<1>6. PICK u \in U : \A v \in U : u <= v
  BY <1>2, <1>5, Least
<1>7. PICK x \in T : u = n - x
  OBVIOUS
<1>8. ASSUME NEW y \in T PROVE x >= y
  <2>1. n - y \in U
    OBVIOUS
  <2>2. n - x <= n - y
    BY <1>6, <1>7, <2>1
  <2>3. QED BY <1>1, <2>2
<1>9. \E z \in T : \A y \in T : z >= y
  BY <1>8
<1>10. Max(T) \in T /\ \A y \in T : Max(T) >= y
  BY <1>9 DEF Max
<1>11. QED BY <1>1, <1>10

-----------------------------------------------------------------------------
(***************************************************************************)
(* Types.                                                                  *)
(***************************************************************************)
Answer == [text : Seq(Line), whole : BOOLEAN]

\* TRUE of a sequence of answers: what TypeOK says of every text in it.
TypeOfAnswer == /\ \A k \in DOMAIN answers : /\ answers[k].text \in Seq(Line)
                                             /\ answers[k].whole \in BOOLEAN
                /\ answers \in Seq(Answer)

LEMMA AnswersTyped ==
  ASSUME TypeOK
  PROVE  TypeOfAnswer
<1>1. answers \in Seq(Answer)
  BY DEF TypeOK, Answer
<1>2. \A k \in DOMAIN answers : answers[k] \in Answer
  BY <1>1
<1>3. QED BY <1>1, <1>2 DEF TypeOfAnswer, Answer

\* The number and the level of a line.
LEMMA LineIs ==
  ASSUME NEW line \in Line
  PROVE  /\ line.no \in 1 .. MaxLines /\ line.no \in Nat /\ line.no > 0
         /\ line.alarm \in BOOLEAN /\ line # NoLine
BY LimitAssumption DEF Line, NoLine

\* The new alarms of a text are places of it, and the last of them is the place
\* of an alarm that comes after every other.
LEMMA NewAlarmsAre ==
  ASSUME NEW text \in Seq(Line)
  PROVE  /\ NewAlarms(text) \subseteq DOMAIN text
         /\ NewAlarms(text) # {} =>
              /\ Max(NewAlarms(text)) \in NewAlarms(text)
              /\ \A i \in NewAlarms(text) : i <= Max(NewAlarms(text))
<1>1. NewAlarms(text) \subseteq 1 .. Len(text)
  BY DEF NewAlarms
<1>2. Len(text) \in Nat
  OBVIOUS
<1> HIDE DEF NewAlarms
<1>3. QED BY <1>1, <1>2, MaxIs

LEMMA TypeInit == Init => TypeOK
<1> SUFFICES ASSUME Init PROVE TypeOK
  OBVIOUS
<1>1. popups \in Lines
  BY DEF Init, Lines
<1>2. /\ lastNlines \in Seq(Line) /\ file \in Seq(Line)
      /\ answers \in Seq([text : Seq(Line), whole : BOOLEAN])
  BY DEF Init
<1>3. /\ Len(lastNlines) <= Cap /\ Len(file) <= Cap /\ Len(answers) <= MaxPolls
      /\ pushed \in 0 .. MaxLines /\ crashes \in 0 .. MaxCrashes
  BY LimitAssumption DEF Init
<1>4. QED BY <1>1, <1>2, <1>3 DEF Init, TypeOK

LEMMA TypePush ==
  ASSUME TypeOK, NEW alarm \in BOOLEAN, Push(alarm)
  PROVE  TypeOK'
<1> DEFINE new == [no |-> pushed + 1, alarm |-> alarm]
<1>1. pushed' \in 0 .. MaxLines /\ new \in Line
  BY LimitAssumption DEF TypeOK, Push, Line
<1>2. Append(lastNlines, new) \in Seq(Line)
  BY <1>1 DEF TypeOK
<1>3. lastNlines' = Trim(Append(lastNlines, new))
  BY DEF Push
<1>4. lastNlines' \in Seq(Line) /\ Len(lastNlines') <= Cap
  BY <1>2, <1>3, TrimIs
<1>5. QED BY <1>1, <1>4 DEF TypeOK, Push, pageVars

LEMMA TypeSave ==
  ASSUME TypeOK, Save
  PROVE  TypeOK'
<1>1. CASE SaveOpen
  <2>1. file' \in Seq(Line) /\ Len(file') <= Cap
    BY <1>1, LimitAssumption DEF SaveOpen
  <2>2. QED BY <1>1, <2>1 DEF SaveOpen, TypeOK, logVars, pageVars
<1>2. CASE SaveLock
  BY <1>2 DEF SaveLock, TypeOK, logVars, pageVars
<1>3. CASE SaveLine
  <2>1. file' \in Seq(Line) /\ Len(file') <= Cap
    <3>1. /\ file \in Seq(Line) /\ lastNlines \in Seq(Line) /\ Len(lastNlines) <= Cap
          /\ Len(file) < Len(lastNlines) /\ file' = Append(file, lastNlines[Len(file) + 1])
      BY <1>3 DEF SaveLine, TypeOK
    <3>2. lastNlines[Len(file) + 1] \in Line
      BY <3>1
    <3>3. QED BY <3>1, <3>2, LimitAssumption
  <2>2. QED BY <1>3, <2>1 DEF SaveLine, TypeOK, logVars, pageVars
<1>4. CASE SaveClose
  BY <1>4 DEF SaveClose, TypeOK, logVars, pageVars
<1>5. QED BY <1>1, <1>2, <1>3, <1>4 DEF Save

LEMMA TypeRestart ==
  ASSUME TypeOK, Restart
  PROVE  TypeOK'
<1>1. lastNlines' \in Seq(Line) /\ Len(lastNlines') <= Cap
  BY TrimIs DEF TypeOK, Restart
<1>2. crashes' \in 0 .. MaxCrashes
  BY LimitAssumption DEF TypeOK, Restart
<1>3. QED BY <1>1, <1>2 DEF TypeOK, Restart

LEMMA TypePoll ==
  ASSUME TypeOK, Poll
  PROVE  TypeOK'
<1> DEFINE new == [text |-> file, whole |-> writer = "asleep"]
<1>1. answers' \in Seq(Answer) /\ Len(answers') <= MaxPolls
  <2>1. new \in Answer
    BY DEF TypeOK, Answer
  <2>2. answers \in Seq(Answer) /\ Len(answers) < MaxPolls /\ answers' = Append(answers, new)
    BY DEF TypeOK, Answer, Poll
  <2> HIDE DEF new
  <2>3. QED BY <2>1, <2>2, LimitAssumption
<1>2. /\ lastNlines' = lastNlines /\ pushed' = pushed /\ writer' = writer /\ file' = file
      /\ last_alarm' = last_alarm /\ popups' = popups /\ crashes' = crashes
      /\ disturbed' = disturbed
  BY DEF Poll, logVars
<1>3. QED BY <1>1, <1>2 DEF TypeOK, Answer

LEMMA AnswerGone ==
  ASSUME TypeOK, NEW i \in DOMAIN answers, answers' = RemoveAt(answers, i)
  PROVE  answers' \in Seq(Answer) /\ Len(answers') <= MaxPolls
<1>1. answers \in Seq(Answer)
  BY DEF TypeOK, Answer
<1>2. QED BY <1>1, RemoveAtIs, LimitAssumption DEF TypeOK

LEMMA TypeArrive ==
  ASSUME TypeOK, NEW i \in DOMAIN answers, Arrive(i)
  PROVE  TypeOK'
<1> DEFINE text == answers[i].text
           seen == {text[j].no : j \in NewAlarms(text)}
<1>1. answers' \in Seq(Answer) /\ Len(answers') <= MaxPolls
  BY AnswerGone DEF Arrive
<1>2. text \in Seq(Line)
  BY AnswersTyped DEF TypeOfAnswer
<1>3. last_alarm' \in Line \cup {NoLine}
  <2>1. CASE NewAlarms(text) = {}
    BY <2>1 DEF Arrive, TypeOK
  <2>2. CASE NewAlarms(text) # {}
    <3>1. last_alarm' = text[Max(NewAlarms(text))]
      BY <2>2 DEF Arrive
    <3>2. Max(NewAlarms(text)) \in DOMAIN text
      BY <1>2, <2>2, NewAlarmsAre
    <3>3. QED BY <1>2, <3>1, <3>2
  <2>3. QED BY <2>1, <2>2
<1>4. popups' \in Lines
  <2>1. popups' = [no \in DOMAIN popups |->
                     IF no \in seen /\ popups[no] < 2 THEN popups[no] + 1 ELSE popups[no]]
    BY Zenon DEF Arrive
  <2> HIDE DEF seen
  <2>2. QED BY <2>1 DEF TypeOK, Lines
<1>5. disturbed' \in BOOLEAN
  BY Zenon DEF Arrive
<1>6. /\ lastNlines' = lastNlines /\ pushed' = pushed /\ writer' = writer /\ file' = file
      /\ crashes' = crashes
  BY DEF Arrive, logVars
<1> HIDE DEF text, seen
<1>7. QED BY <1>1, <1>3, <1>4, <1>5, <1>6 DEF TypeOK, Answer

LEMMA TypeStep == TypeOK /\ [Next]_vars => TypeOK'
<1> SUFFICES ASSUME TypeOK, [Next]_vars PROVE TypeOK'
  OBVIOUS
<1>1. ASSUME NEW alarm \in BOOLEAN, Push(alarm) PROVE TypeOK'
  BY <1>1, TypePush
<1>2. CASE Save
  BY <1>2, TypeSave
<1>3. CASE Restart
  BY <1>3, TypeRestart
<1>4. CASE Poll
  BY <1>4, TypePoll
<1>5. ASSUME NEW i \in DOMAIN answers, Arrive(i) PROVE TypeOK'
  BY <1>5, TypeArrive
<1>6. ASSUME NEW i \in DOMAIN answers, Fail(i) PROVE TypeOK'
  BY <1>6, AnswerGone DEF Fail, TypeOK, logVars, Answer
<1>7. CASE UNCHANGED vars
  BY <1>7 DEF TypeOK, vars, logVars, pageVars
<1>8. QED BY <1>1, <1>2, <1>3, <1>4, <1>5, <1>6, <1>7 DEF Next, SaveFails, Deliver

\* Every variable keeps its type; the list and the file never hold more than Cap
\* lines (logHandler.h:67-69).
THEOREM TypeCorrect == Spec => []TypeOK
BY TypeInit, TypeStep, PTL DEF Spec

-----------------------------------------------------------------------------
(***************************************************************************)
(* The page passes over no alarm.  Files are sorted, and a file that holds *)
(* a line holds also every older one that the program still has: what the  *)
(* page did not get from a torn or late file it can still get.             *)
(***************************************************************************)
Sorted(lines) == \A i, j \in DOMAIN lines : i < j => lines[i].no < lines[j].no

\* Every line of a text was pushed.
UpTo(lines, n) == \A i \in DOMAIN lines : lines[i].no <= n

\* A text misses no line that is still held and is older than one of its own.
Covers(lines, held) ==
  \A i \in DOMAIN lines : \A line \in held : line.no <= lines[i].no => line \in Range(lines)

GoodText(lines, n, held) == Sorted(lines) /\ UpTo(lines, n) /\ Covers(lines, held)

\* The lines that the list or the file holds.
Held == Range(lastNlines) \cup Range(file)

\* How far the log worker has come with the file.
Written ==
  /\ writer \in {"opened", "writing"} => Len(file) <= Len(lastNlines)
  /\ writer \in {"opened", "writing"} => \A i \in DOMAIN file : file[i] = lastNlines[i]
  /\ writer = "opened" => file = <<>>

TextInv ==
  /\ Sorted(lastNlines) /\ UpTo(lastNlines, pushed)
  /\ GoodText(file, pushed, Held) /\ Written
  /\ \A k \in DOMAIN answers : GoodText(answers[k].text, pushed, Held)
  /\ last_alarm.no <= pushed

\* What the step lemmas need to know of the types.
LEMMA Shapes ==
  ASSUME TypeOK
  PROVE  /\ lastNlines \in Seq(Line) /\ file \in Seq(Line) /\ pushed \in Nat
         /\ \A k \in DOMAIN answers : answers[k].text \in Seq(Line)
         /\ last_alarm.no \in Nat
<1>1. \A k \in DOMAIN answers : answers[k].text \in Seq(Line)
  BY AnswersTyped DEF TypeOfAnswer
<1>2. last_alarm.no \in Nat
  BY LineIs DEF TypeOK, NoLine
<1>3. QED BY <1>1, <1>2, LimitAssumption DEF TypeOK

LEMMA TrimSorted ==
  ASSUME NEW s \in Seq(Line), Sorted(s)
  PROVE  /\ Trim(s) \in Seq(Line) /\ Sorted(Trim(s)) /\ Range(Trim(s)) \subseteq Range(s)
         /\ \A line \in Range(s) : \/ line \in Range(Trim(s))
                                   \/ \A i \in DOMAIN Trim(s) : line.no < Trim(s)[i].no
<1> DEFINE t == Trim(s)
<1>1. t \in Seq(Line)
  BY TrimIs
<1>2. PICK d \in Nat : Len(t) = Len(s) - d /\ \A i \in DOMAIN t : t[i] = s[i + d]
  BY TrimIs
<1> HIDE DEF t
<1>3. \A i \in DOMAIN t : i \in Nat /\ i + d \in DOMAIN s
  BY <1>1, <1>2
<1>4. Sorted(t)
  <2>1. ASSUME NEW i \in DOMAIN t, NEW j \in DOMAIN t, i < j PROVE t[i].no < t[j].no
    <3>1. i + d < j + d
      BY <1>3, <2>1
    <3>2. s[i + d].no < s[j + d].no
      BY <1>3, <3>1 DEF Sorted
    <3>3. QED BY <1>2, <3>2
  <2>2. QED BY <2>1 DEF Sorted
<1>5. Range(t) \subseteq Range(s)
  BY <1>2, <1>3 DEF Range
<1>6. ASSUME NEW line \in Range(s)
      PROVE  line \in Range(t) \/ \A i \in DOMAIN t : line.no < t[i].no
  <2>1. PICK j \in DOMAIN s : line = s[j]
    BY DEF Range
  <2>2. CASE j > d
    <3>1. j - d \in DOMAIN t /\ j - d + d = j
      BY <1>1, <1>2, <2>2
    <3>2. t[j - d] = line
      BY <1>2, <2>1, <3>1
    <3>3. QED BY <3>1, <3>2 DEF Range
  <2>3. CASE ~(j > d)
    <3>1. ASSUME NEW i \in DOMAIN t PROVE line.no < t[i].no
      <4>1. j < i + d
        BY <1>1, <1>3, <2>3
      <4>2. s[j].no < s[i + d].no
        BY <1>3, <4>1 DEF Sorted
      <4>3. QED BY <1>2, <2>1, <4>2
    <3>2. QED BY <3>1
  <2>4. QED BY <2>2, <2>3
<1>7. QED BY <1>1, <1>4, <1>5, <1>6 DEF t

LEMMA AppendSorted ==
  ASSUME NEW s \in Seq(Line), Sorted(s), NEW e \in Line, \A i \in DOMAIN s : s[i].no < e.no
  PROVE  /\ Append(s, e) \in Seq(Line) /\ Sorted(Append(s, e))
         /\ Range(Append(s, e)) = Range(s) \cup {e}
<1> DEFINE t == Append(s, e)
<1>1. /\ t \in Seq(Line) /\ Len(t) = Len(s) + 1 /\ Len(s) \in Nat
      /\ t[Len(s) + 1] = e /\ \A i \in 1 .. Len(s) : t[i] = s[i]
  OBVIOUS
<1>2. DOMAIN t = 1 .. Len(s) + 1 /\ DOMAIN s = 1 .. Len(s)
  BY <1>1
<1> HIDE DEF t
<1>3. ASSUME NEW i \in DOMAIN t, NEW j \in DOMAIN t, i < j PROVE t[i].no < t[j].no
  <2>1. i \in DOMAIN s
    BY <1>2, <1>1, <1>3
  <2>2. CASE j = Len(s) + 1
    BY <1>1, <1>2, <2>1, <2>2
  <2>3. CASE j # Len(s) + 1
    <3>1. j \in DOMAIN s
      BY <1>1, <1>2, <2>3
    <3>2. QED BY <1>1, <1>2, <1>3, <2>1, <3>1 DEF Sorted
  <2>4. QED BY <2>2, <2>3
<1>4. Range(t) = Range(s) \cup {e}
  <2>1. \A x \in Range(t) : x \in Range(s) \cup {e}
    <3>1. ASSUME NEW i \in DOMAIN t PROVE t[i] \in Range(s) \cup {e}
      <4>1. CASE i = Len(s) + 1
        BY <1>1, <4>1
      <4>2. CASE i # Len(s) + 1
        <5>1. i \in DOMAIN s
          BY <1>1, <1>2, <4>2
        <5>2. QED BY <1>1, <1>2, <5>1 DEF Range
      <4>3. QED BY <4>1, <4>2
    <3>2. QED BY <3>1 DEF Range
  <2>2. e \in Range(t)
    <3>1. Len(s) + 1 \in DOMAIN t
      BY <1>1, <1>2
    <3>2. QED BY <1>1, <3>1 DEF Range
  <2>3. Range(s) \subseteq Range(t)
    <3>1. \A i \in DOMAIN s : i \in DOMAIN t /\ t[i] = s[i]
      BY <1>1, <1>2
    <3>2. QED BY <3>1 DEF Range
  <2>4. QED BY <2>1, <2>2, <2>3
<1>5. QED BY <1>1, <1>3, <1>4 DEF t, Sorted

\* A text stays good while lines are pushed, fall out of the list or are written.
LEMMA GoodKept ==
  ASSUME NEW text \in Seq(Line), NEW n \in Nat, NEW m \in Nat, n <= m,
         NEW held, NEW more \in SUBSET Line, GoodText(text, n, held),
         \A line \in more : line \in held \/ n < line.no
  PROVE  GoodText(text, m, more)
<1>1. \A i \in DOMAIN text : text[i].no \in Nat /\ text[i].no <= n
  BY LineIs DEF GoodText, UpTo
<1>2. UpTo(text, m)
  BY <1>1 DEF UpTo
<1>3. ASSUME NEW i \in DOMAIN text, NEW line \in more, line.no <= text[i].no
      PROVE  line \in Range(text)
  <2>1. line.no \in Nat
    BY LineIs
  <2>2. ~(n < line.no)
    BY <1>1, <1>3, <2>1
  <2>3. QED BY <1>3, <2>2 DEF GoodText, Covers
<1>4. QED BY <1>2, <1>3 DEF GoodText, Covers

\* What is held are lines.
LEMMA HeldLines ==
  ASSUME NEW s \in Seq(Line)
  PROVE  Range(s) \subseteq Line
BY DEF Range

\* The list with one more line.
LEMMA PushIs ==
  ASSUME TypeOK, TextInv, NEW alarm \in BOOLEAN, Push(alarm)
  PROVE  /\ lastNlines' \in Seq(Line) /\ Sorted(lastNlines') /\ UpTo(lastNlines', pushed')
         /\ pushed' = pushed + 1 /\ pushed' \in Nat
         /\ \A line \in Range(lastNlines') : line \in Range(lastNlines) \/ pushed < line.no
         /\ \A line \in Range(lastNlines) :
              line \in Range(lastNlines') \/ \A i \in DOMAIN lastNlines' : line.no < lastNlines'[i].no
<1> DEFINE new == [no |-> pushed + 1, alarm |-> alarm]
           all == Append(lastNlines, new)
<1>1. lastNlines \in Seq(Line) /\ pushed \in Nat /\ pushed < MaxLines
  BY Shapes DEF Push
<1>2. new \in Line /\ new.no = pushed + 1
  BY <1>1, LimitAssumption DEF Line
<1>3. \A i \in DOMAIN lastNlines : lastNlines[i] \in Line /\ lastNlines[i].no <= pushed
  BY <1>1 DEF TextInv, UpTo
<1>4. \A i \in DOMAIN lastNlines : lastNlines[i].no < new.no
  BY <1>1, <1>2, <1>3, LineIs
<1>5. lastNlines' = Trim(all) /\ pushed' = pushed + 1
  BY DEF Push
<1> HIDE DEF new
<1>6. all \in Seq(Line) /\ Sorted(all) /\ Range(all) = Range(lastNlines) \cup {new}
  BY <1>1, <1>2, <1>4, AppendSorted DEF TextInv
<1> HIDE DEF all
<1>7. /\ lastNlines' \in Seq(Line) /\ Sorted(lastNlines') /\ Range(lastNlines') \subseteq Range(all)
      /\ \A line \in Range(all) :
           line \in Range(lastNlines') \/ \A i \in DOMAIN lastNlines' : line.no < lastNlines'[i].no
  BY <1>5, <1>6, TrimSorted
<1>8. \A line \in Range(lastNlines') : line \in Range(lastNlines) \/ line = new
  BY <1>6, <1>7
<1>9. UpTo(lastNlines', pushed')
  <2>1. ASSUME NEW i \in DOMAIN lastNlines' PROVE lastNlines'[i].no <= pushed'
    <3>1. lastNlines'[i] \in Range(lastNlines')
      BY DEF Range
    <3>2. CASE lastNlines'[i] = new
      BY <1>1, <1>2, <1>5, <3>2
    <3>3. CASE lastNlines'[i] \in Range(lastNlines)
      BY <1>1, <1>3, <1>5, <3>3, LineIs DEF Range
    <3>4. QED BY <1>8, <3>1, <3>2, <3>3
  <2>2. QED BY <2>1 DEF UpTo
<1>10. pushed < new.no
  BY <1>1, <1>2
<1>11. QED BY <1>1, <1>5, <1>6, <1>7, <1>8, <1>9, <1>10

\* The page and the file are left alone, and what they hold stays good.
LEMMA TextPush ==
  ASSUME TypeOK, TextInv, NEW alarm \in BOOLEAN, Push(alarm)
  PROVE  TextInv'
<1>1. /\ lastNlines' \in Seq(Line) /\ Sorted(lastNlines') /\ UpTo(lastNlines', pushed')
      /\ pushed' = pushed + 1 /\ pushed' \in Nat
      /\ \A line \in Range(lastNlines') : line \in Range(lastNlines) \/ pushed < line.no
  BY PushIs
<1>2. /\ file' = file /\ answers' = answers /\ last_alarm' = last_alarm /\ writer' = writer
      /\ writer # "writing"
  BY DEF Push, pageVars
<1>3. file \in Seq(Line) /\ pushed \in Nat /\ last_alarm.no \in Nat
  BY Shapes
<1>4. Held' \in SUBSET Line /\ \A line \in Held' : line \in Held \/ pushed < line.no
  BY <1>1, <1>2, <1>3, HeldLines DEF Held
<1>5. ASSUME NEW text \in Seq(Line), GoodText(text, pushed, Held)
      PROVE  GoodText(text, pushed', Held')
  <2>1. pushed <= pushed'
    BY <1>1, <1>3
  <2>2. QED BY <1>1, <1>3, <1>4, <1>5, <2>1, GoodKept
<1>6. GoodText(file', pushed', Held')
  BY <1>2, <1>3, <1>5 DEF TextInv
<1>7. \A k \in DOMAIN answers' : GoodText(answers'[k].text, pushed', Held')
  BY <1>2, <1>5, Shapes DEF TextInv
<1>8. last_alarm'.no <= pushed'
  BY <1>1, <1>2, <1>3 DEF TextInv
<1>9. Written'
  BY <1>1, <1>2 DEF Written, TextInv
<1>10. QED BY <1>1, <1>6, <1>7, <1>8, <1>9 DEF TextInv

\* The answers on their way stay good while nothing new is held.
LEMMA AnswersStayGood ==
  ASSUME TypeOK, TextInv, answers' = answers, pushed' = pushed,
         Held' \subseteq Held, Held \subseteq Line
  PROVE  \A k \in DOMAIN answers' : GoodText(answers'[k].text, pushed', Held')
<1>1. ASSUME NEW k \in DOMAIN answers PROVE GoodText(answers[k].text, pushed, Held')
  <2>1. answers[k].text \in Seq(Line) /\ pushed \in Nat /\ pushed <= pushed
    BY Shapes
  <2>2. Held' \in SUBSET Line /\ \A line \in Held' : line \in Held \/ pushed < line.no
    OBVIOUS
  <2>3. GoodText(answers[k].text, pushed, Held)
    BY DEF TextInv
  <2> HIDE DEF Held
  <2>4. QED BY <2>1, <2>2, <2>3, GoodKept
<1>2. QED BY <1>1

LEMMA HeldAreLines ==
  ASSUME TypeOK
  PROVE  Held \subseteq Line
BY Shapes, HeldLines DEF Held

\* The file grows line by line into a copy of the list.
LEMMA SaveLineIs ==
  ASSUME TypeOK, TextInv, SaveLine
  PROVE  /\ file' \in Seq(Line) /\ Len(file') = Len(file) + 1 /\ Len(file') <= Len(lastNlines)
         /\ \A i \in DOMAIN file' : i \in DOMAIN lastNlines /\ file'[i] = lastNlines[i]
<1>1. file \in Seq(Line) /\ lastNlines \in Seq(Line) /\ \A i \in DOMAIN file : file[i] = lastNlines[i]
  BY Shapes DEF TextInv, Written, SaveLine
<1>2. Len(file) < Len(lastNlines) /\ file' = Append(file, lastNlines[Len(file) + 1])
  BY DEF SaveLine
<1>3. Len(file) \in Nat /\ Len(lastNlines) \in Nat /\ lastNlines[Len(file) + 1] \in Line
  BY <1>1, <1>2
<1>4. /\ file' \in Seq(Line) /\ Len(file') = Len(file) + 1
      /\ file'[Len(file) + 1] = lastNlines[Len(file) + 1]
      /\ \A i \in 1 .. Len(file) : file'[i] = file[i]
  BY <1>1, <1>2, <1>3
<1>5. ASSUME NEW i \in DOMAIN file' PROVE i \in DOMAIN lastNlines /\ file'[i] = lastNlines[i]
  <2>1. i \in 1 .. Len(file) + 1 /\ i \in DOMAIN lastNlines
    BY <1>1, <1>2, <1>3, <1>4
  <2>2. CASE i = Len(file) + 1
    BY <1>4, <2>1, <2>2
  <2>3. CASE i # Len(file) + 1
    <3>1. i \in 1 .. Len(file) /\ i \in DOMAIN file
      BY <1>1, <1>3, <2>1, <2>3
    <3>2. QED BY <1>1, <1>4, <2>1, <3>1
  <2>4. QED BY <2>2, <2>3
<1>6. QED BY <1>2, <1>3, <1>4, <1>5

LEMMA HeldSave ==
  ASSUME TypeOK, TextInv, Save
  PROVE  Held' \subseteq Held
<1>1. CASE SaveOpen
  <2>1. lastNlines' = lastNlines /\ Range(file') = {}
    BY <1>1 DEF SaveOpen, logVars, Range
  <2>2. QED BY <2>1 DEF Held
<1>2. CASE SaveLine
  <2>1. lastNlines' = lastNlines
    BY <1>2 DEF SaveLine, logVars
  <2>2. Range(file') \subseteq Range(lastNlines)
    BY <1>2, SaveLineIs DEF Range
  <2>3. QED BY <2>1, <2>2 DEF Held
<1>3. CASE SaveLock \/ SaveClose
  BY <1>3 DEF SaveLock, SaveClose, logVars, Held
<1>4. QED BY <1>1, <1>2, <1>3 DEF Save

LEMMA TextSave ==
  ASSUME TypeOK, TextInv, Save
  PROVE  TextInv'
<1>1. /\ lastNlines' = lastNlines /\ pushed' = pushed /\ answers' = answers
      /\ last_alarm' = last_alarm
  BY DEF Save, SaveOpen, SaveLock, SaveLine, SaveClose, logVars, pageVars
<1>2. Held' \subseteq Held /\ Held \subseteq Line
  BY HeldSave, HeldAreLines
<1>3. \A k \in DOMAIN answers' : GoodText(answers'[k].text, pushed', Held')
  BY <1>1, <1>2, AnswersStayGood
<1>4. GoodText(file', pushed', Held') /\ Written'
  <2>1. CASE SaveOpen
    <3>1. file' = <<>> /\ writer' = "opened" /\ Len(lastNlines) \in Nat
      BY <2>1, Shapes DEF SaveOpen
    <3>2. GoodText(file', pushed', Held')
      BY <3>1 DEF GoodText, Sorted, UpTo, Covers
    <3>3. Written'
      BY <1>1, <3>1 DEF Written
    <3>4. QED BY <3>2, <3>3
  <2>2. CASE SaveLine
    <3>1. /\ file' \in Seq(Line) /\ Len(file') <= Len(lastNlines) /\ writer' = "writing"
          /\ \A i \in DOMAIN file' : i \in DOMAIN lastNlines /\ file'[i] = lastNlines[i]
      BY <2>2, SaveLineIs DEF SaveLine
    <3>2. Sorted(file') /\ UpTo(file', pushed')
      BY <1>1, <3>1 DEF TextInv, Sorted, UpTo
    <3>3. ASSUME NEW i \in DOMAIN file', NEW line \in Held', line.no <= file'[i].no
          PROVE  line \in Range(file')
      <4>1. line \in Range(lastNlines) \/ line \in Range(file')
        BY <1>1 DEF Held
      <4>2. CASE line \in Range(lastNlines)
        <5>1. PICK j \in DOMAIN lastNlines : line = lastNlines[j]
          BY <4>2 DEF Range
        <5>2. i \in DOMAIN lastNlines /\ file'[i] = lastNlines[i]
          BY <3>1
        <5>3. lastNlines \in Seq(Line) /\ i \in Nat /\ j \in Nat
          BY <5>2, Shapes
        <5>4. lastNlines[i] \in Line /\ lastNlines[j] \in Line
          BY <5>2, <5>3
        <5>5. ~(lastNlines[i].no < lastNlines[j].no)
          BY <3>3, <5>1, <5>2, <5>4, LineIs
        <5>6. ~(i < j)
          BY <5>2, <5>5 DEF TextInv, Sorted
        <5>7. j \in DOMAIN file'
          BY <3>1, <5>3, <5>6
        <5>8. file'[j] = line
          BY <3>1, <5>1, <5>7
        <5>9. QED BY <5>7, <5>8 DEF Range
      <4>3. QED BY <4>1, <4>2
    <3>4. GoodText(file', pushed', Held')
      BY <3>2, <3>3 DEF GoodText, Covers
    <3>5. Written'
      BY <1>1, <3>1 DEF Written
    <3>6. QED BY <3>4, <3>5
  <2>3. CASE SaveLock \/ SaveClose
    <3>1. /\ file' = file /\ Held' = Held
          /\ \/ writer' = "asleep"
             \/ writer = "opened" /\ writer' = "writing"
      <4>1. CASE SaveLock
        BY <1>1, <4>1 DEF SaveLock, Held, logVars
      <4>2. CASE SaveClose
        BY <1>1, <4>2 DEF SaveClose, Held, logVars
      <4>3. QED BY <2>3, <4>1, <4>2
    <3>2. GoodText(file', pushed', Held')
      BY <1>1, <3>1 DEF TextInv
    <3>3. Written'
      BY <1>1, <3>1 DEF Written, TextInv
    <3>4. QED BY <3>2, <3>3
  <2>4. QED BY <2>1, <2>2, <2>3 DEF Save
<1>5. QED BY <1>1, <1>3, <1>4 DEF TextInv

\* The list is what the file held.
LEMMA TextRestart ==
  ASSUME TypeOK, TextInv, Restart
  PROVE  TextInv' /\ Held' \subseteq Held
<1>1. /\ lastNlines' = Trim(file) /\ file' = file /\ pushed' = pushed /\ answers' = answers
      /\ last_alarm' = last_alarm /\ writer' = "asleep"
  BY DEF Restart
<1>2. file \in Seq(Line) /\ Sorted(file) /\ UpTo(file, pushed)
  BY Shapes DEF TextInv, GoodText
<1>3. /\ lastNlines' \in Seq(Line) /\ Sorted(lastNlines')
      /\ Range(lastNlines') \subseteq Range(file)
  BY <1>1, <1>2, TrimSorted
<1>4. Held' \subseteq Held /\ Held \subseteq Line
  BY <1>1, <1>3, HeldAreLines DEF Held
<1>5. \A k \in DOMAIN answers' : GoodText(answers'[k].text, pushed', Held')
  BY <1>1, <1>4, AnswersStayGood
<1>6. UpTo(lastNlines', pushed')
  BY <1>1, <1>2, <1>3 DEF UpTo, Range
<1>7. GoodText(file', pushed', Held')
  BY <1>1, <1>4 DEF TextInv, GoodText, Covers
<1>8. Written'
  BY <1>1 DEF Written
<1>9. QED BY <1>1, <1>3, <1>4, <1>5, <1>6, <1>7, <1>8 DEF TextInv

LEMMA TextPoll ==
  ASSUME TypeOK, TextInv, Poll
  PROVE  TextInv'
<1>1. /\ lastNlines' = lastNlines /\ file' = file /\ pushed' = pushed
      /\ last_alarm' = last_alarm /\ writer' = writer
      /\ answers' = Append(answers, [text |-> file, whole |-> writer = "asleep"])
  BY DEF Poll, logVars
<1>2. Held' = Held
  BY <1>1 DEF Held
<1>3. ASSUME NEW k \in DOMAIN answers' PROVE GoodText(answers'[k].text, pushed, Held)
  <2>1. answers \in Seq(Answer)
    BY DEF TypeOK, Answer
  <2>2. (k \in DOMAIN answers /\ answers'[k] = answers[k]) \/ answers'[k].text = file
    BY <1>1, <2>1
  <2>3. QED BY <2>2 DEF TextInv
<1>4. QED BY <1>1, <1>2, <1>3 DEF TextInv, Written

\* The answers that are left were there before.
LEMMA AnswersLeft ==
  ASSUME TypeOK, NEW i \in DOMAIN answers, answers' = RemoveAt(answers, i)
  PROVE  \A k \in DOMAIN answers' :
           /\ k < i => k \in DOMAIN answers /\ answers'[k] = answers[k]
           /\ ~(k < i) => k + 1 \in DOMAIN answers /\ answers'[k] = answers[k + 1]
<1>1. answers \in Seq(Answer)
  BY DEF TypeOK, Answer
<1>2. /\ answers' \in Seq(Answer) /\ Len(answers') = Len(answers) - 1
      /\ \A k \in DOMAIN answers' : answers'[k] = IF k < i THEN answers[k] ELSE answers[k + 1]
  BY <1>1, RemoveAtIs
<1>3. \A k \in DOMAIN answers' : k \in DOMAIN answers /\ k + 1 \in DOMAIN answers
  BY <1>1, <1>2
<1>4. QED BY <1>2, <1>3

LEMMA TextsLeft ==
  ASSUME TypeOK, TextInv, NEW i \in DOMAIN answers, answers' = RemoveAt(answers, i),
         pushed' = pushed, Held' = Held
  PROVE  \A k \in DOMAIN answers' : GoodText(answers'[k].text, pushed', Held')
BY AnswersLeft DEF TextInv

\* The last alarm is a line of the answer, or the one it was.
LEMMA ArriveIs ==
  ASSUME TypeOK, NEW i \in DOMAIN answers, Arrive(i)
  PROVE  LET text == answers[i].text IN
         /\ text \in Seq(Line)
         /\ NewAlarms(text) = {} => last_alarm' = last_alarm
         /\ NewAlarms(text) # {} =>
              \E m \in DOMAIN text : /\ m \in NewAlarms(text) /\ last_alarm' = text[m]
                                     /\ \A j \in NewAlarms(text) : j <= m
<1> DEFINE text == answers[i].text
<1>1. text \in Seq(Line)
  BY Shapes
<1>2. ASSUME NewAlarms(text) # {}
      PROVE  /\ Max(NewAlarms(text)) \in DOMAIN text /\ Max(NewAlarms(text)) \in NewAlarms(text)
             /\ last_alarm' = text[Max(NewAlarms(text))]
             /\ \A j \in NewAlarms(text) : j <= Max(NewAlarms(text))
  BY <1>1, <1>2, NewAlarmsAre DEF Arrive
<1>3. NewAlarms(text) = {} => last_alarm' = last_alarm
  BY DEF Arrive
<1> HIDE DEF text
<1>4. QED BY <1>1, <1>2, <1>3 DEF text

LEMMA TextArrive ==
  ASSUME TypeOK, TextInv, NEW i \in DOMAIN answers, Arrive(i)
  PROVE  TextInv'
<1> DEFINE text == answers[i].text
<1>1. /\ lastNlines' = lastNlines /\ file' = file /\ pushed' = pushed /\ writer' = writer
      /\ answers' = RemoveAt(answers, i)
  BY DEF Arrive, logVars
<1>2. Held' = Held
  BY <1>1 DEF Held
<1>3. \A k \in DOMAIN answers' : GoodText(answers'[k].text, pushed', Held')
  BY <1>1, <1>2, TextsLeft
<1>4. last_alarm'.no <= pushed
  <2>1. UpTo(text, pushed)
    BY DEF TextInv, GoodText
  <2>2. last_alarm' = last_alarm \/ \E m \in DOMAIN text : last_alarm' = text[m]
    BY ArriveIs
  <2>3. QED BY <2>1, <2>2 DEF TextInv, UpTo
<1>5. QED BY <1>1, <1>2, <1>3, <1>4 DEF TextInv, Written

LEMMA TextStart == Init => TextInv
<1> SUFFICES ASSUME Init PROVE TextInv
  OBVIOUS
<1>1. /\ lastNlines = <<>> /\ file = <<>> /\ answers = <<>> /\ last_alarm.no = 0 /\ pushed = 0
      /\ writer = "asleep"
  BY DEF Init, NoLine
<1>2. QED BY <1>1 DEF TextInv, GoodText, Sorted, UpTo, Covers, Written

LEMMA TextStep ==
  ASSUME TypeOK, TextInv, [Next]_vars
  PROVE  TextInv'
<1>1. ASSUME NEW alarm \in BOOLEAN, Push(alarm) PROVE TextInv'
  BY <1>1, TextPush
<1>2. CASE Save
  BY <1>2, TextSave
<1>3. CASE Restart
  BY <1>3, TextRestart
<1>4. CASE Poll
  BY <1>4, TextPoll
<1>5. ASSUME NEW i \in DOMAIN answers, Arrive(i) PROVE TextInv'
  BY <1>5, TextArrive
<1>6. ASSUME NEW i \in DOMAIN answers, Fail(i) PROVE TextInv'
  <2>1. /\ lastNlines' = lastNlines /\ file' = file /\ pushed' = pushed /\ writer' = writer
        /\ last_alarm' = last_alarm /\ answers' = RemoveAt(answers, i)
    BY <1>6 DEF Fail, logVars
  <2>2. Held' = Held
    BY <2>1 DEF Held
  <2>3. QED BY <2>1, <2>2, TextsLeft DEF TextInv, Written
<1>7. CASE UNCHANGED vars
  BY <1>7 DEF TextInv, Held, Written, vars, logVars, pageVars
<1>8. QED BY <1>1, <1>2, <1>3, <1>4, <1>5, <1>6, <1>7 DEF Next, SaveFails, Deliver

\* What an answer does to the popups: each new alarm once more, up to twice.
LEMMA PopupsAre ==
  ASSUME TypeOK, NEW i \in DOMAIN answers, Arrive(i), NEW no \in 1 .. MaxLines
  PROVE  LET text == answers[i].text IN
         /\ popups[no] \in 0 .. 2 /\ popups'[no] \in 0 .. 2
         /\ popups'[no] >= popups[no] /\ popups'[no] <= popups[no] + 1
         /\ (\E j \in NewAlarms(text) : text[j].no = no) => popups'[no] > 0
         /\ popups'[no] # popups[no] => \E j \in NewAlarms(text) : text[j].no = no
<1> DEFINE text == answers[i].text
           seen == {text[j].no : j \in NewAlarms(text)}
<1>1. popups' = [n \in DOMAIN popups |->
                   IF n \in seen /\ popups[n] < 2 THEN popups[n] + 1 ELSE popups[n]]
  BY Zenon DEF Arrive
<1>2. no \in DOMAIN popups /\ popups[no] \in 0 .. 2
  BY DEF TypeOK, Lines
<1> HIDE DEF seen
<1>3. popups'[no] = IF no \in seen /\ popups[no] < 2 THEN popups[no] + 1 ELSE popups[no]
  BY <1>1, <1>2
<1>4. no \in seen <=> \E j \in NewAlarms(text) : text[j].no = no
  BY DEF seen
<1>5. QED BY <1>2, <1>3, <1>4

\* An alarm of the answer that is not new comes before the last alarm seen.
LEMMA OldIsOlder ==
  ASSUME NEW text \in Seq(Line), Sorted(text), NEW j \in DOMAIN text, text[j].alarm,
         j \notin NewAlarms(text)
  PROVE  \E m \in DOMAIN text : /\ j <= m /\ text[m] = last_alarm
                                /\ text[j].no <= last_alarm.no
<1>1. PICK m \in j .. Len(text) : text[m] = last_alarm
  BY DEF NewAlarms
<1>2. m \in DOMAIN text /\ j <= m /\ text[j] \in Line /\ text[m] \in Line
  BY <1>1
<1>3. text[j].no <= text[m].no
  <2>1. CASE j = m
    BY <1>2, <2>1, LineIs
  <2>2. CASE j < m
    BY <1>2, <2>2, LineIs DEF Sorted
  <2>3. QED BY <1>1, <2>1, <2>2
<1>4. QED BY <1>1, <1>2, <1>3

\* While nothing new is held and the page stands still, no alarm is passed over.
LEMMA SkipKept ==
  ASSUME TypeOK, TextInv, NoAlarmSkipped, popups' = popups, last_alarm' = last_alarm,
         Held' \subseteq Line, \A line \in Held' : line \in Held \/ pushed < line.no
  PROVE  NoAlarmSkipped'
<1> SUFFICES ASSUME NEW line \in Held', line.alarm, line.no <= last_alarm.no
             PROVE  popups[line.no] > 0
  BY DEF NoAlarmSkipped, Held
<1>1. line.no \in Nat /\ last_alarm.no \in Nat /\ pushed \in Nat /\ last_alarm.no <= pushed
  BY LineIs, Shapes DEF TextInv
<1>2. line \in Held
  BY <1>1
<1>3. QED BY <1>2 DEF NoAlarmSkipped, Held

LEMMA SkipArrive ==
  ASSUME TypeOK, TextInv, NoAlarmSkipped, NEW i \in DOMAIN answers, Arrive(i)
  PROVE  NoAlarmSkipped'
<1> DEFINE text == answers[i].text
           new  == NewAlarms(text)
<1>1. lastNlines' = lastNlines /\ file' = file
  BY DEF Arrive, logVars
<1> SUFFICES ASSUME NEW line \in Held, line.alarm, line.no <= last_alarm'.no
             PROVE  popups'[line.no] > 0
  BY <1>1 DEF NoAlarmSkipped, Held
<1>2. line \in Line /\ line.no \in Nat /\ line.no \in 1 .. MaxLines
  BY HeldAreLines, LineIs
<1>3. line.no <= last_alarm.no => popups'[line.no] > 0
  <2>1. line.no <= last_alarm.no => popups[line.no] > 0
    BY DEF NoAlarmSkipped, Held
  <2>2. /\ popups[line.no] \in 0 .. 2 /\ popups'[line.no] \in 0 .. 2
        /\ popups'[line.no] >= popups[line.no]
    BY <1>2, PopupsAre
  <2>3. QED BY <1>1, <1>2, <2>1, <2>2
<1>4. CASE new = {}
  BY <1>3, <1>4, ArriveIs
<1>5. CASE new # {}
  <2>1. text \in Seq(Line) /\ GoodText(text, pushed, Held)
    BY Shapes DEF TextInv
  <2>2. PICK m \in DOMAIN text : last_alarm' = text[m]
    BY <1>5, ArriveIs
  <2>3. line \in Range(text)
    BY <2>1, <2>2 DEF GoodText, Covers
  <2>4. PICK j \in DOMAIN text : line = text[j]
    BY <2>3 DEF Range
  <2>5. CASE j \in new
    BY <1>2, <2>4, <2>5, PopupsAre
  <2>6. CASE j \notin new
    <3>1. line.no <= last_alarm.no
      BY <2>1, <2>4, <2>6, OldIsOlder DEF GoodText
    <3>2. QED BY <1>3, <3>1
  <2>7. QED BY <2>5, <2>6
<1>6. QED BY <1>4, <1>5

SkipInv == TypeOK /\ TextInv /\ NoAlarmSkipped

LEMMA SkipStart == Init => SkipInv
<1>1. Init => NoAlarmSkipped
  BY DEF Init, NoAlarmSkipped, Range
<1>2. QED BY <1>1, TypeInit, TextStart DEF SkipInv

LEMMA SkipStep == SkipInv /\ [Next]_vars => SkipInv'
<1> SUFFICES ASSUME TypeOK, TextInv, NoAlarmSkipped, [Next]_vars PROVE NoAlarmSkipped'
  BY TypeStep, TextStep DEF SkipInv
<1>1. TypeOK' /\ Held' \subseteq Line
  <2>1. TypeOK' /\ lastNlines' \in Seq(Line) /\ file' \in Seq(Line)
    BY TypeStep DEF TypeOK
  <2>2. QED BY <2>1, HeldLines DEF Held
<1>2. ASSUME NEW alarm \in BOOLEAN, Push(alarm) PROVE NoAlarmSkipped'
  <2>1. file' = file /\ popups' = popups /\ last_alarm' = last_alarm
    BY <1>2 DEF Push, pageVars
  <2>2. \A line \in Held' : line \in Held \/ pushed < line.no
    BY <1>2, <2>1, PushIs DEF Held
  <2>3. QED BY <1>1, <2>1, <2>2, SkipKept
<1>3. CASE Save
  <2>1. popups' = popups /\ last_alarm' = last_alarm
    BY <1>3 DEF Save, SaveOpen, SaveLock, SaveLine, SaveClose, pageVars
  <2>2. QED BY <1>1, <1>3, <2>1, HeldSave, SkipKept
<1>4. CASE Restart
  <2>1. popups' = popups /\ last_alarm' = last_alarm
    BY <1>4 DEF Restart
  <2>2. QED BY <1>1, <1>4, <2>1, TextRestart, SkipKept
<1>5. ASSUME NEW i \in DOMAIN answers, Arrive(i) PROVE NoAlarmSkipped'
  BY <1>5, SkipArrive
<1>6. CASE Poll \/ (\E i \in DOMAIN answers : Fail(i)) \/ UNCHANGED vars
  <2>1. /\ lastNlines' = lastNlines /\ file' = file
        /\ popups' = popups /\ last_alarm' = last_alarm
    BY <1>6 DEF Poll, Fail, vars, logVars, pageVars
  <2>2. QED BY <2>1 DEF NoAlarmSkipped
<1>7. QED BY <1>2, <1>3, <1>4, <1>5, <1>6 DEF Next, SaveFails, Deliver

\* Whatever file the page got, torn, late or out of order, the alarms older than the
\* last one it has seen that the list or the file still holds have been popped up
\* (script.js:576-591).
THEOREM NoneSkipped == Spec => []NoAlarmSkipped
<1>1. SkipInv => NoAlarmSkipped
  BY DEF SkipInv
<1>2. QED BY SkipStart, SkipStep, <1>1, PTL DEF Spec

-----------------------------------------------------------------------------
(***************************************************************************)
(* An alarm pops up once.  The page looks for the last alarm it has seen   *)
(* in a file and takes what follows for new, or all of it when the line is *)
(* not there.  That is right only in a file where the line is missing      *)
(* because newer ones have pushed it out: every file asked for later is    *)
(* one, as long as it was read whole and arrives in its turn.              *)
(***************************************************************************)
\* A text has the line, or only newer ones.
Keeps(line, text) == line \in Range(text) \/ \A i \in DOMAIN text : line.no < text[i].no

\* The lines that the page knows or can still learn of from what is on its way, and
\* from the file while it is whole.
Known ==
  {line \in Line \cup {NoLine} :
     \/ line = last_alarm
     \/ \E k \in DOMAIN answers : answers[k].whole /\ line \in Range(answers[k].text)
     \/ writer = "asleep" /\ line \in Range(file)}

PopsInv ==
  \A no \in 1 .. MaxLines : popups[no] <= 1 /\ (popups[no] > 0 => no <= last_alarm.no)

KnownInv ==
  \A line \in Known : /\ Keeps(line, lastNlines)
                      /\ writer = "asleep" => Keeps(line, file)

\* Whole files have the lines of the ones asked for before them, or newer ones only.
OrderInv ==
  \A k \in DOMAIN answers : answers[k].whole =>
    /\ Keeps(last_alarm, answers[k].text)
    /\ \A j \in DOMAIN answers :
         j < k /\ answers[j].whole =>
           \A line \in Range(answers[j].text) : Keeps(line, answers[k].text)

OnceInv == ~disturbed => PopsInv /\ KnownInv /\ OrderInv

\* What is known was pushed.
LEMMA KnownUpTo ==
  ASSUME TypeOK, TextInv, NEW line \in Known
  PROVE  line.no \in Nat /\ line.no <= pushed
<1>1. line.no \in Nat
  BY LineIs DEF Known, NoLine
<1>2. CASE line = last_alarm
  BY <1>1, <1>2 DEF TextInv
<1>3. ASSUME NEW k \in DOMAIN answers, line \in Range(answers[k].text) PROVE line.no <= pushed
  BY <1>3 DEF TextInv, GoodText, UpTo, Range
<1>4. CASE line \in Range(file)
  BY <1>1, <1>4 DEF TextInv, GoodText, UpTo, Range
<1>5. QED BY <1>1, <1>2, <1>3, <1>4 DEF Known

\* A new alarm of a text that keeps the last one seen is newer than that.
LEMMA NewIsNewer ==
  ASSUME NEW text \in Seq(Line), Sorted(text), Keeps(last_alarm, text),
         NEW j \in NewAlarms(text)
  PROVE  j \in DOMAIN text /\ last_alarm.no < text[j].no
<1>1. j \in DOMAIN text /\ j \in Nat /\ \A m \in j .. Len(text) : text[m] # last_alarm
  BY DEF NewAlarms
<1>2. CASE last_alarm \in Range(text)
  <2>1. PICK m \in DOMAIN text : text[m] = last_alarm
    BY <1>2 DEF Range
  <2>2. m \in Nat /\ m <= Len(text) /\ Len(text) \in Nat
    OBVIOUS
  <2>3. ~(j <= m)
    BY <1>1, <2>1, <2>2
  <2>4. m < j
    BY <1>1, <2>2, <2>3
  <2>5. QED BY <1>1, <2>1, <2>4 DEF Sorted
<1>3. QED BY <1>1, <1>2 DEF Keeps

\* More lines in the list: what it lacks is older than all it has.
LEMMA OncePush ==
  ASSUME TypeOK, TextInv, KnownInv, NEW alarm \in BOOLEAN, Push(alarm)
  PROVE  KnownInv'
<1>1. /\ file' = file /\ answers' = answers /\ last_alarm' = last_alarm /\ writer' = writer
  BY DEF Push, pageVars
<1>2. Known' = Known
  BY <1>1 DEF Known
<1>3. ASSUME NEW line \in Known PROVE Keeps(line, lastNlines')
  <2>1. line.no \in Nat /\ line.no <= pushed /\ pushed \in Nat
    BY KnownUpTo, Shapes
  <2>2. /\ lastNlines' \in Seq(Line)
        /\ \A x \in Range(lastNlines') : x \in Range(lastNlines) \/ pushed < x.no
        /\ \A x \in Range(lastNlines) :
             x \in Range(lastNlines') \/ \A i \in DOMAIN lastNlines' : x.no < lastNlines'[i].no
    BY PushIs
  <2>3. CASE line \in Range(lastNlines)
    BY <2>2, <2>3 DEF Keeps
  <2>4. CASE \A i \in DOMAIN lastNlines : line.no < lastNlines[i].no
    <3>1. ASSUME NEW i \in DOMAIN lastNlines' PROVE line.no < lastNlines'[i].no
      <4>1. lastNlines'[i] \in Range(lastNlines') /\ lastNlines'[i] \in Line
        BY <2>2 DEF Range
      <4>2. CASE lastNlines'[i] \in Range(lastNlines)
        BY <2>4, <4>2 DEF Range
      <4>3. CASE pushed < lastNlines'[i].no
        BY <2>1, <4>1, <4>3, LineIs
      <4>4. QED BY <2>2, <4>1, <4>2, <4>3
    <3>2. QED BY <3>1 DEF Keeps
  <2>5. QED BY <2>3, <2>4 DEF KnownInv, Keeps
<1>4. QED BY <1>1, <1>2, <1>3 DEF KnownInv

\* The file is whole again when the log worker goes to sleep.
LEMMA OnceSave ==
  ASSUME TypeOK, TextInv, KnownInv, Save
  PROVE  KnownInv'
<1>1. lastNlines' = lastNlines /\ answers' = answers /\ last_alarm' = last_alarm
  BY DEF Save, SaveOpen, SaveLock, SaveLine, SaveClose, logVars, pageVars
<1>2. CASE SaveOpen \/ SaveLock \/ SaveLine
  <2>1. writer' # "asleep"
    BY <1>2 DEF SaveOpen, SaveLock, SaveLine
  <2>2. Known' \subseteq Known
    BY <1>1, <2>1 DEF Known
  <2>3. QED BY <1>1, <2>1, <2>2 DEF KnownInv
<1>3. CASE SaveClose
  <2>1. /\ file' = file /\ Len(file) = Len(lastNlines) /\ writer = "writing"
        /\ \A i \in DOMAIN file : file[i] = lastNlines[i]
    BY <1>3 DEF SaveClose, TextInv, Written
  <2>2. file \in Seq(Line) /\ lastNlines \in Seq(Line)
    BY Shapes
  <2>3. DOMAIN file = DOMAIN lastNlines
    BY <2>1, <2>2
  <2>4. Range(file) = Range(lastNlines)
    BY <2>1, <2>3 DEF Range
  <2>5. \A line : Keeps(line, lastNlines) => Keeps(line, file)
    BY <2>1, <2>3, <2>4 DEF Keeps
  <2>6. \A line \in Known' : line \in Known \/ line \in Range(file)
    BY <1>1, <2>1 DEF Known
  <2>7. \A line \in Known' : Keeps(line, lastNlines)
    BY <2>4, <2>6 DEF KnownInv, Keeps
  <2>8. QED BY <1>1, <2>1, <2>5, <2>7 DEF KnownInv
<1>4. QED BY <1>2, <1>3 DEF Save

\* A whole file that is asked for keeps what is on its way before it.
LEMMA OncePoll ==
  ASSUME TypeOK, KnownInv, OrderInv, Poll
  PROVE  KnownInv' /\ OrderInv'
<1> DEFINE new == [text |-> file, whole |-> writer = "asleep"]
<1>1. /\ lastNlines' = lastNlines /\ file' = file /\ writer' = writer
      /\ last_alarm' = last_alarm /\ answers' = Append(answers, new)
  BY DEF Poll, logVars
<1>2. answers \in Seq(Answer) /\ Len(answers) \in Nat /\ DOMAIN answers = 1 .. Len(answers)
  BY DEF TypeOK, Answer
<1>3. new.text = file /\ (new.whole <=> writer = "asleep")
  OBVIOUS
<1> HIDE DEF new
<1>4. \A k \in DOMAIN answers' : \/ k \in DOMAIN answers /\ answers'[k] = answers[k]
                                 \/ k = Len(answers) + 1 /\ answers'[k] = new
  BY <1>1, <1>2
<1>5. Known' \subseteq Known
  <2>1. ASSUME NEW line \in Line \cup {NoLine}, NEW k \in DOMAIN answers',
               answers'[k].whole, line \in Range(answers'[k].text)
        PROVE  line \in Known
    BY <1>3, <1>4, <2>1 DEF Known
  <2>2. QED BY <1>1, <2>1 DEF Known
<1>6. KnownInv'
  BY <1>1, <1>5 DEF KnownInv
<1>7. ASSUME NEW k \in DOMAIN answers', answers'[k].whole
      PROVE  /\ Keeps(last_alarm, answers'[k].text)
             /\ \A j \in DOMAIN answers' :
                  j < k /\ answers'[j].whole =>
                    \A line \in Range(answers'[j].text) : Keeps(line, answers'[k].text)
  <2>1. CASE k \in DOMAIN answers /\ answers'[k] = answers[k]
    <3>1. \A j \in DOMAIN answers' : j < k => j \in DOMAIN answers /\ answers'[j] = answers[j]
      BY <1>2, <1>4, <2>1
    <3>2. QED BY <1>7, <2>1, <3>1 DEF OrderInv
  <2>2. CASE k = Len(answers) + 1 /\ answers'[k] = new
    <3>1. writer = "asleep" /\ answers'[k].text = file
      BY <1>3, <1>7, <2>2
    <3>2. last_alarm \in Known
      BY DEF Known, TypeOK
    <3>3. ASSUME NEW j \in DOMAIN answers', j < k, answers'[j].whole,
                 NEW line \in Range(answers'[j].text)
          PROVE  line \in Known
      <4>1. j \in DOMAIN answers /\ answers'[j] = answers[j]
        BY <1>2, <1>4, <2>2, <3>3
      <4>2. line \in Line
        <5>1. answers[j].text \in Seq(Line)
          BY <4>1, Shapes
        <5>2. QED BY <4>1, <5>1, HeldLines
      <4>3. QED BY <3>3, <4>1, <4>2 DEF Known
    <3>4. QED BY <3>1, <3>2, <3>3 DEF KnownInv
  <2>3. QED BY <1>4, <2>1, <2>2
<1>8. QED BY <1>1, <1>6, <1>7 DEF OrderInv

\* What is left of the answers keeps its order.
LEMMA OnceLeft ==
  ASSUME TypeOK, KnownInv, OrderInv, NEW i \in DOMAIN answers,
         answers' = RemoveAt(answers, i), last_alarm' \in Known,
         lastNlines' = lastNlines, file' = file, writer' = writer,
         \A k \in DOMAIN answers' :
           answers'[k].whole => Keeps(last_alarm', answers'[k].text)
  PROVE  KnownInv' /\ OrderInv'
<1>1. \A k \in DOMAIN answers' :
        /\ k < i => k \in DOMAIN answers /\ answers'[k] = answers[k]
        /\ ~(k < i) => k + 1 \in DOMAIN answers /\ answers'[k] = answers[k + 1]
  BY AnswersLeft
<1>2. Known' \subseteq Known
  <2>1. ASSUME NEW line \in Line \cup {NoLine}, NEW k \in DOMAIN answers',
               answers'[k].whole, line \in Range(answers'[k].text)
        PROVE  line \in Known
    <3>1. PICK j \in DOMAIN answers : answers'[k] = answers[j]
      BY <1>1
    <3>2. QED BY <2>1, <3>1 DEF Known
  <2>2. QED BY <2>1 DEF Known
<1>3. KnownInv'
  BY <1>2 DEF KnownInv
<1>4. ASSUME NEW k \in DOMAIN answers', NEW j \in DOMAIN answers', j < k,
             answers'[k].whole, answers'[j].whole, NEW line \in Range(answers'[j].text)
      PROVE  Keeps(line, answers'[k].text)
  <2>1. \A m \in DOMAIN answers' : m \in Nat
    <3>1. answers' \in Seq(Answer)
      BY AnswerGone
    <3>2. QED BY <3>1
  <2>2. i \in Nat
    BY DEF TypeOK
  <2>3. PICK l \in DOMAIN answers, m \in DOMAIN answers :
          m < l /\ answers'[k] = answers[l] /\ answers'[j] = answers[m]
    <3>1. CASE k < i
      <4>1. j < i
        BY <1>4, <2>1, <2>2, <3>1
      <4>2. QED BY <1>1, <1>4, <3>1, <4>1
    <3>2. CASE ~(k < i)
      <4>1. k + 1 \in DOMAIN answers /\ answers'[k] = answers[k + 1]
        BY <1>1, <3>2
      <4>2. CASE j < i
        <5>1. j \in DOMAIN answers /\ answers'[j] = answers[j] /\ j < k + 1
          BY <1>1, <1>4, <2>1, <4>2
        <5>2. QED BY <4>1, <5>1
      <4>3. CASE ~(j < i)
        <5>1. j + 1 \in DOMAIN answers /\ answers'[j] = answers[j + 1] /\ j + 1 < k + 1
          BY <1>1, <1>4, <2>1, <4>3
        <5>2. QED BY <4>1, <5>1
      <4>4. QED BY <4>2, <4>3
    <3>3. QED BY <3>1, <3>2
  <2>4. QED BY <1>4, <2>3 DEF OrderInv
<1>5. QED BY <1>3, <1>4 DEF OrderInv

\* The oldest file asked for arrives whole: its new alarms are newer than all popped up.
LEMMA OnceArrive ==
  ASSUME TypeOK, TextInv, PopsInv, KnownInv, OrderInv,
         1 \in DOMAIN answers, Arrive(1), answers[1].whole
  PROVE  PopsInv' /\ KnownInv' /\ OrderInv'
<1> DEFINE text == answers[1].text
           new  == NewAlarms(text)
<1>1. text \in Seq(Line) /\ Sorted(text) /\ Keeps(last_alarm, text)
  BY Shapes DEF TextInv, GoodText, OrderInv
<1>2. /\ lastNlines' = lastNlines /\ file' = file /\ writer' = writer
      /\ answers' = RemoveAt(answers, 1)
  BY DEF Arrive, logVars
<1>3. \A j \in new : j \in DOMAIN text /\ last_alarm.no < text[j].no
  BY <1>1, NewIsNewer
<1>4. last_alarm' = last_alarm \/ \E m \in DOMAIN text : last_alarm' = text[m]
  BY ArriveIs
<1>5. last_alarm.no \in Nat /\ last_alarm'.no \in Nat
  BY <1>1, <1>4, Shapes, LineIs
<1>6. last_alarm.no <= last_alarm'.no
  <2>1. CASE new = {}
    BY <1>5, <2>1, ArriveIs
  <2>2. CASE new # {}
    <3>1. PICK m \in new : last_alarm' = text[m]
      BY <2>2, ArriveIs
    <3>2. last_alarm.no < text[m].no
      BY <1>3
    <3>3. QED BY <1>5, <3>1, <3>2
  <2>3. QED BY <2>1, <2>2
<1>7. \A j \in new : text[j].no <= last_alarm'.no
  <2>1. ASSUME NEW j \in new PROVE text[j].no <= last_alarm'.no
    <3>1. PICK m \in DOMAIN text : m \in new /\ last_alarm' = text[m] /\ \A l \in new : l <= m
      BY <2>1, ArriveIs
    <3>2. j \in DOMAIN text /\ j <= m /\ text[j] \in Line
      BY <1>1, <1>3, <3>1
    <3>3. CASE j = m
      BY <1>5, <3>1, <3>3
    <3>4. CASE j < m
      BY <1>1, <1>5, <3>1, <3>2, <3>4, LineIs DEF Sorted
    <3>5. QED BY <1>1, <3>2, <3>3, <3>4
  <2>2. QED BY <2>1
<1>8. ASSUME NEW no \in 1 .. MaxLines
      PROVE  popups'[no] <= 1 /\ (popups'[no] > 0 => no <= last_alarm'.no)
  <2>1. /\ popups[no] \in 0 .. 2 /\ popups'[no] \in 0 .. 2 /\ popups'[no] <= popups[no] + 1
        /\ popups'[no] # popups[no] => \E j \in new : text[j].no = no
    BY PopupsAre
  <2>2. popups[no] <= 1 /\ (popups[no] > 0 => no <= last_alarm.no)
    BY DEF PopsInv
  <2>3. CASE popups'[no] = popups[no]
    BY <1>5, <1>6, <2>2, <2>3
  <2>4. CASE popups'[no] # popups[no]
    <3>1. PICK j \in new : text[j].no = no
      BY <2>1, <2>4
    <3>2. last_alarm.no < no /\ no <= last_alarm'.no
      BY <1>3, <1>7, <3>1
    <3>3. ~(popups[no] > 0)
      BY <1>5, <2>2, <3>2
    <3>4. QED BY <2>1, <3>2, <3>3
  <2>5. QED BY <2>3, <2>4
<1>9. PopsInv'
  BY <1>8 DEF PopsInv
<1>10. \A m \in DOMAIN text : text[m] \in Line /\ text[m] \in Range(text)
  BY <1>1 DEF Range
<1>11. last_alarm' \in Known
  BY <1>4, <1>10 DEF Known, TypeOK
<1>12. ASSUME NEW k \in DOMAIN answers', answers'[k].whole
       PROVE  Keeps(last_alarm', answers'[k].text)
  <2>1. k \in Nat /\ ~(k < 1)
    <3>1. answers' \in Seq(Answer)
      BY <1>2, AnswerGone
    <3>2. k \in 1 .. Len(answers') /\ Len(answers') \in Nat
      BY <3>1
    <3>3. QED BY <3>2
  <2>2. k + 1 \in DOMAIN answers /\ answers'[k] = answers[k + 1] /\ 1 < k + 1
    BY <1>2, <2>1, AnswersLeft
  <2>3. \A line \in Range(text) : Keeps(line, answers'[k].text)
    BY <1>12, <2>2 DEF OrderInv
  <2>4. Keeps(last_alarm, answers'[k].text)
    BY <1>12, <2>2 DEF OrderInv
  <2>5. QED BY <1>4, <1>10, <2>3, <2>4
<1>13. KnownInv' /\ OrderInv'
  BY <1>2, <1>11, <1>12, OnceLeft
<1>14. QED BY <1>9, <1>13

OnceIInv == SkipInv /\ OnceInv

LEMMA OnceStart == Init => OnceIInv
<1> SUFFICES ASSUME Init PROVE OnceInv
  BY SkipStart DEF OnceIInv
<1>1. /\ lastNlines = <<>> /\ file = <<>> /\ answers = <<>> /\ last_alarm.no = 0
      /\ popups = [no \in 1 .. MaxLines |-> 0]
  BY DEF Init, NoLine
<1>2. PopsInv
  BY <1>1 DEF PopsInv
<1>3. KnownInv
  BY <1>1 DEF KnownInv, Keeps
<1>4. OrderInv
  BY <1>1 DEF OrderInv
<1>5. QED BY <1>2, <1>3, <1>4 DEF OnceInv

LEMMA OnceStep == OnceIInv /\ [Next]_vars => OnceIInv'
<1> SUFFICES ASSUME SkipInv, OnceInv, [Next]_vars, ~disturbed'
             PROVE  PopsInv' /\ KnownInv' /\ OrderInv'
  BY SkipStep DEF OnceIInv, OnceInv
<1> USE DEF SkipInv
<1>1. ASSUME ~disturbed PROVE PopsInv /\ KnownInv /\ OrderInv
  BY <1>1 DEF OnceInv
<1>2. ASSUME NEW alarm \in BOOLEAN, Push(alarm) PROVE PopsInv' /\ KnownInv' /\ OrderInv'
  <2>1. /\ popups' = popups /\ last_alarm' = last_alarm /\ answers' = answers
        /\ disturbed' = disturbed
    BY <1>2 DEF Push, pageVars
  <2>2. PopsInv /\ KnownInv /\ OrderInv
    BY <1>1, <2>1
  <2>3. QED BY <1>2, <2>1, <2>2, OncePush DEF PopsInv, OrderInv
<1>3. CASE Save
  <2>1. /\ popups' = popups /\ last_alarm' = last_alarm /\ answers' = answers
        /\ disturbed' = disturbed
    BY <1>3 DEF Save, SaveOpen, SaveLock, SaveLine, SaveClose, pageVars
  <2>2. PopsInv /\ KnownInv /\ OrderInv
    BY <1>1, <2>1
  <2>3. QED BY <1>3, <2>1, <2>2, OnceSave DEF PopsInv, OrderInv
<1>4. CASE Restart
  BY <1>4 DEF Restart
<1>5. CASE Poll
  <2>1. popups' = popups /\ last_alarm' = last_alarm /\ disturbed' = disturbed
    BY <1>5 DEF Poll
  <2>2. PopsInv /\ KnownInv /\ OrderInv
    BY <1>1, <2>1
  <2>3. QED BY <1>5, <2>1, <2>2, OncePoll DEF PopsInv
<1>6. ASSUME NEW i \in DOMAIN answers, Arrive(i) PROVE PopsInv' /\ KnownInv' /\ OrderInv'
  <2>1. disturbed' = (disturbed \/ i # 1 \/ ~answers[i].whole)
    BY <1>6, Zenon DEF Arrive
  <2>2. ~disturbed /\ i = 1 /\ answers[i].whole
    BY <2>1, Zenon
  <2>3. PopsInv /\ KnownInv /\ OrderInv
    BY <1>1, <2>2
  <2>4. QED BY <1>6, <2>2, <2>3, OnceArrive
<1>7. ASSUME NEW i \in DOMAIN answers, Fail(i) PROVE PopsInv' /\ KnownInv' /\ OrderInv'
  <2>1. /\ popups' = popups /\ last_alarm' = last_alarm /\ disturbed' = disturbed
        /\ lastNlines' = lastNlines /\ file' = file /\ writer' = writer
        /\ answers' = RemoveAt(answers, i)
    BY <1>7 DEF Fail, logVars
  <2>2. PopsInv /\ KnownInv /\ OrderInv
    BY <1>1, <2>1
  <2>3. last_alarm' \in Known
    BY <2>1 DEF Known, TypeOK
  <2>4. \A k \in DOMAIN answers' : \E j \in DOMAIN answers : answers'[k] = answers[j]
    BY <2>1, AnswersLeft
  <2>5. \A k \in DOMAIN answers' : answers'[k].whole => Keeps(last_alarm', answers'[k].text)
    BY <2>1, <2>2, <2>4 DEF OrderInv
  <2>6. KnownInv' /\ OrderInv'
    BY <2>1, <2>2, <2>3, <2>5, OnceLeft
  <2>7. QED BY <2>1, <2>2, <2>6 DEF PopsInv
<1>8. CASE UNCHANGED vars
  <2>1. /\ popups' = popups /\ last_alarm' = last_alarm /\ disturbed' = disturbed
        /\ lastNlines' = lastNlines /\ file' = file /\ writer' = writer /\ answers' = answers
    BY <1>8 DEF vars, logVars, pageVars
  <2>2. PopsInv /\ KnownInv /\ OrderInv
    BY <1>1, <2>1
  <2>3. Known' = Known
    BY <2>1 DEF Known
  <2>4. QED BY <2>1, <2>2, <2>3 DEF PopsInv, KnownInv, OrderInv
<1>9. QED BY <1>2, <1>3, <1>4, <1>5, <1>6, <1>7, <1>8 DEF Next, SaveFails, Deliver

\* As long as the page gets whole files in the order it asked for them, from a program
\* that is not restarted, an alarm pops up once, also when the last alarm seen has left
\* the file for newer lines and is looked for in vain (script.js:576-595).
THEOREM PopsUpOnce == Spec => []AlarmPopsUpOnce
<1>1. OnceIInv => AlarmPopsUpOnce
  BY DEF OnceIInv, OnceInv, PopsInv, AlarmPopsUpOnce
<1>2. QED BY OnceStart, OnceStep, <1>1, PTL DEF Spec

=============================================================================
