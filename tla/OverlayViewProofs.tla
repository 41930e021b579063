-------------------------- MODULE OverlayViewProofs --------------------------
(***************************************************************************)
(* Theorems about OverlayView, for any classes, any number of polls on     *)
(* their way and any number of new grids.                                  *)
(***************************************************************************)
EXTENDS OverlayView, SequenceTheorems, TLAPS

-----------------------------------------------------------------------------
(***************************************************************************)
(* The two invariants hold each other up: the border can be left alone     *)
(* where a tick clears the canvas because nothing was on it.               *)
(***************************************************************************)
CellIsRecord ==
  cell = [drawn |-> cell.drawn, border |-> cell.border, sized |-> cell.sized]

IInv == CellIsRecord /\ CanvasShowsLastText /\ BorderTellsBoxes

\* The page starts, and starts again, with a blank cell.
LEMMA BlankCell ==
  ASSUME cell = NewCell, ~crossed
  PROVE  IInv
BY DEF IInv, CellIsRecord, CanvasShowsLastText, BorderTellsBoxes, NewCell, NoLines

\* A tick draws what is remembered or finds nothing drawn.
LEMMA TickInv ==
  ASSUME IInv, Tick
  PROVE  IInv'
<1> USE DEF IInv
<1>1. CASE cell.sized
  <2>1. cell' = cell /\ (crossed' <=> crossed) /\ lastText' = lastText
    BY <1>1, Zenon DEF Tick
  <2>2. QED
    BY <2>1 DEF CellIsRecord, CanvasShowsLastText, BorderTellsBoxes
<1>2. CASE ~cell.sized /\ lastText = NoLines
  <2>1. cell' = [drawn |-> NoLines, border |-> cell.border, sized |-> TRUE]
    BY <1>2 DEF Tick
  <2>2. (crossed' <=> crossed) /\ lastText' = NoLines
    BY <1>2, Zenon DEF Tick
  <2>3. ~crossed => ~cell.border
    BY <1>2 DEF CanvasShowsLastText, BorderTellsBoxes, NewCell, NoLines
  <2>4. QED
    BY <2>1, <2>2, <2>3 DEF CellIsRecord, CanvasShowsLastText, BorderTellsBoxes, NoLines
<1>3. CASE ~cell.sized /\ lastText # NoLines
  <2>1. /\ cell' = [drawn |-> lastText, border |-> lastText.alarm, sized |-> TRUE]
        /\ lastText' = lastText
    BY <1>3 DEF Tick, RenderBox
  <2>2. QED
    BY <2>1 DEF CellIsRecord, CanvasShowsLastText, BorderTellsBoxes
<1>4. QED
  BY <1>1, <1>2, <1>3

\* An answer is drawn on the canvas that asked, or is crossed.
LEMMA ArriveInv ==
  ASSUME IInv, NEW i, Arrive(i)
  PROVE  IInv'
<1> USE DEF IInv
<1> DEFINE text == polls[i].text
<1>1. CASE UNCHANGED <<lastText, cell, crossed>>
  BY <1>1 DEF CellIsRecord, CanvasShowsLastText, BorderTellsBoxes
<1>2. CASE /\ lastText' = text
           /\ cell' = RenderBox(text)
  BY <1>2 DEF RenderBox, CellIsRecord, CanvasShowsLastText, BorderTellsBoxes
<1>3. CASE cell' = cell /\ crossed'
  BY <1>3 DEF CellIsRecord, CanvasShowsLastText, BorderTellsBoxes
<1>4. CASE /\ cell' = cell /\ (crossed' <=> crossed)
           /\ cell = NewCell \/ lastText' = lastText
  BY <1>4 DEF CellIsRecord, CanvasShowsLastText, BorderTellsBoxes
<1>5. ASSUME ArriveEmpty(i) PROVE IInv'
  <2>1. CASE emptyCount' < 2
    BY <1>1, <1>5, <2>1 DEF ArriveEmpty
  <2>2. CASE ~(emptyCount' < 2) /\ polls[i].here
    BY <1>2, <1>5, <2>2 DEF ArriveEmpty
  <2>3. CASE ~(emptyCount' < 2) /\ ~polls[i].here
    <3>1. /\ cell' = cell /\ lastText' = NoLines
          /\ crossed' <=> crossed \/ (cell # NewCell /\ lastText # NoLines)
      BY <1>5, <2>3, Zenon DEF ArriveEmpty
    <3>2. QED
      BY <1>3, <1>4, <3>1
  <2>4. QED
    BY <2>1, <2>2, <2>3
<1>6. ASSUME ArriveText(i) PROVE IInv'
  <2>1. CASE lastText' = lastText
    BY <1>1, <1>6, <2>1 DEF ArriveText
  <2>2. CASE lastText' # lastText /\ polls[i].here
    BY <1>2, <1>6, <2>2 DEF ArriveText
  <2>3. CASE lastText' # lastText /\ ~polls[i].here
    <3>1. cell' = cell /\ (crossed' <=> crossed \/ cell # NewCell)
      BY <1>6, <2>3, Zenon DEF ArriveText
    <3>2. QED
      BY <1>3, <1>4, <3>1
  <2>4. QED
    BY <2>1, <2>2, <2>3
<1>7. QED
  BY <1>5, <1>6 DEF Arrive

\* The invariant holds of every behaviour.
LEMMA Inductive == Spec => []IInv
<1>1. Init => IInv
  BY BlankCell DEF Init
<1>2. IInv /\ [Next]_vars => IInv'
  <2> SUFFICES ASSUME IInv, [Next]_vars PROVE IInv'
    OBVIOUS
  <2>1. CASE Resize
    <3>1. /\ cell' = [drawn |-> cell.drawn, border |-> cell.border, sized |-> FALSE]
          /\ lastText' = lastText /\ crossed' = crossed
      BY <2>1 DEF Resize, IInv, CellIsRecord
    <3>2. cell # NewCell
      BY <2>1 DEF Resize, NewCell
    <3>3. QED
      BY <3>1, <3>2 DEF IInv, CellIsRecord, CanvasShowsLastText, BorderTellsBoxes
  <2>2. CASE UpdateGrid
    BY <2>2 DEF UpdateGrid, NewCell, NoLines, IInv, CellIsRecord, CanvasShowsLastText,
                BorderTellsBoxes
  <2>3. CASE UNCHANGED <<lastText, cell, crossed>>
    BY <2>3 DEF IInv, CellIsRecord, CanvasShowsLastText, BorderTellsBoxes
  <2>4. ASSUME NEW i \in DOMAIN polls, Serve(i) \/ Lose(i) PROVE IInv'
    BY <2>3, <2>4 DEF Serve, Lose, page
  <2>5. CASE Write \/ UNCHANGED vars
    BY <2>3, <2>5 DEF Write, vars, page
  <2>6. QED
    BY <2>1, <2>2, <2>4, <2>5, TickInv, ArriveInv DEF Next
<1>3. QED
  BY <1>1, <1>2, PTL DEF Spec

\* The page skips a text only when that text is on the canvas, unless an answer to a
\* canvas that is gone came between.
THEOREM CanvasFollowsMemory == Spec => []CanvasShowsLastText
BY Inductive, PTL DEF IInv

\* The border is never on without boxes that have the flag, nor off with them.
THEOREM BorderFollowsBoxes == Spec => []BorderTellsBoxes
BY Inductive, PTL DEF IInv

-----------------------------------------------------------------------------
(***************************************************************************)
(* Types, and the empty answers: two in a row are counted, and the one     *)
(* before the second was empty.                                            *)
(***************************************************************************)
PollType == [text : Overlay \cup {Unserved}, here : BOOLEAN]

\* The empty answers counted are the last ones that arrived.
CountedWasEmpty == emptyCount > 0 => wasEmpty

CountInv == TypeOK /\ CountedWasEmpty

\* One more, and 2 for every larger number.
LEMMA MinIs ==
  ASSUME NEW n \in 0 .. 2
  PROVE  Min({n + 1, 2}) = IF n = 0 THEN 1 ELSE 2
<1> DEFINE m == IF n = 0 THEN 1 ELSE 2
<1>1. m \in {n + 1, 2} /\ \A y \in {n + 1, 2} : m =< y
  OBVIOUS
<1>2. \A x \in {n + 1, 2} : (\A y \in {n + 1, 2} : x =< y) => x = m
  OBVIOUS
<1>3. QED BY <1>1, <1>2 DEF Min

\* Taking a poll out leaves a shorter sequence of polls.
LEMMA PollGone ==
  ASSUME TypeOK, NEW i \in DOMAIN polls, polls' = RemoveAt(polls, i)
  PROVE  polls' \in Seq(PollType) /\ Len(polls') <= MaxPolls
<1> DEFINE front == SubSeq(polls, 1, i - 1)
           back  == SubSeq(polls, i + 1, Len(polls))
<1>1. polls \in Seq(PollType) /\ Len(polls) \in Nat /\ i \in 1 .. Len(polls) /\ Len(polls) <= MaxPolls
  BY DEF TypeOK, PollType
<1>2. front \in Seq(PollType) /\ Len(front) = i - 1
  BY <1>1
<1>3. back \in Seq(PollType) /\ Len(back) = Len(polls) - i
  BY <1>1
<1>4. polls' = front \o back
  BY DEF RemoveAt
<1> HIDE DEF front, back
<1>5. front \o back \in Seq(PollType) /\ Len(front \o back) = Len(polls) - 1
  BY <1>1, <1>2, <1>3, ConcatProperties
<1>6. QED BY <1>1, <1>4, <1>5, PageAssumption

\* What a text consists of.
LEMMA OverlayIs ==
  ASSUME NEW text \in Overlay
  PROVE  text.alarm \in BOOLEAN /\ text.classes \in SUBSET Class
<1>1. CASE text = NoLines
  BY <1>1 DEF NoLines
<1>2. CASE text \in [alarm : BOOLEAN, classes : (SUBSET Class) \ {{}}]
  BY <1>2
<1>3. QED BY <1>1, <1>2 DEF Overlay

\* What the page may draw.
LEMMA RenderType ==
  ASSUME TypeOK, NEW text \in Overlay
  PROVE  RenderBox(text) \in Cell
<1>1. cell.sized \in BOOLEAN
  BY DEF TypeOK, Cell
<1>2. text.alarm \in BOOLEAN
  BY OverlayIs
<1>3. QED BY <1>1, <1>2 DEF RenderBox, Cell

LEMMA ServedType ==
  ASSUME TypeOK, NEW i \in DOMAIN polls
  PROVE  /\ polls[i] \in PollType
         /\ polls[i].text \in Overlay \cup {Unserved} /\ polls[i].here \in BOOLEAN
<1>1. polls \in Seq(PollType)
  BY DEF TypeOK, PollType
<1>2. polls[i] \in PollType
  BY <1>1
<1>3. QED BY <1>2 DEF PollType

LEMMA WriteType ==
  ASSUME TypeOK, WriteFile
  PROVE  file' \in Overlay /\ open' \in BOOLEAN
<1>1. CASE Truncate
  BY <1>1 DEF Truncate, Overlay, NoLines
<1>2. ASSUME NEW alarm \in BOOLEAN, NEW class \in Class, AddLine(alarm, class)
      PROVE  file' \in Overlay /\ open' \in BOOLEAN
  <2>1. file.classes \in SUBSET Class
    BY DEF TypeOK, Overlay, NoLines
  <2>2. file.classes \cup {class} \in (SUBSET Class) \ {{}}
    BY <2>1
  <2>3. QED BY <1>2, <2>2 DEF AddLine, Overlay, TypeOK
<1>3. CASE Close
  BY <1>3 DEF Close, TypeOK
<1>4. QED BY <1>1, <1>2, <1>3 DEF WriteFile

LEMMA CountStart == Init => CountInv
<1> SUFFICES ASSUME Init PROVE CountInv
  OBVIOUS
<1>1. NoLines \in Overlay /\ cell \in Cell
  BY DEF Init, NewCell, Cell, Overlay
<1>2. polls \in Seq(PollType) /\ Len(polls) <= MaxPolls /\ rebuilds \in 0 .. MaxRebuilds
  BY PageAssumption DEF Init
<1>3. file \in Overlay /\ open = FALSE
  BY DEF Init, FileInit
<1>4. lastText = NoLines /\ emptyCount = 0 /\ crossed = FALSE /\ wasEmpty = FALSE
  BY DEF Init
<1>5. crossed \in BOOLEAN /\ wasEmpty \in BOOLEAN /\ open \in BOOLEAN
  BY <1>3, <1>4, Zenon
<1>6. emptyCount \in 0 .. 2 /\ ~(emptyCount > 0)
  BY <1>4
<1>7. lastText \in Overlay
  BY <1>1, <1>4
<1>8. QED BY <1>1, <1>2, <1>3, <1>5, <1>6, <1>7 DEF CountInv, TypeOK, CountedWasEmpty, PollType

\* The step of a timer or of the grid.
LEMMA CountTick ==
  ASSUME CountInv, Tick
  PROVE  CountInv'
<1> DEFINE new == [text |-> Unserved, here |-> TRUE]
<1>1. cell' \in Cell
  <2>1. CASE cell.sized
    BY <2>1 DEF Tick, CountInv, TypeOK
  <2>2. CASE ~cell.sized /\ lastText # NoLines
    <3>1. cell' = [drawn |-> lastText, border |-> lastText.alarm, sized |-> TRUE]
      BY <2>2 DEF Tick, RenderBox
    <3>2. lastText \in Overlay /\ lastText.alarm \in BOOLEAN
      BY OverlayIs DEF CountInv, TypeOK
    <3>3. QED BY <3>1, <3>2 DEF Cell
  <2>3. CASE ~cell.sized /\ lastText = NoLines
    <3>1. cell' = [drawn |-> NoLines, border |-> cell.border, sized |-> TRUE]
      BY <2>3 DEF Tick
    <3>2. NoLines \in Overlay /\ cell.border \in BOOLEAN
      BY DEF CountInv, TypeOK, Overlay, Cell
    <3>3. QED BY <3>1, <3>2 DEF Cell
  <2>4. QED BY <2>1, <2>2, <2>3
<1>2. polls' \in Seq(PollType) /\ Len(polls') <= MaxPolls
  <2>1. new \in PollType /\ polls \in Seq(PollType) /\ Len(polls) < MaxPolls
    BY DEF PollType, Tick, CountInv, TypeOK
  <2>2. polls' = Append(polls, new)
    BY DEF Tick
  <2> HIDE DEF new
  <2>3. QED BY <2>1, <2>2, PageAssumption
<1>3. crossed' \in BOOLEAN
  BY Zenon DEF Tick
<1>4. UNCHANGED <<fileVars, lastText, emptyCount, rebuilds, wasEmpty>>
  BY DEF Tick
<1>5. QED BY <1>1, <1>2, <1>3, <1>4 DEF CountInv, TypeOK, CountedWasEmpty, PollType, fileVars

LEMMA CountArrive ==
  ASSUME CountInv, NEW i \in DOMAIN polls, Arrive(i)
  PROVE  CountInv'
<1> DEFINE text == polls[i].text
<1>1. polls' = RemoveAt(polls, i) /\ text # Unserved /\ text \in Overlay
  BY ServedType DEF Arrive, ArriveEmpty, ArriveText, Answered, CountInv
<1>2. polls' \in Seq(PollType) /\ Len(polls') <= MaxPolls
  BY <1>1, PollGone DEF CountInv
<1>3. RenderBox(text) \in Cell /\ RenderBox(NoLines) \in Cell /\ NoLines \in Overlay
  BY <1>1, RenderType DEF CountInv, Overlay
<1>4. UNCHANGED <<fileVars, rebuilds>>
  BY DEF Arrive, ArriveEmpty, ArriveText
<1>5. lastText' \in Overlay /\ cell' \in Cell /\ crossed' \in BOOLEAN
  <2>1. CASE ArriveEmpty(i)
    <3>1. CASE emptyCount' < 2
      BY <2>1, <3>1 DEF ArriveEmpty, CountInv, TypeOK
    <3>2. CASE ~(emptyCount' < 2)
      <4>1. lastText' = NoLines /\ (cell' = RenderBox(NoLines) \/ cell' = cell)
        BY <2>1, <3>2 DEF ArriveEmpty
      <4>2. crossed' \in BOOLEAN
        BY <2>1, <3>2, Zenon DEF ArriveEmpty
      <4>3. QED BY <1>3, <4>1, <4>2 DEF CountInv, TypeOK
    <3>3. QED BY <3>1, <3>2
  <2>2. CASE ArriveText(i)
    <3>1. CASE lastText' = lastText
      BY <2>2, <3>1 DEF ArriveText, CountInv, TypeOK
    <3>2. CASE lastText' # lastText
      <4>1. lastText' = text /\ (cell' = RenderBox(text) \/ cell' = cell)
        BY <2>2, <3>2 DEF ArriveText
      <4>2. crossed' \in BOOLEAN
        BY <2>2, <3>2, Zenon DEF ArriveText
      <4>3. QED BY <1>1, <1>3, <4>1, <4>2 DEF CountInv, TypeOK
    <3>3. QED BY <3>1, <3>2
  <2>3. QED BY <2>1, <2>2 DEF Arrive
<1>6. /\ emptyCount' \in 0 .. 2 /\ wasEmpty' \in BOOLEAN
      /\ emptyCount' > 0 => wasEmpty'
  <2>1. CASE ArriveEmpty(i)
    <3>1. emptyCount \in 0 .. 2 /\ emptyCount' = Min({emptyCount + 1, 2}) /\ wasEmpty' = TRUE
      BY <2>1 DEF ArriveEmpty, CountInv, TypeOK
    <3>2. emptyCount' \in {1, 2}
      BY <3>1, MinIs
    <3>3. QED BY <3>1, <3>2
  <2>2. CASE ArriveText(i)
    <3>1. emptyCount' = 0 /\ wasEmpty' = FALSE
      BY <2>2 DEF ArriveText
    <3>2. wasEmpty' \in BOOLEAN
      BY <3>1, Zenon
    <3>3. emptyCount' \in 0 .. 2 /\ ~(emptyCount' > 0)
      BY <3>1
    <3>4. QED BY <3>2, <3>3
  <2>3. QED BY <2>1, <2>2 DEF Arrive
<1>7. QED BY <1>2, <1>4, <1>5, <1>6 DEF CountInv, TypeOK, CountedWasEmpty, PollType, fileVars

LEMMA CountStep == CountInv /\ [Next]_vars => CountInv'
<1> SUFFICES ASSUME CountInv, [Next]_vars PROVE CountInv'
  OBVIOUS
<1> USE DEF CountInv
<1>1. CASE Write
  <2>1. file' \in Overlay /\ open' \in BOOLEAN
    BY <1>1, WriteType DEF Write
  <2>2. QED BY <1>1, <2>1 DEF Write, TypeOK, CountedWasEmpty, page
<1>2. CASE Tick
  BY <1>2, CountTick
<1>3. CASE Resize
  <2>1. cell' \in Cell
    BY <1>3 DEF Resize, TypeOK, Cell
  <2>2. QED BY <1>3, <2>1 DEF Resize, TypeOK, CountedWasEmpty, fileVars
<1>4. CASE UpdateGrid
  <2>1. cell' \in Cell /\ rebuilds' \in 0 .. MaxRebuilds /\ crossed' = FALSE
    BY <1>4, PageAssumption DEF UpdateGrid, NewCell, Cell, Overlay, TypeOK
  <2>2. polls \in Seq(PollType)
    BY DEF TypeOK, PollType
  <2>3. polls' = [i \in DOMAIN polls |-> [polls[i] EXCEPT !.here = FALSE]]
    BY <1>4 DEF UpdateGrid
  <2>4. \A i \in DOMAIN polls : [polls[i] EXCEPT !.here = FALSE] \in PollType
    <3>1. \A i \in DOMAIN polls : polls[i] \in PollType
      BY <2>2
    <3>2. QED BY <3>1 DEF PollType
  <2>5. polls' \in Seq(PollType) /\ Len(polls') = Len(polls)
    BY <2>2, <2>3, <2>4
  <2>6. QED BY <1>4, <2>1, <2>5 DEF UpdateGrid, TypeOK, CountedWasEmpty, PollType, fileVars
<1>5. ASSUME NEW i \in DOMAIN polls, Serve(i) PROVE CountInv'
  <2>1. polls \in Seq(PollType) /\ file \in Overlay
    BY DEF TypeOK, PollType
  <2>2. polls' = [polls EXCEPT ![i].text = file]
    BY <1>5 DEF Serve
  <2>3. [polls[i] EXCEPT !.text = file] \in PollType
    <3>1. polls[i] \in PollType
      BY <2>1
    <3>2. QED BY <2>1, <3>1 DEF PollType
  <2>4. polls' \in Seq(PollType) /\ Len(polls') = Len(polls)
    BY <2>1, <2>2, <2>3
  <2>5. QED BY <1>5, <2>4 DEF Serve, TypeOK, CountedWasEmpty, PollType, page, fileVars
<1>6. ASSUME NEW i \in DOMAIN polls, Arrive(i) PROVE CountInv'
  BY <1>6, CountArrive
<1>7. ASSUME NEW i \in DOMAIN polls, Lose(i) PROVE CountInv'
  <2>1. polls' \in Seq(PollType) /\ Len(polls') <= MaxPolls
    BY <1>7, PollGone DEF Lose
  <2>2. QED BY <1>7, <2>1 DEF Lose, TypeOK, CountedWasEmpty, PollType, page, fileVars
<1>8. CASE UNCHANGED vars
  BY <1>8 DEF vars, page, fileVars, TypeOK, CountedWasEmpty
<1>9. QED BY <1>1, <1>2, <1>3, <1>4, <1>5, <1>6, <1>7, <1>8 DEF Next

LEMMA Counted == Spec => []CountInv
BY CountStart, CountStep, PTL DEF Spec

\* Every variable of the file, the server and the page keeps its type, and no more polls
\* are on their way than there may be (script.js:219-288, main.cpp:430-471).
THEOREM TypeCorrect == Spec => []TypeOK
BY Counted, PTL DEF CountInv

\* Boxes go away at once only when the answer before was empty as well: a poll that
\* meets the file between its truncation and its first line does not clear the canvas
\* (script.js:250-270, main.cpp:432).
THEOREM OneEmptyKeeps == Spec => OneEmptyAnswerKeepsBoxes
<1>1. ASSUME CountInv, NEW i \in DOMAIN polls, Arrive(i),
             cell.drawn # NoLines, cell'.drawn = NoLines
      PROVE  wasEmpty
  <2>1. CASE ArriveText(i)
    <3>1. cell' = cell \/ cell' = RenderBox(polls[i].text)
      BY <2>1 DEF ArriveText
    <3>2. polls[i].text # NoLines
      BY <2>1 DEF ArriveText
    <3>3. QED BY <1>1, <3>1, <3>2 DEF RenderBox
  <2>2. CASE ArriveEmpty(i)
    <3>1. ~(emptyCount' < 2)
      BY <1>1, <2>2 DEF ArriveEmpty
    <3>2. emptyCount \in 0 .. 2 /\ emptyCount' = Min({emptyCount + 1, 2})
      BY <1>1, <2>2 DEF ArriveEmpty, CountInv, TypeOK
    <3>3. emptyCount > 0
      BY <3>1, <3>2, MinIs
    <3>4. QED BY <1>1, <3>3 DEF CountInv, CountedWasEmpty
  <2>3. QED BY <1>1, <2>1, <2>2 DEF Arrive
<1>2. CountInv /\ [Next]_vars
        => [(\E i \in DOMAIN polls : Arrive(i)) /\ cell.drawn # NoLines /\ cell'.drawn = NoLines
              => wasEmpty]_vars
  BY <1>1
<1>3. QED BY <1>2, Counted, PTL DEF Spec, OneEmptyAnswerKeepsBoxes

=============================================================================
