----------------------------- MODULE OverlayView -----------------------------
(***************************************************************************)
(* One cell of the web page (src/assets/resource/script.js:96-168,         *)
(* 219-392; src/resource/script.js is an older copy): twice a second it    *)
(* fetches the channel's overlay file, draws the boxes in it on a canvas   *)
(* over the picture and puts a border around the cell when they carry the  *)
(* alarm flag. The polls do not wait for each other, the file is served    *)
(* while OverlayFile's writer is at work, and the user may resize the page *)
(* or build its grid anew.                                                 *)
(*                                                                         *)
(* What the page remembers of a channel (channelState) outlives the grid,  *)
(* a canvas does not; answers to the polls of a canvas that was removed    *)
(* still change what is remembered.                                        *)
(***************************************************************************)
EXTENDS OverlayFile, Integers, Sequences, SequencesExt, FiniteSetsExt

CONSTANTS
  MaxPolls,     \* bound: polls on their way at a time
  MaxRebuilds   \* bound: how often the grid is built anew

ASSUME PageAssumption == MaxPolls \in Nat \ {0} /\ MaxRebuilds \in Nat

VARIABLES
  lastText,     \* channelState's lastText; NoLines for ''
  emptyCount,   \* channelState's emptyCount; 2 stands for every larger number
  cell,         \* what the current cell shows, and whether its canvas has its size
  polls,        \* the polls on their way: their answer, and whether the canvas that
                \* sent them is still on the page
  rebuilds      \* how often the grid was built anew

\* History variables: they steer no action.
VARIABLES
  crossed,      \* TRUE while lastText is of an answer the current canvas did not draw
  wasEmpty      \* whether the answer that arrived last was empty

page == <<lastText, emptyCount, cell>>
vars == <<fileVars, page, polls, rebuilds, crossed, wasEmpty>>

Cell == [drawn : Overlay, border : BOOLEAN, sized : BOOLEAN]

\* A canvas has the size 300 x 150 until its first tick.
NewCell == [drawn |-> NoLines, border |-> FALSE, sized |-> FALSE]

\* The server has not read the file yet.
Unserved == [alarm |-> FALSE, classes |-> {"unserved"}]

\* Mutant of RenderBox: the border is put on and never taken off.
RenderBoxAddsOnly(text) ==
  [drawn |-> text, border |-> cell.border \/ text.alarm, sized |-> cell.sized]

\* renderBox on the current canvas: its boxes are those of the text, and the border
\* goes on or off.
RenderBox(text) == [drawn |-> text, border |-> text.alarm, sized |-> cell.sized]

-----------------------------------------------------------------------------
(***************************************************************************)
(* The writer, the server and the user.                                    *)
(***************************************************************************)
Write == WriteFile /\ UNCHANGED <<page, polls, rebuilds, crossed, wasEmpty>>

\* The file is served as it is at that moment.
Serve(i) ==
  /\ polls[i].text = Unserved
  /\ polls' = [polls EXCEPT ![i].text = file]
  /\ UNCHANGED <<fileVars, page, rebuilds, crossed, wasEmpty>>

\* The window changes its size, or the cell is enlarged by a click.
Resize ==
  /\ cell.sized
  /\ cell' = [cell EXCEPT !.sized = FALSE]
  /\ UNCHANGED <<fileVars, lastText, emptyCount, polls, rebuilds, crossed, wasEmpty>>

\* updateGrid: a new cell; the timer of the old one ends with its next tick.
UpdateGrid ==
  /\ rebuilds < MaxRebuilds
  /\ rebuilds' = rebuilds + 1
  /\ cell' = NewCell
  /\ polls' = [i \in DOMAIN polls |-> [polls[i] EXCEPT !.here = FALSE]]
  /\ crossed' = FALSE
  /\ UNCHANGED <<fileVars, lastText, emptyCount, wasEmpty>>

-----------------------------------------------------------------------------
(***************************************************************************)
(* drawBBox.                                                               *)
(***************************************************************************)
\* The timer's tick: setting a canvas's size clears it, and what is remembered is
\* drawn again; then the file is asked for.
Tick ==
  /\ Len(polls) < MaxPolls
  /\ cell' = IF cell.sized THEN cell
             ELSE IF lastText # NoLines THEN [RenderBox(lastText) EXCEPT !.sized = TRUE]
             ELSE [drawn |-> NoLines, border |-> cell.border, sized |-> TRUE]
  /\ crossed' = (crossed /\ (cell.sized \/ lastText = NoLines))
  /\ polls' = Append(polls, [text |-> Unserved, here |-> TRUE])
  /\ UNCHANGED <<fileVars, lastText, emptyCount, rebuilds, wasEmpty>>

\* Poll i is answered, in whatever order.
Answered(i) == polls[i].text # Unserved /\ polls' = RemoveAt(polls, i)

\* Mutant of ArriveEmpty: the count grows without end.
ArriveEmptyCountsOn(i) ==
  /\ Answered(i) /\ polls[i].text = NoLines
  /\ emptyCount' = emptyCount + 1
  /\ UNCHANGED <<fileVars, lastText, cell, rebuilds, crossed, wasEmpty>>

\* Mutant of ArriveEmpty: what was remembered stays so.
ArriveEmptyKeepsText(i) ==
  /\ Answered(i) /\ polls[i].text = NoLines
  /\ emptyCount' = Min({emptyCount + 1, 2})
  /\ cell' = IF emptyCount' = 2 /\ polls[i].here THEN RenderBox(NoLines) ELSE cell
  /\ wasEmpty' = TRUE
  /\ UNCHANGED <<fileVars, lastText, rebuilds, crossed>>

\* Mutant of ArriveEmpty: the first empty answer already counts.
ArriveEmptyAtOnce(i) ==
  /\ Answered(i) /\ polls[i].text = NoLines
  /\ emptyCount' = 2
  /\ lastText' = NoLines
  /\ cell' = IF polls[i].here THEN RenderBox(NoLines) ELSE cell
  /\ crossed' = (~polls[i].here /\ (crossed \/ (cell # NewCell /\ lastText # NoLines)))
  /\ wasEmpty' = TRUE
  /\ UNCHANGED <<fileVars, rebuilds>>

\* An empty answer: only the second in a row clears the canvas and the border.
ArriveEmpty(i) ==
  /\ Answered(i) /\ polls[i].text = NoLines
  /\ emptyCount' = Min({emptyCount + 1, 2})
  /\ IF emptyCount' < 2 THEN UNCHANGED <<lastText, cell, crossed>>
     ELSE /\ lastText' = NoLines
          /\ cell' = IF polls[i].here THEN RenderBox(NoLines) ELSE cell
          /\ crossed' = (~polls[i].here /\ (crossed \/ (cell # NewCell /\ lastText # NoLines)))
  /\ wasEmpty' = TRUE
  /\ UNCHANGED <<fileVars, rebuilds>>

\* An answer with lines: drawn unless it is what was remembered already.
ArriveText(i) ==
  /\ Answered(i) /\ polls[i].text # NoLines
  /\ emptyCount' = 0
  /\ lastText' = polls[i].text
  /\ IF lastText' = lastText THEN UNCHANGED <<cell, crossed>>
     ELSE /\ cell' = IF polls[i].here THEN RenderBox(lastText') ELSE cell
          /\ crossed' = (~polls[i].here /\ (crossed \/ cell # NewCell))
  /\ wasEmpty' = FALSE
  /\ UNCHANGED <<fileVars, rebuilds>>

Arrive(i) == ArriveEmpty(i) \/ ArriveText(i)

\* No answer, or one that is not ok: nothing changes.
Lose(i) ==
  /\ polls' = RemoveAt(polls, i)
  /\ UNCHANGED <<fileVars, page, rebuilds, crossed, wasEmpty>>

-----------------------------------------------------------------------------
Init ==
  /\ FileInit
  /\ lastText = NoLines /\ emptyCount = 0 /\ cell = NewCell
  /\ polls = <<>> /\ rebuilds = 0
  /\ crossed = FALSE /\ wasEmpty = FALSE

Next ==
  \/ Write \/ Tick \/ Resize \/ UpdateGrid
  \/ \E i \in DOMAIN polls : Serve(i) \/ Arrive(i) \/ Lose(i)

Spec == Init /\ [][Next]_vars

\* The timer ticks, the server goes on answering, and not every answer is lost.
FairSpec ==
  /\ Spec
  /\ WF_vars(Tick)
  /\ SF_vars(\E i \in DOMAIN polls : Serve(i))
  /\ SF_vars(\E i \in DOMAIN polls : Arrive(i))

-----------------------------------------------------------------------------
(***************************************************************************)
(* Properties.                                                             *)
(***************************************************************************)
\* Every variable has its type.
TypeOK ==
  /\ file \in Overlay /\ open \in BOOLEAN
  /\ lastText \in Overlay /\ emptyCount \in 0 .. 2 /\ cell \in Cell
  /\ polls \in Seq([text : Overlay \cup {Unserved}, here : BOOLEAN])
  /\ Len(polls) <= MaxPolls /\ rebuilds \in 0 .. MaxRebuilds
  /\ crossed \in BOOLEAN /\ wasEmpty \in BOOLEAN

\* The canvas shows just what is remembered of its channel, whatever was resized, lost
\* or overtaken: the page may skip a text equal to lastText because it is on the canvas.
\* The exceptions are a new cell before its first tick, and an answer to a canvas that is
\* gone, which is remembered but not drawn (script.js:232-239, 272-283).
CanvasShowsLastText == cell # NewCell /\ ~crossed => cell.drawn = lastText

\* The border is around the cell just when boxes with the alarm flag are on its canvas,
\* with the same exception (script.js:156-167, 260-262).
BorderTellsBoxes == ~crossed => (cell.border <=> cell.drawn.alarm)

\* A poll that meets the file between its truncation and its first line does not
\* clear the canvas: boxes go away at once only when the answer before was empty as
\* well (script.js:250-270, main.cpp:432).
OneEmptyAnswerKeepsBoxes ==
  [][(\E i \in DOMAIN polls : Arrive(i)) /\ cell.drawn # NoLines /\ cell'.drawn = NoLines
       => wasEmpty]_vars

\* When the writer stops, at whatever line, the page ends up showing the boxes and the
\* alarm of the file as it was left, or none if it was left without; late answers
\* and lost ones do not matter (script.js:219-288).
OverlayReachesPage ==
  <>[][FALSE]_fileVars =>
    <>[](crossed \/ (cell.drawn = file /\ cell.border = file.alarm))

=============================================================================
