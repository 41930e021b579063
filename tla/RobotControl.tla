---------------------------- MODULE RobotControl ----------------------------
(***************************************************************************)
(* Muting the robots: a check box per cell on each operator's page         *)
(* (src/assets/resource/script.js:170-216, 293-392), the server that keeps *)
(* mute_robot_signals (src/src/server/server.cpp), and MqttManager, which  *)
(* drops the alarms of a muted camera (src/src/mqttManager/mqttManager.cpp).*)
(* Cell i of a page is channel i of the server.                            *)
(*                                                                         *)
(* HTTP and the broker are external: requests and answers overtake each    *)
(* other or get lost, and the connection to the broker comes and goes.     *)
(***************************************************************************)
EXTENDS Integers, FiniteSets, Sequences

CONSTANTS
  Page,           \* the browsers that show the page
  Cells,          \* number of cells of a page (4 x 4)
  MAX_CHANNEL_NUM,  \* length of mute_robot_signals (16)
  Camera,         \* the cameras, one publishing thread each
  StaffReporter,  \* the thread that publishes without a camera_id
  MaxActs,        \* bound: clicks and grids built again, of all pages
  MaxPublishes,   \* bound: calls of publish
  MaxRestarts     \* bound: restarts of the program

ASSUME SizeAssumption == Cells \in Nat \ {0} /\ MAX_CHANNEL_NUM \in Nat \ {0, 1}
ASSUME SenderAssumption == Camera \subseteq Nat /\ StaffReporter \notin Camera
ASSUME BoundAssumption == /\ MaxActs \in Nat /\ MaxPublishes \in Nat
                          /\ MaxRestarts \in Nat

VARIABLES
  mute,      \* mute_robot_signals
  box,       \* the check boxes of each page
  dot,       \* the status dots of each page
  posts,     \* POST requests on their way: [id, channel, muted]
  gets,      \* GET requests and their answers on their way to a page
  acts,      \* how many check boxes were clicked and grids built again
  link,      \* MqttManager::client_ and its connection
  sender,    \* where each publishing thread is in publish
  outcome,   \* how its last publish ended
  publishes, \* how many calls of publish have begun
  restarts   \* how often the program was started again

\* History variables: they steer no action.
VARIABLES
  synced,    \* the pages that show an answer since which nothing has changed
  saw        \* what was true at some time during the current publish

pageVars == <<box, dot, acts, synced>>
netVars  == <<posts, gets>>
mqttVars == <<link, sender, outcome, publishes, saw>>
vars == <<mute, pageVars, netVars, mqttVars, restarts>>

Cell     == 1 .. Cells
Index    == 0 .. MAX_CHANNEL_NUM - 1
Settable == Index \ {0}      \* the channels the server accepts
Sender   == Camera \cup {StaffReporter}

-----------------------------------------------------------------------------
(***************************************************************************)
(* The page.                                                               *)
(***************************************************************************)
AskStates(id, p) == [id |-> id, page |-> p, states |-> <<>>, clean |-> FALSE]

\* updateGrid builds fresh cells and asks the server for its states.
UpdateGrid(p) ==
  /\ acts < MaxActs
  /\ acts' = acts + 1
  /\ box' = [box EXCEPT ![p] = [c \in Cell |-> FALSE]]
  /\ dot' = [dot EXCEPT ![p] = [c \in Cell |-> FALSE]]
  /\ gets' = gets \cup {AskStates(acts', p)}
  /\ synced' = synced \ {p}
  /\ UNCHANGED <<mute, posts, mqttVars, restarts>>

\* A click: the dot follows at once, whatever becomes of the request.
Toggle(p, c) ==
  /\ acts < MaxActs
  /\ acts' = acts + 1
  /\ box' = [box EXCEPT ![p][c] = ~box[p][c]]
  /\ dot' = [dot EXCEPT ![p][c] = ~box[p][c]]
  /\ posts' = posts \cup {[id |-> acts, channel |-> c, muted |-> ~box[p][c]]}
  /\ gets' = {IF g.page = p THEN [g EXCEPT !.clean = FALSE] ELSE g : g \in gets}
  /\ synced' = synced \ {p}
  /\ UNCHANGED <<mute, mqttVars, restarts>>

\* A row of cells with the states that come for some of them.
Overlaid(row, states) ==
  [c \in Cell |-> IF c \in DOMAIN states THEN states[c] ELSE row[c]]

\* Mutant of ShowStates: the dots have the index of the check boxes.
ShowStatesShifted(p, states) ==
  /\ box' = [box EXCEPT ![p] = Overlaid(box[p], states)]
  /\ dot' = [dot EXCEPT ![p] = Overlaid(dot[p], Tail(states))]

\* fetchRobotSignalStates: check box and dot of every channel of the answer that
\* the grid has a cell for.
ShowStates(p, states) ==
  /\ box' = [box EXCEPT ![p] = Overlaid(box[p], states)]
  /\ dot' = [dot EXCEPT ![p] = Overlaid(dot[p], states)]

GetAnswered(g) ==
  /\ g.states # <<>>
  /\ ShowStates(g.page, g.states)
  /\ gets' = gets \ {g}
  /\ synced' = IF g.clean THEN synced \cup {g.page} ELSE synced \ {g.page}
  /\ UNCHANGED <<mute, posts, acts, mqttVars, restarts>>

(***************************************************************************)
(* The server.                                                             *)
(***************************************************************************)
\* What is true of a sender's camera and of the connection.
Truth(s, newMute, newLink) ==
  {IF s \in Camera \cap Index /\ newMute[s] THEN "muted" ELSE "open"}
    \cup (IF newLink = "up" THEN {} ELSE {"down"})

\* The publishes that run see it.
Watch(newMute, newLink) ==
  saw' = [s \in Sender |-> IF sender[s] = "idle" THEN saw[s]
                           ELSE saw[s] \cup Truth(s, newMute, newLink)]

\* Mutant of SetMute: no check of the range, a write beyond the array.
SetMuteUnchecked(ch, muted) ==
  mute' = [c \in Index \cup {ch} |-> IF c = ch THEN muted ELSE mute[c]]

\* A channel out of range is answered with 400, any other is set.
SetMute(ch, muted) ==
  mute' = IF ch \in Settable THEN [mute EXCEPT ![ch] = muted] ELSE mute

\* POST.
HandlePost(q) ==
  /\ posts' = posts \ {q}
  /\ SetMute(q.channel, q.muted)
  /\ gets' = {[g EXCEPT !.clean = FALSE] : g \in gets}
  /\ synced' = {}
  /\ Watch(mute', link)
  /\ UNCHANGED <<box, dot, acts, link, sender, outcome, publishes, restarts>>

\* GET: the states of channels 1 and up.
HandleGet(g) ==
  /\ g.states = <<>>
  /\ gets' = (gets \ {g}) \cup
               {[g EXCEPT !.states = [c \in Settable |-> mute[c]], !.clean = TRUE]}
  /\ UNCHANGED <<mute, posts, pageVars, mqttVars, restarts>>

\* Requests and answers get lost; the page notes it on the console only.
LosePost(q) ==
  /\ posts' = posts \ {q}
  /\ UNCHANGED <<mute, gets, pageVars, mqttVars, restarts>>

LoseGet(g) ==
  /\ gets' = gets \ {g}
  /\ UNCHANGED <<mute, posts, pageVars, mqttVars, restarts>>

\* The program ends, also of what payload.dump() throws on a text that is not UTF-8,
\* which publish does not catch, and starts again with all channels unmuted; a
\* request it has not handled is gone.
Restart ==
  /\ restarts < MaxRestarts
  /\ restarts' = restarts + 1
  /\ mute' = [c \in Index |-> FALSE]
  /\ posts' = {}
  /\ gets' = {[g EXCEPT !.clean = FALSE] : g \in {h \in gets : h.states # <<>>}}
  /\ synced' = {}
  /\ link' = "none"
  /\ sender' = [s \in Sender |-> "idle"]
  /\ outcome' = [s \in Sender |-> "none"]
  /\ UNCHANGED <<box, dot, acts, publishes, saw>>

-----------------------------------------------------------------------------
(***************************************************************************)
(* MqttManager.                                                            *)
(***************************************************************************)
\* connect, once, before the threads start.  If it fails the client stays, and
\* since the library reconnects by itself only after a first success, for good.
Connect ==
  /\ link = "none"
  /\ link' \in {"up", "never"}
  /\ UNCHANGED <<mute, pageVars, netVars, sender, outcome, publishes, saw,
                 restarts>>

\* The connection to the broker breaks, or is made again by the library.
LinkChanges ==
  /\ link \in {"up", "down"}
  /\ link' = IF link = "up" THEN "down" ELSE "up"
  /\ Watch(mute, link')
  /\ UNCHANGED <<mute, pageVars, netVars, sender, outcome, publishes, restarts>>

Publish(s) ==
  /\ publishes < MaxPublishes /\ link # "none" /\ sender[s] = "idle"
  /\ publishes' = publishes + 1
  /\ sender' = [sender EXCEPT ![s] = "connected?"]
  /\ outcome' = [outcome EXCEPT ![s] = "none"]
  /\ saw' = [saw EXCEPT ![s] = Truth(s, mute, link)]
  /\ UNCHANGED <<mute, pageVars, netVars, link, restarts>>

\* Publish returns with a result the caller never sees.
Return(s, how) ==
  /\ sender' = [sender EXCEPT ![s] = "idle"]
  /\ outcome' = [outcome EXCEPT ![s] = how]

GoOn(s, to) == sender' = [sender EXCEPT ![s] = to] /\ UNCHANGED outcome

TestConnected(s) ==
  /\ sender[s] = "connected?"
  /\ \/ link = "up" /\ GoOn(s, "muted?")
     \/ link # "up" /\ Return(s, "dropped")
  /\ UNCHANGED <<mute, pageVars, netVars, link, publishes, saw, restarts>>

\* Mutant of IsMuted: indexed from 0.
IsMutedShifted(s) == s \in Camera /\ s - 1 \in Index /\ mute[s - 1]

\* A payload without a camera_id, or with one out of range, is never muted.
IsMuted(s) == s \in Camera \cap Index /\ mute[s]

TestMuted(s) ==
  /\ sender[s] = "muted?"
  /\ \/ IsMuted(s) /\ Return(s, "suppressed")
     \/ ~IsMuted(s) /\ GoOn(s, "send")
  /\ UNCHANGED <<mute, pageVars, netVars, link, publishes, saw, restarts>>

\* client_->publish throws when the connection is gone by now.
Send(s) ==
  /\ sender[s] = "send"
  /\ \/ link = "up" /\ GoOn(s, "wait")
     \/ link # "up" /\ Return(s, "dropped")
  /\ UNCHANGED <<mute, pageVars, netVars, link, publishes, saw, restarts>>

\* wait_for: the broker confirms, or two seconds pass without an answer.
Wait(s) ==
  /\ sender[s] = "wait"
  /\ \/ link = "up" /\ Return(s, "sent")
     \/ Return(s, "unconfirmed")
  /\ UNCHANGED <<mute, pageVars, netVars, link, publishes, saw, restarts>>

-----------------------------------------------------------------------------
\* The pages have been loaded, and so their grids built, before.
Init ==
  /\ mute = [c \in Index |-> FALSE]
  /\ box = [p \in Page |-> [c \in Cell |-> FALSE]]
  /\ dot = [p \in Page |-> [c \in Cell |-> FALSE]]
  /\ posts = {} /\ gets = {AskStates(0, p) : p \in Page}
  /\ acts = 0
  /\ link = "none"
  /\ sender = [s \in Sender |-> "idle"]
  /\ outcome = [s \in Sender |-> "none"]
  /\ publishes = 0 /\ restarts = 0
  /\ synced = {}
  /\ saw = [s \in Sender |-> {}]

Next ==
  \/ \E p \in Page : UpdateGrid(p) \/ \E c \in Cell : Toggle(p, c)
  \/ \E q \in posts : HandlePost(q) \/ LosePost(q)
  \/ \E g \in gets : HandleGet(g) \/ GetAnswered(g) \/ LoseGet(g)
  \/ Restart \/ Connect \/ LinkChanges
  \/ \E s \in Sender : Publish(s) \/ TestConnected(s) \/ TestMuted(s) \/ Send(s) \/ Wait(s)

Spec == Init /\ [][Next]_vars

-----------------------------------------------------------------------------
(***************************************************************************)
(* Properties.                                                             *)
(***************************************************************************)
Post == [id : 0 .. MaxActs, channel : Cell, muted : BOOLEAN]
Get  == [id : 0 .. MaxActs, page : Page, clean : BOOLEAN,
         states : {<<>>} \cup [Settable -> BOOLEAN]]

\* Every variable has its type.
TypeOK ==
  /\ mute \in [Index -> BOOLEAN]
  /\ box \in [Page -> [Cell -> BOOLEAN]]
  /\ dot \in [Page -> [Cell -> BOOLEAN]]
  /\ posts \subseteq Post /\ gets \subseteq Get
  /\ acts \in 0 .. MaxActs
  /\ link \in {"none", "up", "down", "never"}
  /\ sender \in [Sender -> {"idle", "connected?", "muted?", "send", "wait"}]
  /\ outcome \in [Sender -> {"none", "dropped", "suppressed", "sent",
                         "unconfirmed"}]
  /\ publishes \in 0 .. MaxPublishes /\ restarts \in 0 .. MaxRestarts
  /\ synced \subseteq Page
  /\ saw \in [Sender -> SUBSET {"muted", "open", "down"}]

\* Mute takes effect in one instant of each publish: an alarm is held back only if
\* its own camera was muted at some time during the call, let through, with or
\* without the broker's answer, only if it was not muted at some time during it, and
\* dropped only if the broker was away at some time during it; the staff report is
\* never held back (mqttManager.cpp:86-116, server.cpp:24).
OutcomeHasReason ==
  \A s \in Sender :
    /\ outcome[s] = "suppressed" => "muted" \in saw[s]
    /\ outcome[s] \in {"sent", "unconfirmed"} => "open" \in saw[s]
    /\ outcome[s] = "dropped"    => "down" \in saw[s]

\* A page that shows an answer made after everything that happened agrees with the
\* server, cell by cell: cells, check boxes, dots and channels are numbered alike
\* (script.js:179-190, 313, 325, 337; server.cpp:24, 42-47).
AnswerShowsServer ==
  \A p \in synced : \A c \in Cell \cap Settable :
    box[p][c] = mute[c] /\ dot[p][c] = mute[c]

=============================================================================
