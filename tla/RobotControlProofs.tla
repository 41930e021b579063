------------------------- MODULE RobotControlProofs -------------------------
(***************************************************************************)
(* Theorems about RobotControl, for any number of pages, cells, channels   *)
(* and cameras, those beyond the array of mutes included; and about        *)
(* ModbusHandler, in the last section, for any number of inits and starts. *)
(***************************************************************************)
EXTENDS RobotControl, ModbusHandler, TLAPS

-----------------------------------------------------------------------------
(***************************************************************************)
(* Lemmas about the helpers.                                               *)
(***************************************************************************)

\* There is a channel the server accepts, so the states of all of them are never
\* mistaken for an answer that has not been made.
LEMMA StatesNotEmpty == \A states \in [Settable -> BOOLEAN] : states # << >>
<1>1. 1 \in Settable
  BY SizeAssumption DEF Settable, Index
<1>2. QED
  BY <1>1

\* A row stays a row when states are laid over it, and shows them.
LEMMA OverlaidRow ==
  ASSUME NEW row \in [Cell -> BOOLEAN], NEW states \in [Settable -> BOOLEAN]
  PROVE  /\ Overlaid(row, states) \in [Cell -> BOOLEAN]
         /\ \A c \in Cell \cap Settable : Overlaid(row, states)[c] = states[c]
BY DEF Overlaid

\* What is true of a publish is one or two of three things.
LEMMA TruthType ==
  \A s, newMute, newLink : Truth(s, newMute, newLink) \subseteq {"muted", "open", "down"}
BY DEF Truth

\* What the publishes have seen stays of its type, and grows.
LEMMA WatchGrows ==
  ASSUME saw \in [Sender -> SUBSET {"muted", "open", "down"}],
         NEW newMute, NEW newLink, Watch(newMute, newLink)
  PROVE  /\ saw' \in [Sender -> SUBSET {"muted", "open", "down"}]
         /\ \A s \in Sender : /\ saw[s] \subseteq saw'[s]
                              /\ sender[s] # "idle" =>
                                   Truth(s, newMute, newLink) \subseteq saw'[s]
BY TruthType DEF Watch

\* Marking a request as overtaken, or as answered, leaves it one.
LEMMA GetChanged ==
  ASSUME NEW g \in Get
  PROVE  /\ [g EXCEPT !.clean = FALSE] \in Get
         /\ \A states \in [Settable -> BOOLEAN] :
              [g EXCEPT !.states = states, !.clean = TRUE] \in Get
BY DEF Get

LEMMA AskType == \A n \in 0 .. MaxActs, p \in Page : AskStates(n, p) \in Get
BY DEF AskStates, Get

-----------------------------------------------------------------------------
(***************************************************************************)
(* Type correctness.                                                       *)
(***************************************************************************)
LEMMA TypeInit == Init => TypeOK
<1> SUFFICES ASSUME Init PROVE TypeOK
  OBVIOUS
<1>1. gets \subseteq Get
  <2>1. gets = {AskStates(0, p) : p \in Page}
    BY DEF Init
  <2>2. 0 \in 0 .. MaxActs
    BY BoundAssumption
  <2>3. QED
    BY <2>1, <2>2, AskType
<1>2. QED
  BY <1>1, BoundAssumption DEF Init, TypeOK

LEMMA PageType ==
  ASSUME TypeOK, NEW p \in Page,
         UpdateGrid(p) \/ \E c \in Cell : Toggle(p, c)
  PROVE  TypeOK'
<1>1. CASE UpdateGrid(p)
  <2>1. acts' \in 0 .. MaxActs
    BY <1>1, BoundAssumption DEF UpdateGrid, TypeOK
  <2>2. AskStates(acts', p) \in Get
    BY <2>1, AskType
  <2>3. QED
    BY <1>1, <2>1, <2>2 DEF UpdateGrid, TypeOK, mqttVars
<1>2. ASSUME NEW c \in Cell, Toggle(p, c) PROVE TypeOK'
  <2>1. acts' \in 0 .. MaxActs
    BY <1>2, BoundAssumption DEF Toggle, TypeOK
  <2>2. [id |-> acts, channel |-> c, muted |-> ~box[p][c]] \in Post
    BY DEF Post, TypeOK
  <2>3. gets' \subseteq Get
    <3>1. \A g \in gets : g \in Get /\ [g EXCEPT !.clean = FALSE] \in Get
      BY GetChanged DEF TypeOK
    <3>2. gets' = {IF g.page = p THEN [g EXCEPT !.clean = FALSE] ELSE g : g \in gets}
      BY <1>2 DEF Toggle
    <3>3. \A g \in gets : (IF g.page = p THEN [g EXCEPT !.clean = FALSE] ELSE g) \in Get
      BY <3>1, Zenon
    <3>4. QED
      BY <3>2, <3>3, Zenon
  <2>4. box' \in [Page -> [Cell -> BOOLEAN]] /\ dot' \in [Page -> [Cell -> BOOLEAN]]
    BY <1>2 DEF Toggle, TypeOK
  <2>5. QED
    BY <1>2, <2>1, <2>2, <2>3, <2>4 DEF Toggle, TypeOK, mqttVars
<1>3. QED
  BY <1>1, <1>2

LEMMA RequestType ==
  ASSUME TypeOK,
         \/ \E q \in posts : HandlePost(q) \/ LosePost(q)
         \/ \E g \in gets : HandleGet(g) \/ GetAnswered(g) \/ LoseGet(g)
  PROVE  TypeOK'
<1>1. ASSUME NEW q \in posts, HandlePost(q) PROVE TypeOK'
  <2>1. mute' \in [Index -> BOOLEAN]
    BY <1>1 DEF HandlePost, SetMute, TypeOK, Post, Settable
  <2>2. gets' \subseteq Get
    BY <1>1, GetChanged DEF HandlePost, TypeOK
  <2>3. saw' \in [Sender -> SUBSET {"muted", "open", "down"}]
    BY <1>1, WatchGrows DEF HandlePost, TypeOK
  <2>4. QED
    BY <1>1, <2>1, <2>2, <2>3 DEF HandlePost, TypeOK
<1>2. ASSUME NEW q \in posts, LosePost(q) PROVE TypeOK'
  BY <1>2 DEF LosePost, TypeOK, pageVars, mqttVars
<1>3. ASSUME NEW g \in gets, HandleGet(g) PROVE TypeOK'
  <2> DEFINE states == [c \in Settable |-> mute[c]]
  <2>1. states \in [Settable -> BOOLEAN]
    BY DEF TypeOK, Settable
  <2>2. gets' \subseteq Get
    <3>1. gets' = (gets \ {g}) \cup {[g EXCEPT !.states = states, !.clean = TRUE]}
      BY <1>3 DEF HandleGet
    <3> HIDE DEF states
    <3>2. g \in Get /\ gets \subseteq Get
      BY DEF TypeOK
    <3>3. [g EXCEPT !.states = states, !.clean = TRUE] \in Get
      BY <2>1, <3>2, GetChanged
    <3>4. QED
      BY <3>1, <3>2, <3>3, Zenon
  <2>3. QED
    BY <1>3, <2>2 DEF HandleGet, TypeOK, pageVars, mqttVars
<1>4. ASSUME NEW g \in gets, GetAnswered(g) PROVE TypeOK'
  <2>1. g.page \in Page /\ g.states \in [Settable -> BOOLEAN]
    BY <1>4 DEF GetAnswered, TypeOK, Get
  <2>2. box' \in [Page -> [Cell -> BOOLEAN]] /\ dot' \in [Page -> [Cell -> BOOLEAN]]
    BY <1>4, <2>1, OverlaidRow DEF GetAnswered, ShowStates, TypeOK
  <2>3. QED
    BY <1>4, <2>1, <2>2 DEF GetAnswered, TypeOK, mqttVars
<1>5. ASSUME NEW g \in gets, LoseGet(g) PROVE TypeOK'
  BY <1>5 DEF LoseGet, TypeOK, pageVars, mqttVars
<1>6. QED
  BY <1>1, <1>2, <1>3, <1>4, <1>5

LEMMA ProgramType ==
  ASSUME TypeOK,
         \/ Restart \/ Connect \/ LinkChanges
         \/ \E s \in Sender : Publish(s) \/ TestConnected(s) \/ TestMuted(s) \/ Send(s) \/ Wait(s)
  PROVE  TypeOK'
<1>1. CASE Restart
  <2>1. gets' \subseteq Get
    BY <1>1, GetChanged DEF Restart, TypeOK
  <2>2. QED
    BY <1>1, <2>1, BoundAssumption DEF Restart, TypeOK
<1>2. CASE Connect
  BY <1>2 DEF Connect, TypeOK, pageVars, netVars
<1>3. CASE LinkChanges
  BY <1>3, WatchGrows DEF LinkChanges, TypeOK, pageVars, netVars
<1>4. ASSUME NEW s \in Sender, Publish(s) PROVE TypeOK'
  BY <1>4, TruthType, BoundAssumption DEF Publish, TypeOK, pageVars, netVars
<1>5. ASSUME NEW s \in Sender, TestConnected(s) \/ TestMuted(s) \/ Send(s) \/ Wait(s)
      PROVE  TypeOK'
  BY <1>5 DEF TestConnected, TestMuted, Send, Wait, Return, GoOn, TypeOK, pageVars, netVars
<1>6. QED
  BY <1>1, <1>2, <1>3, <1>4, <1>5

\* Every variable keeps its type, a request for a channel out of range included.
THEOREM TypeCorrect == Spec => []TypeOK
<1>1. TypeOK /\ [Next]_vars => TypeOK'
  <2> SUFFICES ASSUME TypeOK, [Next]_vars PROVE TypeOK'
    OBVIOUS
  <2>1. CASE UNCHANGED vars
    BY <2>1 DEF vars, pageVars, netVars, mqttVars, TypeOK
  <2>2. QED
    BY <2>1, PageType, RequestType, ProgramType DEF Next
<1>2. QED
  BY <1>1, TypeInit, PTL DEF Spec

-----------------------------------------------------------------------------
(***************************************************************************)
(* The page shows what the server has.                                     *)
(***************************************************************************)
\* AnswerShowsServer is not inductive: what a page will show is on its way to it.
\* An answer that nothing has overtaken carries the mutes as they are now.
AnswerInv ==
  \A g \in gets :
    g.clean => g.states # << >> /\ \A c \in Settable : g.states[c] = mute[c]

\* Whoever changes a mute, or a page, makes the answers on their way stale.
LEMMA AnswerStep == TypeOK /\ AnswerInv /\ [Next]_vars => AnswerInv'
<1> SUFFICES ASSUME TypeOK, AnswerInv, [Next]_vars, NEW g \in gets', g.clean
             PROVE  g.states # << >> /\ \A c \in Settable : g.states[c] = mute'[c]
  BY DEF AnswerInv
<1> DEFINE Goal == g.states # << >> /\ \A c \in Settable : g.states[c] = mute'[c]
<1>0. \A h \in gets : h \in Get /\ [h EXCEPT !.clean = FALSE].clean = FALSE
  BY DEF TypeOK, Get
<1>1. CASE g \in gets /\ mute' = mute
  BY <1>1 DEF AnswerInv
<1>2. ASSUME NEW p \in Page, UpdateGrid(p) PROVE Goal
  <2>1. AskStates(acts', p).clean = FALSE
    BY DEF AskStates
  <2>2. g \in gets /\ mute' = mute
    BY <1>2, <2>1 DEF UpdateGrid
  <2>3. QED
    BY <1>1, <2>2
<1>3. ASSUME NEW p \in Page, NEW c \in Cell, Toggle(p, c) PROVE Goal
  <2>1. PICK h \in gets : g = IF h.page = p THEN [h EXCEPT !.clean = FALSE] ELSE h
    BY <1>3 DEF Toggle
  <2>2. g = h /\ mute' = mute
    BY <1>0, <1>3, <2>1 DEF Toggle
  <2>3. QED
    BY <1>1, <2>2
<1>4. ASSUME NEW q \in posts, HandlePost(q) PROVE Goal
  <2>1. PICK h \in gets : g = [h EXCEPT !.clean = FALSE]
    BY <1>4 DEF HandlePost
  <2>2. QED
    BY <1>0, <2>1
<1>5. ASSUME NEW h \in gets, HandleGet(h) PROVE Goal
  <2> DEFINE states == [c \in Settable |-> mute[c]]
             answer == [h EXCEPT !.states = states, !.clean = TRUE]
  <2>1. g \in gets \/ g = answer
    BY <1>5 DEF HandleGet
  <2>2. mute' = mute
    BY <1>5 DEF HandleGet
  <2>3. answer.states = states
    <3> HIDE DEF states
    <3>1. QED
      BY <1>0 DEF Get
  <2>4. states # << >> /\ \A c \in Settable : states[c] = mute[c]
    <3>1. states \in [Settable -> BOOLEAN]
      BY DEF TypeOK, Settable
    <3>2. QED
      BY <3>1, StatesNotEmpty
  <2>5. CASE g = answer
    <3> HIDE DEF states, answer
    <3>1. QED
      BY <2>2, <2>3, <2>4, <2>5
  <2>6. QED
    BY <1>1, <2>1, <2>2, <2>5
<1>6. CASE Restart
  <2>1. PICK h \in gets : g = [h EXCEPT !.clean = FALSE]
    BY <1>6 DEF Restart
  <2>2. QED
    BY <1>0, <2>1
<1>7. ASSUME NEW q \in posts, LosePost(q) PROVE Goal
  BY <1>1, <1>7 DEF LosePost
<1>8. ASSUME NEW h \in gets, GetAnswered(h) \/ LoseGet(h) PROVE Goal
  BY <1>1, <1>8 DEF GetAnswered, LoseGet
<1>9. CASE Connect \/ LinkChanges \/ UNCHANGED vars
  BY <1>1, <1>9 DEF Connect, LinkChanges, vars, netVars
<1>10. ASSUME NEW s \in Sender,
              Publish(s) \/ TestConnected(s) \/ TestMuted(s) \/ Send(s) \/ Wait(s)
       PROVE  Goal
  BY <1>1, <1>10 DEF Publish, TestConnected, TestMuted, Send, Wait, netVars
<1>11. QED
  BY <1>2, <1>3, <1>4, <1>5, <1>6, <1>7, <1>8, <1>9, <1>10 DEF Next

\* A page that shows such an answer agrees with the server until something happens.
LEMMA ShownStep ==
  TypeOK /\ AnswerInv /\ AnswerShowsServer /\ [Next]_vars => AnswerShowsServer'
<1> SUFFICES ASSUME TypeOK, AnswerInv, AnswerShowsServer, [Next]_vars,
                    NEW p \in synced', NEW c \in Cell \cap Settable
             PROVE  box'[p][c] = mute'[c] /\ dot'[p][c] = mute'[c]
  BY DEF AnswerShowsServer
<1> DEFINE Goal == box'[p][c] = mute'[c] /\ dot'[p][c] = mute'[c]
<1>1. CASE p \in synced /\ box'[p] = box[p] /\ dot'[p] = dot[p] /\ mute' = mute
  BY <1>1 DEF AnswerShowsServer
<1>2. ASSUME NEW other \in Page, UpdateGrid(other) \/ \E d \in Cell : Toggle(other, d)
      PROVE  Goal
  <2>1. p \in synced /\ p # other /\ mute' = mute
    BY <1>2 DEF UpdateGrid, Toggle
  <2>2. p \in Page
    BY <2>1 DEF TypeOK
  <2>3. box'[p] = box[p] /\ dot'[p] = dot[p]
    BY <1>2, <2>1, <2>2 DEF UpdateGrid, Toggle, TypeOK
  <2>4. QED
    BY <1>1, <2>1, <2>3
<1>3. ASSUME NEW g \in gets, GetAnswered(g) PROVE Goal
  <2>1. /\ g.page \in Page /\ g.states \in [Settable -> BOOLEAN] /\ p \in Page
        /\ mute' = mute
    BY <1>3 DEF GetAnswered, TypeOK, Get
  <2>2. CASE p # g.page
    BY <1>1, <1>3, <2>1, <2>2 DEF GetAnswered, ShowStates, TypeOK
  <2>3. CASE p = g.page
    <3>1. g.clean /\ g.states[c] = mute[c]
      BY <1>3, <2>3 DEF GetAnswered, AnswerInv
    <3>2. box'[p] = Overlaid(box[p], g.states) /\ dot'[p] = Overlaid(dot[p], g.states)
      BY <1>3, <2>1, <2>3 DEF GetAnswered, ShowStates, TypeOK
    <3>3. box[p] \in [Cell -> BOOLEAN] /\ dot[p] \in [Cell -> BOOLEAN]
      BY <2>1 DEF TypeOK
    <3>4. QED
      BY <2>1, <3>1, <3>2, <3>3, OverlaidRow
  <2>4. QED
    BY <2>2, <2>3
<1>4. CASE (\E q \in posts : HandlePost(q)) \/ Restart
  BY <1>4 DEF HandlePost, Restart
<1>5. CASE \/ \E q \in posts : LosePost(q)
           \/ \E g \in gets : HandleGet(g) \/ LoseGet(g)
           \/ Connect \/ LinkChanges \/ UNCHANGED vars
           \/ \E s \in Sender : \/ Publish(s) \/ TestConnected(s)
                                \/ TestMuted(s) \/ Send(s) \/ Wait(s)
  BY <1>1, <1>5 DEF LosePost, HandleGet, LoseGet, Connect, LinkChanges, vars,
                    Publish, TestConnected, TestMuted, Send, Wait, pageVars
<1>6. QED
  BY <1>2, <1>3, <1>4, <1>5 DEF Next

\* Whatever requests and answers overtake each other or get lost, a page that shows
\* an answer newer than every change shows the server's mutes.
THEOREM PageShowsServer == Spec => []AnswerShowsServer
<1>1. Init => AnswerInv /\ AnswerShowsServer
  <2>1. \A p \in Page : AskStates(0, p).clean = FALSE
    BY DEF AskStates
  <2>2. ASSUME Init, NEW g \in gets PROVE g.clean = FALSE
    <3>1. g \in {AskStates(0, p) : p \in Page}
      BY <2>2 DEF Init
    <3>2. PICK p \in Page : g = AskStates(0, p)
      BY <3>1
    <3>3. QED
      BY <2>1, <3>2
  <2>3. Init => AnswerInv
    BY <2>2 DEF AnswerInv
  <2>4. Init => AnswerShowsServer
    BY DEF Init, AnswerShowsServer
  <2>5. QED
    BY <2>3, <2>4
<1>2. QED
  BY <1>1, AnswerStep, ShownStep, TypeCorrect, PTL DEF Spec

-----------------------------------------------------------------------------
(***************************************************************************)
(* Every outcome of a publish has its reason.                              *)
(***************************************************************************)
\* A publish has seen what is true now, since it watches from its first step; it has
\* found the camera unmuted before it sends.
SeenInv ==
  /\ link = "none" => \A s \in Sender : sender[s] = "idle"
  /\ \A s \in Sender :
       /\ sender[s] # "idle" => Truth(s, mute, link) \subseteq saw[s]
       /\ sender[s] \in {"send", "wait"} => "open" \in saw[s]
  /\ OutcomeHasReason

\* The steps of a publish itself.
LEMMA PublishSeen ==
  ASSUME TypeOK, SeenInv, NEW s \in Sender,
         Publish(s) \/ TestConnected(s) \/ TestMuted(s) \/ Send(s) \/ Wait(s)
  PROVE  SeenInv'
<1> USE DEF SeenInv, OutcomeHasReason, TypeOK
<1>1. CASE Publish(s)
  BY <1>1 DEF Publish
<1>2. CASE TestConnected(s)
  <2>1. link # "up" => "down" \in Truth(s, mute, link)
    BY DEF Truth
  <2>2. QED
    BY <1>2, <2>1 DEF TestConnected, Return, GoOn
<1>3. CASE TestMuted(s)
  <2>1. /\ IsMuted(s) => "muted" \in Truth(s, mute, link)
        /\ ~IsMuted(s) => "open" \in Truth(s, mute, link)
    BY DEF Truth, IsMuted
  <2>2. QED
    BY <1>3, <2>1 DEF TestMuted, Return, GoOn
<1>4. CASE Send(s)
  <2>1. link # "up" => "down" \in Truth(s, mute, link)
    BY DEF Truth
  <2>2. QED
    BY <1>4, <2>1 DEF Send, Return, GoOn
<1>5. CASE Wait(s)
  BY <1>5 DEF Wait, Return
<1>6. QED
  BY <1>1, <1>2, <1>3, <1>4, <1>5

\* The steps that change what is true while publishes run.
LEMMA WatchSeen ==
  ASSUME TypeOK, SeenInv, Watch(mute', link'), UNCHANGED <<sender, outcome>>,
         link' = "none" => link = "none"
  PROVE  SeenInv'
BY WatchGrows DEF SeenInv, OutcomeHasReason, TypeOK

\* However mutes, connection and publishes interleave, an alarm is held back, let
\* through or lost for a reason that was true during its publish.
THEOREM OutcomesHaveReasons == Spec => []OutcomeHasReason
<1>1. Init => SeenInv
  BY DEF Init, SeenInv, OutcomeHasReason
<1>2. TypeOK /\ SeenInv /\ [Next]_vars => SeenInv'
  <2> SUFFICES ASSUME TypeOK, SeenInv, [Next]_vars PROVE SeenInv'
    OBVIOUS
  <2>1. ASSUME NEW q \in posts, HandlePost(q) PROVE SeenInv'
    BY <2>1, WatchSeen DEF HandlePost
  <2>2. CASE LinkChanges
    BY <2>2, WatchSeen DEF LinkChanges
  <2>3. CASE Restart
    BY <2>3 DEF Restart, SeenInv, OutcomeHasReason
  <2>4. CASE Connect
    BY <2>4 DEF Connect, SeenInv, OutcomeHasReason
  <2>5. CASE UNCHANGED <<mute, mqttVars>>
    BY <2>5 DEF mqttVars, SeenInv, OutcomeHasReason
  <2>6. ASSUME NEW p \in Page, UpdateGrid(p) \/ \E c \in Cell : Toggle(p, c)
        PROVE  UNCHANGED <<mute, mqttVars>>
    BY <2>6 DEF UpdateGrid, Toggle
  <2>7. ASSUME \/ \E q \in posts : LosePost(q)
               \/ \E g \in gets : HandleGet(g) \/ GetAnswered(g) \/ LoseGet(g)
        PROVE  UNCHANGED <<mute, mqttVars>>
    BY <2>7 DEF LosePost, HandleGet, GetAnswered, LoseGet
  <2>8. QED
    BY <2>1, <2>2, <2>3, <2>4, <2>5, <2>6, <2>7, PublishSeen DEF Next, vars
<1>3. SeenInv => OutcomeHasReason
  BY DEF SeenInv
<1>4. QED
  BY <1>1, <1>2, <1>3, TypeCorrect, PTL DEF Spec

-----------------------------------------------------------------------------
(***************************************************************************)
(* ModbusHandler, the other way out of the program to a device, for any    *)
(* number of inits and starts.                                             *)
(*                                                                         *)
(* A thread that is alive is the one its handle names, and its start has   *)
(* not been stopped to the end: so release, which the caller makes after a *)
(* stop, finds no thread inside a call.                                    *)
(***************************************************************************)
\* Whether thread n of a kind has been created and has not returned.
Runs(thread, n) == thread[n] \notin {"off", "returned"}

\* Only the server of the start that is not stopped yet runs.
ServersInv ==
  \A n \in 1 .. MaxStarts :
    Runs(server, n) =>
      /\ n = serverThread
      /\ at \in {"createConfig", "joinServer"} \/ (at = "idle" /\ started /\ g_task_running)

\* The same of the configuration threads, which are joined one step later.
ConfigsInv ==
  \A n \in 1 .. MaxStarts :
    Runs(config, n) =>
      /\ n = configThread
      /\ at \in {"joinServer", "joinConfig"} \/ (at = "idle" /\ started /\ g_task_running)

\* What start and stop are in the middle of.
CallInv ==
  /\ at \in {"createServer", "createConfig"} => inited /\ started /\ g_task_running /\ starts # 0
  /\ started => inited
  /\ ~inited => ctx = "null"
  /\ ctx = "freed" => badInit

\* The inductive invariant.
HandlerInv ==
  /\ ModbusTypeOK
  /\ CallInv
  /\ ConfigsInv
  /\ badStart \/ ServersInv
  /\ MemorySafe

LEMMA HandlerInvInit == ModbusInit => HandlerInv
<1> SUFFICES ASSUME ModbusInit PROVE HandlerInv
  OBVIOUS
<1>1. ModbusTypeOK
  <2>1. /\ server \in [1 .. MaxStarts -> ServerAt]
        /\ config \in [1 .. MaxStarts -> {"off", "test", "returned"}]
    BY DEF ModbusInit, ServerAt
  <2>2. /\ serverThread \in 0 .. MaxStarts /\ configThread \in 0 .. MaxStarts
        /\ inits \in 0 .. MaxInits /\ starts \in 0 .. MaxStarts
    BY CallAssumption DEF ModbusInit
  <2>3. mb_mapping = IF ctx = "live" THEN "live" ELSE "null"
    BY DEF ModbusInit
  <2> QED  BY <2>1, <2>2, <2>3 DEF ModbusInit, ModbusTypeOK
<1>2. CallInv /\ MemorySafe
  BY DEF ModbusInit, CallInv, MemorySafe
<1>3. ConfigsInv /\ ServersInv
  BY DEF ModbusInit, ConfigsInv, ServersInv, Runs
<1> QED  BY <1>1, <1>2, <1>3 DEF HandlerInv

\* The caller's steps between two calls.
LEMMA CallsKeep ==
  ASSUME HandlerInv,
         HandlerInit \/ HandlerRelease \/ HandlerStart \/ HandlerStop
  PROVE  HandlerInv'
<1> USE CallAssumption DEF HandlerInv, CallInv, ConfigsInv, ServersInv, Runs,
            ModbusTypeOK, MemorySafe, ServerAt, InCall,
            memory, threads, caller, blame
<1>1. CASE HandlerInit
  <2>1. ModbusTypeOK'
    <3>1. /\ ctx' \in {"null", "live", "freed"}
          /\ mb_mapping' = IF ctx' = "live" THEN "live" ELSE "null"
      BY <1>1 DEF HandlerInit
    <3>2. inits' \in 0 .. MaxInits
      BY <1>1 DEF HandlerInit
    <3>3. badInit' \in BOOLEAN
      BY <1>1, Zenon DEF HandlerInit
    <3> QED  BY <1>1, <3>1, <3>2, <3>3 DEF HandlerInit
  <2>2. CallInv' /\ MemorySafe'
    BY <1>1 DEF HandlerInit
  <2>3. ConfigsInv' /\ (badStart \/ ServersInv)'
    BY <1>1 DEF HandlerInit
  <2> QED  BY <2>1, <2>2, <2>3
<1>2. CASE HandlerRelease
  BY <1>2 DEF HandlerRelease
<1>3. CASE HandlerStart
  <2>1. ModbusTypeOK' /\ CallInv' /\ MemorySafe'
    BY <1>3 DEF HandlerStart
  <2>2. ConfigsInv' /\ (badStart \/ ServersInv)'
    BY <1>3 DEF HandlerStart
  <2> QED  BY <2>1, <2>2
<1>4. CASE HandlerStop
  BY <1>4 DEF HandlerStop
<1> QED  BY <1>1, <1>2, <1>3, <1>4

\* The steps inside start and stop.
LEMMA InsideKeeps ==
  ASSUME HandlerInv, InsideCall
  PROVE  HandlerInv'
<1> USE CallAssumption DEF HandlerInv, CallInv, ConfigsInv, ServersInv, Runs,
            ModbusTypeOK, MemorySafe, ServerAt, InCall,
            memory, threads, caller, blame
<1>1. CASE CreateServer
  BY <1>1 DEF CreateServer
<1>2. CASE CreateConfig
  BY <1>2 DEF CreateConfig
<1>3. CASE JoinServer
  BY <1>3 DEF JoinServer
<1>4. CASE JoinConfig
  BY <1>4 DEF JoinConfig
<1> QED  BY <1>1, <1>2, <1>3, <1>4 DEF InsideCall

\* Wherever a server thread that runs goes from one place to the next, it does no harm
\* but to use freed memory, and that is there only when init failed.
LEMMA GotoKeeps ==
  ASSUME HandlerInv, NEW n \in 1 .. MaxStarts, NEW from, NEW to \in ServerAt,
         from \notin {"off", "returned"}, ServerGoto(n, from, to),
         misused' \in {misused, ctx = "freed"}
  PROVE  HandlerInv'
<1>1. /\ server[n] = from /\ server' = [server EXCEPT ![n] = to]
      /\ UNCHANGED <<ctx, mb_mapping, g_task_running, serverThread, configThread, config>>
      /\ UNCHANGED <<at, inited, started, inits, starts, badInit, badStart>>
  BY DEF ServerGoto, memory, caller, blame
<1>2. ModbusTypeOK'
  <2>1. server' \in [1 .. MaxStarts -> ServerAt]
    BY <1>1 DEF HandlerInv, ModbusTypeOK
  <2>2. misused' \in BOOLEAN
    BY DEF HandlerInv, ModbusTypeOK
  <2> QED  BY <1>1, <2>1, <2>2 DEF HandlerInv, ModbusTypeOK
<1>3. CallInv' /\ ConfigsInv'
  BY <1>1 DEF HandlerInv, CallInv, ConfigsInv, Runs
<1>4. (badStart \/ ServersInv)'
  <2>1. \A m \in 1 .. MaxStarts : Runs(server, m)' => Runs(server, m)
    BY <1>1 DEF HandlerInv, ModbusTypeOK, Runs
  <2> QED  BY <1>1, <2>1 DEF HandlerInv, ServersInv
<1>5. MemorySafe'
  BY <1>1 DEF HandlerInv, MemorySafe, CallInv
<1> QED  BY <1>2, <1>3, <1>4, <1>5 DEF HandlerInv

\* The steps of the threads.
LEMMA ThreadsKeep ==
  ASSUME HandlerInv, NEW n \in 1 .. MaxStarts,
         ServerTask(n) \/ ClientActs(n) \/ ConfigTask(n)
  PROVE  HandlerInv'
<1> DEFINE From == ServerAt \ {"off", "returned"}
           Goes == \E from \in From, to \in ServerAt :
                     ServerGoto(n, from, to) /\ misused' \in {misused, ctx = "freed"}
<1>1. ASSUME Goes PROVE HandlerInv'
  <2>1. PICK from \in From, to \in ServerAt :
               ServerGoto(n, from, to) /\ misused' \in {misused, ctx = "freed"}
    BY <1>1
  <2> QED  BY <2>1, GotoKeeps
<1>2. ASSUME NEW from \in From, NEW call \in ServerAt, NEW onError \in ServerAt,
             Call(n, from, call, onError)
      PROVE  Goes
  BY <1>2 DEF Call
<1>3. ASSUME NEW from \in From, NEW to \in ServerAt, Move(n, from, to)
      PROVE  Goes
  BY <1>3 DEF Move
<1>4. /\ {"begin", "listen", "test", "accept", "testClient", "receive", "reply"} \subseteq From
      /\ From \subseteq ServerAt /\ "returned" \in ServerAt
  BY DEF ServerAt, InCall
<1> HIDE DEF From, Goes
<1>5. Listen(n) => Goes
  BY <1>2, <1>3, <1>4 DEF Listen
<1>6. Accept(n) => Goes
  BY <1>2, <1>3, <1>4 DEF Accept
<1>7. ServeClient(n) => Goes
  BY <1>2, <1>3, <1>4 DEF ServeClient
<1>8. ClientActs(n) => Goes
  BY <1>2, <1>3, <1>4 DEF ClientActs
<1>9. CASE ConfigTask(n)
  BY <1>9 DEF HandlerInv, CallInv, ConfigsInv, ServersInv, Runs, ConfigTask,
              ModbusTypeOK, MemorySafe, memory, caller, blame
<1> QED  BY <1>1, <1>5, <1>6, <1>7, <1>8, <1>9 DEF ServerTask

LEMMA HandlerNextKeeps == HandlerInv /\ [ModbusNext]_modbusVars => HandlerInv'
<1> SUFFICES ASSUME HandlerInv, [ModbusNext]_modbusVars PROVE HandlerInv'
  OBVIOUS
<1>1. CASE UNCHANGED modbusVars
  BY <1>1 DEF HandlerInv, CallInv, ConfigsInv, ServersInv, Runs, ModbusTypeOK, MemorySafe,
              modbusVars, memory, threads, caller, blame
<1>2. CASE Caller
  BY <1>2, CallsKeep, InsideKeeps DEF Caller
<1>3. CASE \E n \in 1 .. MaxStarts :
             ServerTask(n) \/ ClientActs(n) \/ ConfigTask(n)
  BY <1>3, ThreadsKeep
<1> QED  BY <1>1, <1>2, <1>3 DEF ModbusNext

LEMMA HandlerInvariant == ModbusSpec => []HandlerInv
BY HandlerInvInit, HandlerNextKeeps, PTL DEF ModbusSpec

\* Every variable keeps its type, and the mapping is there when the context is
\* (modbus_handler.c:32-113).
THEOREM HandlerTypeCorrect == ModbusSpec => []ModbusTypeOK
BY HandlerInvariant, PTL DEF HandlerInv

\* Freed memory is used or freed again only after an init that found no memory for the
\* mapping or a start that got one thread of two (modbus_handler.c:45-50, 132-138).
THEOREM MemoryUsedSafely == ModbusSpec => []MemorySafe
BY HandlerInvariant, PTL DEF HandlerInv

\* After a stop no thread is left, but for the server of a start that failed half way
\* (modbus_handler.c:141-155).
THEOREM NoThreadLeft == ModbusSpec => []StopLeavesNoThread
<1>1. HandlerInv => StopLeavesNoThread
  BY DEF HandlerInv, ConfigsInv, ServersInv, Runs,
         ModbusTypeOK, StopLeavesNoThread, Alive
<1> QED  BY <1>1, HandlerInvariant, PTL

=============================================================================
