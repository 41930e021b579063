------------------------- MODULE AlarmManagerProofs -------------------------
(***************************************************************************)
(* Theorems about AlarmManager, for every set of channels and classes,     *)
(* every rule set, cooldown, grace period and counter width.               *)
(***************************************************************************)
EXTENDS AlarmManager, SequenceTheorems, TLAPS

-----------------------------------------------------------------------------
(***************************************************************************)
(* Lemmas about the helpers.                                               *)
(***************************************************************************)

\* An age stays an age when it grows, and ageing keeps the order of two ages.
LEMMA OlderType ==
  ASSUME NEW age \in AgeOrNone
  PROVE  Older(age) \in AgeOrNone
BY TimeAssumption DEF Older, AgeOrNone, Age, AgeCap, NoEntry

\* What the caller pushes onto a history leaves it shorter than HistoryCap
\* (main.cpp:345).
LEMMA PushFrameType ==
  ASSUME NEW h \in Seq(SUBSET Class), Len(h) < HistoryCap, NEW frame \in Frames
  PROVE  /\ PushFrame(h, frame) \in Seq(SUBSET Class)
         /\ Len(PushFrame(h, frame)) < HistoryCap
<1> DEFINE longer == Append(h, frame)
<1>1. frame \in SUBSET Class
  BY FrameAssumption
<1>2. /\ longer \in Seq(SUBSET Class)
      /\ longer # << >>
      /\ Len(longer) = Len(h) + 1
      /\ Len(h) \in Nat
  BY <1>1, AppendProperties, LenProperties
<1>3. /\ Tail(longer) \in Seq(SUBSET Class)
      /\ Len(Tail(longer)) = Len(longer) - 1
  BY <1>2, HeadTailProperties
<1>4. CASE Len(longer) >= HistoryCap
  BY <1>2, <1>3, <1>4, WindowAssumption DEF PushFrame
<1>5. CASE ~(Len(longer) >= HistoryCap)
  BY <1>2, <1>5, WindowAssumption DEF PushFrame
<1>6. QED
  BY <1>4, <1>5

-----------------------------------------------------------------------------
(***************************************************************************)
(* Type correctness.                                                       *)
(***************************************************************************)

\* The constructor and the caller's fresh variables have their types.
LEMMA TypeInit == Init => TypeOK
<1> SUFFICES ASSUME Init PROVE TypeOK
  OBVIOUS
<1>1. \A ch \in Channel : history[ch] = << >> /\ Len(history[ch]) < HistoryCap
  BY WindowAssumption DEF Init
<1>2. history \in [Channel -> Seq(SUBSET Class)]
  BY DEF Init
<1>3. Len(Alarms) \in Nat
  BY FrameAssumption, LenProperties
<1>4. /\ pc \in [Channel -> PC]
      /\ detected \in [Channel -> SUBSET Class]
      /\ lastLine \in [Channel -> Levels]
  BY DEF Init, PC, Levels
<1>5. /\ active \in [Channel -> AgeOrNone]
      /\ cooldown \in [Channel -> AgeOrNone]
      /\ sincePublish \in [Channel -> AgeOrNone]
  BY DEF Init, AgeOrNone
<1>6. /\ id \in Id
      /\ payload \in [Channel -> Id]
      /\ reg \in [Channel -> Id]
      /\ restarts \in 0 .. MaxRestarts
  BY <1>3, IdAssumption, FlagAssumption DEF Init, Id
<1>7. /\ idFile \in Id \cup {NoEntry}
      /\ sent \subseteq Id
      /\ lastSent \in Id \cup {NoEntry}
      /\ repeated \in BOOLEAN
      /\ overlapped \in BOOLEAN
      /\ racing \in BOOLEAN
  BY DEF Init
<1>8. QED
  BY <1>1, <1>2, <1>4, <1>5, <1>6, <1>7 DEF TypeOK

\* Every step keeps every variable in its type.
LEMMA TypeStep == TypeOK /\ [Next]_vars => TypeOK'
<1> SUFFICES ASSUME TypeOK, [Next]_vars PROVE TypeOK'
  OBVIOUS
<1> USE DEF TypeOK, PC, IdRegion, Goto, idVars, ghostVars
<1>1. ASSUME NEW ch \in Channel, NEW frame \in Frames, NewFrame(ch, frame)
      PROVE  TypeOK'
  <2>1. detected' \in [Channel -> SUBSET Class]
    BY <1>1, FrameAssumption DEF NewFrame
  <2>2. /\ history' \in [Channel -> Seq(SUBSET Class)]
        /\ \A c \in Channel : Len(history'[c]) < HistoryCap
    BY <1>1, PushFrameType DEF NewFrame
  <2>3. QED
    BY <1>1, <2>1, <2>2 DEF NewFrame
<1>2. ASSUME NEW ch \in Channel, CheckStaff(ch) PROVE TypeOK'
  BY <1>2 DEF CheckStaff
<1>3. ASSUME NEW ch \in Channel, Cancel(ch) PROVE TypeOK'
  BY <1>3 DEF Cancel, AgeOrNone
<1>4. ASSUME NEW ch \in Channel, LogCancel(ch) PROVE TypeOK'
  BY <1>4 DEF LogCancel, Levels
<1>5. ASSUME NEW ch \in Channel, CheckCooldown(ch) PROVE TypeOK'
  BY <1>5 DEF CheckCooldown, AgeOrNone
<1>6. ASSUME NEW ch \in Channel, ScanNothing(ch) PROVE TypeOK'
  BY <1>6 DEF ScanNothing
<1>7. ASSUME NEW ch \in Channel, ScanHit(ch) PROVE TypeOK'
  <2>1. /\ racing' \in BOOLEAN
        /\ overlapped' \in BOOLEAN
        /\ repeated' \in BOOLEAN
        /\ sent' \subseteq Id
    BY <1>7 DEF ScanHit
  <2>2. QED
    BY <1>7, <2>1 DEF ScanHit
<1>8. ASSUME NEW ch \in Channel, Publish(ch) PROVE TypeOK'
  <2>1. sincePublish' \in [Channel -> AgeOrNone]
    BY <1>8, TimeAssumption DEF Publish, AgeOrNone, Age, AgeCap
  <2>2. /\ lastSent' \in Id \cup {NoEntry}
        /\ sent' \subseteq Id
        /\ repeated' \in BOOLEAN
    BY <1>8 DEF Publish
  <2>3. QED
    BY <1>8, <2>1, <2>2 DEF Publish
<1>9. ASSUME NEW ch \in Channel, OpenIdFile(ch) PROVE TypeOK'
  BY <1>9 DEF OpenIdFile
<1>10. ASSUME NEW ch \in Channel, OpenIdFileFails(ch) PROVE TypeOK'
  BY <1>10 DEF OpenIdFileFails
<1>11. ASSUME NEW ch \in Channel, WriteIdFile(ch) PROVE TypeOK'
  BY <1>11 DEF WriteIdFile
<1>12. ASSUME NEW ch \in Channel, LoadId(ch) PROVE TypeOK'
  BY <1>12 DEF LoadId
<1>13. ASSUME NEW ch \in Channel, StoreId(ch) PROVE TypeOK'
  <2>1. \A n \in Id : (n + 1) % (IdMax + 1) \in Id
    BY IdAssumption DEF Id
  <2>2. QED
    BY <1>13, <2>1 DEF StoreId
<1>14. ASSUME NEW ch \in Channel, CheckWrap(ch) PROVE TypeOK'
  BY <1>14 DEF CheckWrap
<1>15. ASSUME NEW ch \in Channel, ResetId(ch) PROVE TypeOK'
  BY <1>15, IdAssumption DEF ResetId, Id
<1>16. ASSUME NEW ch \in Channel, LogAlarm(ch) PROVE TypeOK'
  BY <1>16 DEF LogAlarm, Levels
<1>17. ASSUME NEW ch \in Channel, Activate(ch) PROVE TypeOK'
  BY <1>17, TimeAssumption DEF Activate, AgeOrNone, Age, AgeCap
<1>18. ASSUME NEW ch \in Channel, StartCooldown(ch) PROVE TypeOK'
  BY <1>18, TimeAssumption DEF StartCooldown, AgeOrNone, Age, AgeCap
<1>19. CASE Tick
  BY <1>19, OlderType DEF Tick
<1>20. CASE Restart
  <2>1. /\ history' \in [Channel -> Seq(SUBSET Class)]
        /\ \A c \in Channel : Len(history'[c]) < HistoryCap
    BY <1>20, WindowAssumption DEF Restart
  <2>2. id' \in Id
    BY <1>20, IdAssumption DEF Restart, Id, NoEntry
  <2>3. restarts' \in 0 .. MaxRestarts
    BY <1>20, FlagAssumption DEF Restart
  <2>4. /\ payload' \in [Channel -> Id]
        /\ reg' \in [Channel -> Id]
    BY <1>20, IdAssumption DEF Restart, Id
  <2>5. QED
    BY <1>20, <2>1, <2>2, <2>3, <2>4 DEF Restart, AgeOrNone, Levels
<1>21. CASE UNCHANGED vars
  BY <1>21 DEF vars, stateVars
<1>22. QED
  BY <1>1, <1>2, <1>3, <1>4, <1>5, <1>6, <1>7, <1>8, <1>9, <1>10, <1>11,
     <1>12, <1>13, <1>14, <1>15, <1>16, <1>17, <1>18, <1>19, <1>20, <1>21
     DEF Next, Thread, ProcessChannelAlarms

\* Every behaviour of the alarm manager keeps every variable in its type; the
\* detection history never reaches the size the caller pops it at.
THEOREM TypeCorrect == Spec => []TypeOK
BY TypeInit, TypeStep, PTL DEF Spec

-----------------------------------------------------------------------------
(***************************************************************************)
(* Spacing of the notifications and the right to cancel.                   *)
(***************************************************************************)

\* The newest notification of ch is CoolTime old, or the cooldown that follows it
\* is running and was started no earlier than the notification was sent.
Covered(ch) ==
  Spaced(ch) \/ (cooldown[ch] # NoEntry /\ cooldown[ch] <= sincePublish[ch])

\* RaiseSpacing is not inductive: what is known of the age of the last
\* notification depends on where the thread is.  Past the cooldown check it is
\* CoolTime; between a notification and the start of its cooldown nothing is
\* known, and nothing is needed, since the thread passes neither check there;
\* elsewhere the cooldown covers it.
SpacingInv ==
  \A ch \in Channel :
    /\ pc[ch] \in {"scan", "publish"} => Spaced(ch)
    /\ pc[ch] \in {"idle", "staff", "cancel", "cancelLog", "cooldown"} => Covered(ch)

\* A thread that is about to erase the entry of its channel still may: only it
\* touches the entry, so the answer it got under the lock cannot have gone stale.
CancelInv == \A ch \in Channel : pc[ch] = "cancel" => CanCancel(ch)

IInv == TypeOK /\ SpacingInv /\ CancelInv

\* Ageing never makes an entry appear or disappear and never makes it younger.
LEMMA OlderGrows ==
  ASSUME NEW a \in AgeOrNone, NEW b \in AgeOrNone
  PROVE  /\ Older(a) = NoEntry <=> a = NoEntry
         /\ a <= Older(a)
         /\ a # NoEntry /\ a <= b => Older(a) <= Older(b)
BY TimeAssumption DEF Older, AgeOrNone, Age, AgeCap, NoEntry

\* A step of one thread leaves the clocks, the log line and the place of every
\* other thread alone.
LEMMA OthersUnchanged ==
  ASSUME TypeOK, NEW ch \in Channel, NEW c \in Channel, c # ch, Thread(ch)
  PROVE  /\ pc'[c] = pc[c]
         /\ active'[c] = active[c]
         /\ cooldown'[c] = cooldown[c]
         /\ sincePublish'[c] = sincePublish[c]
         /\ detected'[c] = detected[c]
         /\ lastLine'[c] = lastLine[c]
<1> USE DEF TypeOK, Goto, idVars, ghostVars
<1>1. ASSUME NEW frame \in Frames, NewFrame(ch, frame)
      PROVE  /\ pc'[c] = pc[c] /\ active'[c] = active[c]
             /\ cooldown'[c] = cooldown[c]
             /\ sincePublish'[c] = sincePublish[c]
             /\ detected'[c] = detected[c]
             /\ lastLine'[c] = lastLine[c]
  BY <1>1 DEF NewFrame
<1>2. CASE CheckStaff(ch) \/ Cancel(ch) \/ LogCancel(ch)
  BY <1>2 DEF CheckStaff, Cancel, LogCancel
<1>3. CASE CheckCooldown(ch) \/ ScanNothing(ch) \/ ScanHit(ch)
  BY <1>3 DEF CheckCooldown, ScanNothing, ScanHit
<1>4. CASE Publish(ch) \/ OpenIdFile(ch) \/ OpenIdFileFails(ch) \/ WriteIdFile(ch)
  BY <1>4 DEF Publish, OpenIdFile, OpenIdFileFails, WriteIdFile
<1>5. CASE LoadId(ch) \/ StoreId(ch) \/ CheckWrap(ch) \/ ResetId(ch)
  BY <1>5 DEF LoadId, StoreId, CheckWrap, ResetId
<1>6. CASE LogAlarm(ch) \/ Activate(ch) \/ StartCooldown(ch)
  BY <1>6 DEF LogAlarm, Activate, StartCooldown
<1>7. QED
  BY <1>1, <1>2, <1>3, <1>4, <1>5, <1>6 DEF Thread, ProcessChannelAlarms

\* What a thread's own step does to the place and the clocks of its channel.
LEMMA OwnStep ==
  ASSUME TypeOK, NEW ch \in Channel, Thread(ch),
         SpacingInv, CancelInv
  PROVE  /\ pc'[ch] \in {"scan", "publish"} => Spaced(ch)'
         /\ pc'[ch] \in {"idle", "staff", "cancel", "cancelLog", "cooldown"}
              => Covered(ch)'
         /\ pc'[ch] = "cancel" => CanCancel(ch)'
<1> DEFINE Goal == /\ pc'[ch] \in {"scan", "publish"} => Spaced(ch)'
                   /\ pc'[ch] \in {"idle", "staff", "cancel", "cancelLog", "cooldown"}
                        => Covered(ch)'
                   /\ pc'[ch] = "cancel" => CanCancel(ch)'
<1> SUFFICES Goal
  OBVIOUS
<1> USE TimeAssumption DEF TypeOK, Goto, idVars, ghostVars, SpacingInv, Covered, Spaced
<1>1. ASSUME NEW frame \in Frames, NewFrame(ch, frame) PROVE Goal
  BY <1>1 DEF NewFrame
<1>2. CASE CheckStaff(ch)
  BY <1>2 DEF CheckStaff, CanCancel
<1>3. CASE Cancel(ch) \/ LogCancel(ch)
  BY <1>3 DEF Cancel, LogCancel
<1>4. CASE CheckCooldown(ch)
  <2>1. CASE OnCooldown(ch)
    BY <1>4, <2>1 DEF CheckCooldown
  <2>2. CASE ~OnCooldown(ch)
    <3>1. pc[ch] = "cooldown" /\ pc'[ch] = "scan" /\ sincePublish' = sincePublish
      BY <1>4, <2>2 DEF CheckCooldown
    <3>2. cooldown[ch] \in AgeOrNone /\ sincePublish[ch] \in AgeOrNone
      OBVIOUS
    <3>3. Spaced(ch)
      BY <3>1, <3>2, <2>2 DEF OnCooldown, AgeOrNone, Age, AgeCap, NoEntry
    <3>4. QED
      BY <3>1, <3>3
  <2>3. QED
    BY <2>1, <2>2
<1>5. CASE ScanNothing(ch) \/ ScanHit(ch)
  BY <1>5 DEF ScanNothing, ScanHit
<1>6. CASE Publish(ch) \/ OpenIdFile(ch) \/ OpenIdFileFails(ch) \/ WriteIdFile(ch)
  BY <1>6 DEF Publish, OpenIdFile, OpenIdFileFails, WriteIdFile
<1>7. CASE LoadId(ch) \/ StoreId(ch) \/ CheckWrap(ch) \/ ResetId(ch)
  BY <1>7 DEF LoadId, StoreId, CheckWrap, ResetId
<1>8. CASE LogAlarm(ch) \/ Activate(ch)
  BY <1>8 DEF LogAlarm, Activate
<1>9. CASE StartCooldown(ch)
  <2>1. sincePublish[ch] \in AgeOrNone
    OBVIOUS
  <2>2. cooldown'[ch] = 0 /\ sincePublish'[ch] = sincePublish[ch] /\ pc'[ch] = "idle"
    BY <1>9 DEF StartCooldown
  <2>3. QED
    BY <2>1, <2>2 DEF AgeOrNone, Age, AgeCap, NoEntry
<1>10. QED
  BY <1>1, <1>2, <1>3, <1>4, <1>5, <1>6, <1>7, <1>8, <1>9
     DEF Thread, ProcessChannelAlarms

\* The inductive invariant holds of every behaviour.
LEMMA Inductive == Spec => []IInv
<1>1. Init => IInv
  <2>1. Init => SpacingInv /\ CancelInv
    BY DEF Init, SpacingInv, CancelInv, Covered, Spaced
  <2>2. QED
    BY <2>1, TypeInit DEF IInv
<1>2. IInv /\ [Next]_vars => IInv'
  <2> SUFFICES ASSUME IInv, [Next]_vars PROVE SpacingInv' /\ CancelInv'
    BY TypeStep DEF IInv
  <2> USE DEF IInv
  <2>1. ASSUME NEW ch \in Channel, Thread(ch) PROVE SpacingInv' /\ CancelInv'
    <3> SUFFICES ASSUME NEW c \in Channel
                 PROVE  /\ pc'[c] \in {"scan", "publish"} => Spaced(c)'
                        /\ pc'[c] \in {"idle", "staff", "cancel", "cancelLog", "cooldown"}
                             => Covered(c)'
                        /\ pc'[c] = "cancel" => CanCancel(c)'
      BY DEF SpacingInv, CancelInv
    <3>1. CASE c = ch
      BY <2>1, <3>1, OwnStep
    <3>2. CASE c # ch
      BY <2>1, <3>2, OthersUnchanged
         DEF SpacingInv, CancelInv, Covered, Spaced, CanCancel
    <3>3. QED
      BY <3>1, <3>2
  <2>2. CASE Tick
    <3> SUFFICES ASSUME NEW c \in Channel
                 PROVE  /\ Spaced(c) => Spaced(c)'
                        /\ Covered(c) => Covered(c)'
                        /\ CanCancel(c) => CanCancel(c)'
                        /\ pc'[c] = pc[c]
      BY DEF SpacingInv, CancelInv
    <3>1. /\ active[c] \in AgeOrNone
          /\ cooldown[c] \in AgeOrNone
          /\ sincePublish[c] \in AgeOrNone
      BY DEF TypeOK
    <3>2. /\ active'[c] = Older(active[c])
          /\ cooldown'[c] = Older(cooldown[c])
          /\ sincePublish'[c] = Older(sincePublish[c])
          /\ detected' = detected
          /\ pc'[c] = pc[c]
      BY <2>2 DEF Tick
    <3>3. Spaced(c) => Spaced(c)'
      BY <3>1, <3>2, TimeAssumption DEF Spaced, Older, AgeOrNone, Age, AgeCap, NoEntry
    <3>4. CanCancel(c) => CanCancel(c)'
      BY <3>1, <3>2, TimeAssumption DEF CanCancel, Older, AgeOrNone, Age, AgeCap, NoEntry
    <3>5. Covered(c) => Covered(c)'
      BY <3>1, <3>2, <3>3, OlderGrows DEF Covered
    <3>6. QED
      BY <3>2, <3>3, <3>4, <3>5
  <2>3. CASE Restart
    BY <2>3 DEF Restart, SpacingInv, CancelInv, Covered, Spaced
  <2>4. CASE UNCHANGED vars
    BY <2>4 DEF vars, stateVars, ghostVars, SpacingInv, CancelInv, Covered, Spaced, CanCancel
  <2>5. QED
    BY <2>1, <2>2, <2>3, <2>4 DEF Next
<1>3. QED
  BY <1>1, <1>2, PTL DEF Spec

\* However its threads are delayed, the manager never notifies a channel twice
\* within the cooldown.
THEOREM SpacingKept == Spec => []RaiseSpacing
<1>1. IInv => RaiseSpacing
  BY DEF IInv, SpacingInv, RaiseSpacing
<1>2. QED
  BY <1>1, Inductive, PTL

-----------------------------------------------------------------------------
(***************************************************************************)
(* Which steps touch an active alarm.                                      *)
(***************************************************************************)

\* A thread other than one that cancels or activates leaves active_channels alone.
LEMMA ActiveChangers ==
  ASSUME NEW ch \in Channel, Thread(ch)
  PROVE  active' = active \/ Cancel(ch) \/ Activate(ch)
<1> USE DEF Goto, idVars, ghostVars
<1>1. ASSUME NEW frame \in Frames, NewFrame(ch, frame) PROVE active' = active
  BY <1>1 DEF NewFrame
<1>2. CASE CheckStaff(ch) \/ LogCancel(ch) \/ CheckCooldown(ch) \/ ScanNothing(ch)
           \/ ScanHit(ch) \/ Publish(ch)
  BY <1>2 DEF CheckStaff, LogCancel, CheckCooldown, ScanNothing, ScanHit, Publish
<1>3. CASE OpenIdFile(ch) \/ OpenIdFileFails(ch) \/ WriteIdFile(ch) \/ LoadId(ch)
           \/ StoreId(ch) \/ CheckWrap(ch) \/ ResetId(ch) \/ LogAlarm(ch)
           \/ StartCooldown(ch)
  BY <1>3 DEF OpenIdFile, OpenIdFileFails, WriteIdFile, LoadId, StoreId, CheckWrap,
              ResetId, LogAlarm, StartCooldown
<1>4. QED
  BY <1>1, <1>2, <1>3 DEF Thread, ProcessChannelAlarms

\* An active alarm is lost to a restart or to staff after its grace period, and
\* to nothing else.
THEOREM GraceKept == Spec => CancelRespectsGrace
<1> DEFINE Lost(ch) == active[ch] # NoEntry /\ active'[ch] = NoEntry
           Rightly(ch) == \/ restarts' # restarts
                          \/ Staff \in detected[ch] /\ active[ch] >= Grace
<1>1. IInv /\ [Next]_vars => [\A ch \in Channel : Lost(ch) => Rightly(ch)]_vars
  <2> SUFFICES ASSUME IInv, Next, NEW c \in Channel, Lost(c) PROVE Rightly(c)
    OBVIOUS
  <2> USE DEF IInv
  <2>1. ASSUME NEW ch \in Channel, Thread(ch) PROVE Rightly(c)
    <3>1. CASE active' = active
      BY <3>1
    <3>2. CASE Cancel(ch)
      <4>1. c = ch
        BY <3>2 DEF Cancel, TypeOK
      <4>2. CanCancel(c)
        BY <3>2, <4>1 DEF Cancel, Goto, CancelInv
      <4>3. QED
        BY <4>2 DEF CanCancel
    <3>3. CASE Activate(ch)
      BY <3>3 DEF Activate, TypeOK, NoEntry
    <3>4. QED
      BY <2>1, <3>1, <3>2, <3>3, ActiveChangers
  <2>2. CASE Tick
    <3>1. active'[c] = Older(active[c]) /\ active[c] \in AgeOrNone
      BY <2>2 DEF Tick, TypeOK
    <3>2. QED
      BY <3>1, OlderGrows
  <2>3. CASE Restart
    BY <2>3, FlagAssumption DEF Restart, TypeOK
  <2>4. QED
    BY <2>1, <2>2, <2>3 DEF Next
<1>2. QED
  BY <1>1, Inductive, PTL DEF Spec, CancelRespectsGrace

-----------------------------------------------------------------------------
(***************************************************************************)
(* The manager implements the contract.                                    *)
(***************************************************************************)

\* The refinement mapping's value of the contract's variable `due'.
Due == {ch \in Channel : pc[ch] \in AfterPublish \ {"start"}}

\* The steps of a thread that the contract knows nothing of leave its variables
\* alone.
LEMMA SilentStep ==
  ASSUME TypeOK, NEW ch \in Channel,
         \/ \E frame \in Frames : NewFrame(ch, frame)
         \/ CheckStaff(ch) \/ LogCancel(ch) \/ CheckCooldown(ch) \/ ScanNothing(ch)
         \/ ScanHit(ch) \/ OpenIdFile(ch) \/ OpenIdFileFails(ch) \/ WriteIdFile(ch)
         \/ LoadId(ch) \/ StoreId(ch) \/ CheckWrap(ch) \/ ResetId(ch) \/ LogAlarm(ch)
         \/ StartCooldown(ch)
  PROVE  UNCHANGED <<sincePublish, active, Due, restarts>>
<1> USE DEF Goto, idVars, ghostVars, TypeOK, Due, AfterPublish
<1>1. ASSUME NEW frame \in Frames, NewFrame(ch, frame)
      PROVE  UNCHANGED <<sincePublish, active, Due, restarts>>
  BY <1>1 DEF NewFrame
<1>2. CASE CheckStaff(ch) \/ LogCancel(ch) \/ CheckCooldown(ch) \/ ScanNothing(ch)
  BY <1>2 DEF CheckStaff, LogCancel, CheckCooldown, ScanNothing
<1>3. CASE ScanHit(ch) \/ OpenIdFile(ch) \/ OpenIdFileFails(ch) \/ WriteIdFile(ch)
  BY <1>3 DEF ScanHit, OpenIdFile, OpenIdFileFails, WriteIdFile
<1>4. CASE LoadId(ch) \/ StoreId(ch) \/ CheckWrap(ch) \/ ResetId(ch)
  BY <1>4 DEF LoadId, StoreId, CheckWrap, ResetId
<1>5. CASE LogAlarm(ch) \/ StartCooldown(ch)
  BY <1>5 DEF LogAlarm, StartCooldown
<1>6. QED
  BY <1>1, <1>2, <1>3, <1>4, <1>5

\* Every behaviour of the alarm manager is one the contract allows.
THEOREM ManagerImplementsContract == Spec => Implements
<1>1. Init => Contract!Init
  BY DEF Init, Contract!Init, AfterPublish, NoEntry, Contract!NoAge
<1>2. IInv /\ [Next]_vars => [Contract!Next]_(Contract!contractVars)
  <2> SUFFICES ASSUME IInv, [Next]_vars
               PROVE  Contract!Next \/ UNCHANGED <<sincePublish, active, Due, restarts>>
    BY DEF Contract!contractVars, Due
  <2> USE DEF IInv
  <2>1. ASSUME NEW ch \in Channel, Publish(ch) PROVE Contract!Notify(ch)
    <3>1. pc[ch] = "publish" /\ pc' = [pc EXCEPT ![ch] = "open"]
      BY <2>1 DEF Publish, Goto
    <3>2. ch \notin Due /\ Due' = Due \cup {ch}
      BY <3>1 DEF Due, AfterPublish, TypeOK
    <3>3. sincePublish[ch] = NoEntry \/ sincePublish[ch] >= CoolTime
      BY <3>1 DEF SpacingInv, Spaced
    <3>4. /\ sincePublish' = [sincePublish EXCEPT ![ch] = 0]
          /\ UNCHANGED <<active, restarts>>
      BY <2>1 DEF Publish
    <3>5. QED
      BY <3>2, <3>3, <3>4 DEF Contract!Notify, Contract!NoAge, NoEntry, Due
  <2>2. ASSUME NEW ch \in Channel, Activate(ch) PROVE Contract!Hold(ch)
    <3>1. pc[ch] = "activate" /\ pc' = [pc EXCEPT ![ch] = "start"]
      BY <2>2 DEF Activate, Goto
    <3>2. ch \in Due /\ Due' = Due \ {ch}
      BY <3>1 DEF Due, AfterPublish, TypeOK
    <3>3. /\ active' = [active EXCEPT ![ch] = 0]
          /\ UNCHANGED <<sincePublish, restarts>>
      BY <2>2 DEF Activate, ghostVars
    <3>4. QED
      BY <3>2, <3>3 DEF Contract!Hold, Due
  <2>3. ASSUME NEW ch \in Channel, Cancel(ch) PROVE Contract!Release(ch)
    <3>1. pc[ch] = "cancel" /\ pc' = [pc EXCEPT ![ch] = "cancelLog"]
      BY <2>3 DEF Cancel, Goto
    <3>2. ch \notin Due /\ Due' = Due
      BY <3>1 DEF Due, AfterPublish, TypeOK
    <3>3. active[ch] # NoEntry /\ active[ch] >= Grace
      BY <3>1 DEF CancelInv, CanCancel
    <3>4. /\ active' = [active EXCEPT ![ch] = NoEntry]
          /\ UNCHANGED <<sincePublish, restarts>>
      BY <2>3 DEF Cancel, ghostVars
    <3>5. QED
      BY <3>2, <3>3, <3>4 DEF Contract!Release, Contract!NoAge, NoEntry, Due
  <2>4. CASE Tick
    <3>1. \A age : Contract!Aged(age) = Older(age)
      BY DEF Contract!Aged, Contract!NoAge, Contract!MaxAge, Older, NoEntry, AgeCap
    <3>2. Contract!Second
      BY <2>4, <3>1 DEF Tick, Contract!Second
    <3>3. QED
      BY <3>2 DEF Contract!Next
  <2>5. CASE Restart
    BY <2>5 DEF Restart, Contract!Next, Contract!StartAgain, Contract!NoAge, NoEntry,
                AfterPublish
  <2>6. CASE UNCHANGED vars
    BY <2>6 DEF vars, stateVars, ghostVars, Due
  <2>7. ASSUME NEW ch \in Channel, Thread(ch)
        PROVE  Contract!Next \/ UNCHANGED <<sincePublish, active, Due, restarts>>
    <3>1. CASE Publish(ch) \/ Activate(ch) \/ Cancel(ch)
      BY <2>1, <2>2, <2>3, <3>1 DEF Contract!Next
    <3>2. CASE ~(Publish(ch) \/ Activate(ch) \/ Cancel(ch))
      BY <2>7, <3>2, SilentStep DEF Thread, ProcessChannelAlarms
    <3>3. QED
      BY <3>1, <3>2
  <2>8. QED
    BY <2>4, <2>5, <2>6, <2>7 DEF Next
<1>3. QED
  BY <1>1, <1>2, Inductive, PTL DEF Spec, Implements, Contract!Spec

-----------------------------------------------------------------------------
(***************************************************************************)
(* The entries of active_channels, the notifications and the log.          *)
(***************************************************************************)

\* GraceFromNewestNotification holds between calls only; inside a raise, the
\* notification has been sent from its publish on, and it is the newest, so the
\* entry is at most as old as it again once it has been made.
Notified(ch) ==
  /\ pc[ch] \in AfterPublish => sincePublish[ch] # NoEntry
  /\ pc[ch] \notin AfterPublish \ {"start"} /\ active[ch] # NoEntry =>
       sincePublish[ch] # NoEntry /\ active[ch] <= sincePublish[ch]
  /\ pc[ch] \notin AfterPublish /\ active[ch] # NoEntry /\ cooldown[ch] # NoEntry =>
       cooldown[ch] <= active[ch]

\* The log line comes before the entry when an alarm is raised and after it when
\* it is cancelled: in those two gaps one of the two is known already.  A line that
\* was loaded says nothing, but there is one only while nothing was raised.
Logged(ch) ==
  /\ pc[ch] = "activate" => lastLine[ch] = "ALARM"
  /\ pc[ch] = "cancelLog" => active[ch] = NoEntry
  /\ active[ch] # NoEntry => lastLine[ch] = "ALARM"
  /\ pc[ch] \notin (AfterPublish \ {"start"}) \cup {"cancelLog"} =>
       (lastLine[ch] = "ALARM" => active[ch] # NoEntry \/ sincePublish[ch] = NoEntry)

RecordInv == \A ch \in Channel : Notified(ch) /\ Logged(ch)

\* A thread's own step keeps what is recorded of its channel in agreement.
LEMMA OwnRecord ==
  ASSUME TypeOK, RecordInv, NEW ch \in Channel, Thread(ch)
  PROVE  Notified(ch)' /\ Logged(ch)'
<1> DEFINE Goal == Notified(ch)' /\ Logged(ch)'
<1> SUFFICES Goal
  OBVIOUS
<1>0. /\ active[ch] \in AgeOrNone /\ cooldown[ch] \in AgeOrNone
      /\ sincePublish[ch] \in AgeOrNone
  BY DEF TypeOK
<1> USE <1>0, TimeAssumption
    DEF TypeOK, Goto, idVars, ghostVars, RecordInv, Notified, Logged, AfterPublish
<1>1. ASSUME NEW frame \in Frames, NewFrame(ch, frame) PROVE Goal
  BY <1>1 DEF NewFrame
<1>2. CASE CheckStaff(ch)
  BY <1>2 DEF CheckStaff
<1>3. CASE Cancel(ch) \/ LogCancel(ch)
  BY <1>3 DEF Cancel, LogCancel
<1>4. CASE CheckCooldown(ch)
  BY <1>4 DEF CheckCooldown
<1>5. CASE ScanNothing(ch) \/ ScanHit(ch)
  BY <1>5 DEF ScanNothing, ScanHit
<1>6. CASE Publish(ch)
  BY <1>6 DEF Publish, NoEntry
<1>7. CASE OpenIdFile(ch) \/ OpenIdFileFails(ch) \/ WriteIdFile(ch) \/ LoadId(ch)
  BY <1>7 DEF OpenIdFile, OpenIdFileFails, WriteIdFile, LoadId
<1>8. CASE StoreId(ch) \/ CheckWrap(ch) \/ ResetId(ch)
  BY <1>8 DEF StoreId, CheckWrap, ResetId
<1>9. CASE LogAlarm(ch)
  BY <1>9 DEF LogAlarm
<1>10. CASE Activate(ch)
  BY <1>10 DEF Activate, AgeOrNone, Age, NoEntry
<1>11. CASE StartCooldown(ch)
  <2>1. /\ cooldown'[ch] = 0 /\ pc[ch] = "start" /\ pc'[ch] = "idle"
        /\ UNCHANGED <<active, sincePublish, lastLine>>
    BY <1>11 DEF StartCooldown
  <2>2. active[ch] # NoEntry => 0 <= active[ch]
    BY DEF AgeOrNone, Age, AgeCap, NoEntry
  <2>3. QED
    BY <2>1, <2>2 DEF NoEntry
<1>12. QED
  BY <1>1, <1>2, <1>3, <1>4, <1>5, <1>6, <1>7, <1>8, <1>9, <1>10, <1>11
     DEF Thread, ProcessChannelAlarms

\* What is recorded of every channel agrees, in every behaviour.
LEMMA RecordsKept == Spec => []RecordInv
<1>1. Init => RecordInv
  BY DEF Init, RecordInv, Notified, Logged, AfterPublish
<1>2. TypeOK /\ RecordInv /\ [Next]_vars => RecordInv'
  <2> SUFFICES ASSUME TypeOK, RecordInv, [Next]_vars, NEW c \in Channel
               PROVE  Notified(c)' /\ Logged(c)'
    BY DEF RecordInv
  <2>1. ASSUME NEW ch \in Channel, Thread(ch) PROVE Notified(c)' /\ Logged(c)'
    <3>1. CASE c = ch
      BY <2>1, <3>1, OwnRecord
    <3>2. CASE c # ch
      BY <2>1, <3>2, OthersUnchanged DEF RecordInv, Notified, Logged
    <3>3. QED
      BY <3>1, <3>2
  <2>2. CASE Tick
    <3>1. /\ active[c] \in AgeOrNone
          /\ cooldown[c] \in AgeOrNone
          /\ sincePublish[c] \in AgeOrNone
      BY DEF TypeOK
    <3>2. /\ active'[c] = Older(active[c])
          /\ cooldown'[c] = Older(cooldown[c])
          /\ sincePublish'[c] = Older(sincePublish[c])
          /\ pc' = pc /\ lastLine' = lastLine
      BY <2>2 DEF Tick
    <3>3. Logged(c)'
      BY <3>1, <3>2, OlderGrows DEF RecordInv, Logged
    <3>4. Notified(c)'
      BY <3>1, <3>2, OlderGrows DEF RecordInv, Notified
    <3>5. QED
      BY <3>3, <3>4
  <2>3. CASE Restart
    BY <2>3 DEF Restart, Notified, Logged, AfterPublish
  <2>4. CASE UNCHANGED vars
    BY <2>4 DEF vars, stateVars, ghostVars, RecordInv, Notified, Logged
  <2>5. QED
    BY <2>1, <2>2, <2>3, <2>4 DEF Next
<1>3. QED
  BY <1>1, <1>2, TypeCorrect, PTL DEF Spec

\* The grace period during which staff cannot cancel an alarm never runs from
\* anything older than the channel's newest notification.
THEOREM GraceIsNewest == Spec => []GraceFromNewestNotification
<1>1. RecordInv => GraceFromNewestNotification
  BY DEF RecordInv, Notified, GraceFromNewestNotification
<1>2. QED
  BY <1>1, RecordsKept, PTL

\* The log and active_channels, from which the page draws two different things,
\* tell the same of every channel between calls.
THEOREM LogAgrees == Spec => []LogAgreesWithActive
<1>1. RecordInv => LogAgreesWithActive
  BY DEF RecordInv, Logged, LogAgreesWithActive
<1>2. QED
  BY <1>1, RecordsKept, PTL

-----------------------------------------------------------------------------
(***************************************************************************)
(* The ids, in races of the threads for the counter and after them.        *)
(***************************************************************************)
\* A natural number below the modulus is its own remainder.
LEMMA ModSmall ==
  ASSUME NEW n \in Nat, NEW m \in Nat, n < m
  PROVE  n % m = n
BY SMT

\* A round of the modulus leaves the remainder alone.
LEMMA ModRound ==
  ASSUME NEW n \in Nat, NEW m \in Nat, n < m
  PROVE  (n + m) % m = n
BY SMT

SomeoneAt(places) == \E c \in Channel : pc[c] \in places

Sending  == {"open", "write", "load", "store"}
Wrapping == {"wrap", "reset"}

\* The program was started from a file that may have been written in a race.
Damaged == overlapped /\ restarts > 0

\* What a race leaves alone: a thread that has moved the counter to UINT32_MAX is
\* about to look at it, whoever else moves it, and will set it back; only in a race
\* is the largest id written to the file.
RaceInv ==
  /\ racing => overlapped
  /\ ~overlapped => idFile # IdMax
  /\ id = IdMax => SomeoneAt(Wrapping) \/ Damaged

\* What holds again as soon as a raise finds no other under way: one thread at most
\* handles ids; the counter is ahead of every id sent, by one from the store on and
\* by nothing in the steps between publish and store, but for UINT32_MAX, which a
\* damaged file may start with; in publish and store the thread's copy of it is
\* still what it reads, since nobody else moves it meanwhile.
IdInv ==
  ~racing =>
    /\ \A c, d \in Channel : pc[c] \in IdRegion /\ pc[d] \in IdRegion => c = d
    /\ ~repeated
    /\ IdMax \in sent => Damaged
    /\ \A n \in sent \ {IdMax} : n < id \/ (n = id /\ SomeoneAt(Sending))
    /\ id = IdMax /\ ~SomeoneAt(Wrapping) =>
         sent \subseteq IF SomeoneAt(Sending) THEN {IdMax} ELSE {}
    /\ \A c \in Channel : /\ pc[c] = "publish" => payload[c] = id
                          /\ pc[c] = "store" => reg[c] = id
                          /\ pc[c] = "reset" => id = IdMax

\* The id after n, in the counter's round of 0 .. IdMax - 1.
Successor(n) == IF n + 1 = IdMax THEN 0 ELSE n + 1

\* What the file holds, if anything, is the counter, or the id before it once the
\* counter has moved on or before the message with the counter's id is sent.
FileInv ==
  ~overlapped /\ ~IdFileMayFail =>
    /\ idFile # NoEntry /\ lastSent # NoEntry =>
         lastSent \in {idFile, Successor(idFile)}
    /\ \/ SomeoneAt(Wrapping)
       \/ idFile = NoEntry
       \/ id \in {idFile, Successor(idFile)}
    /\ \A c \in Channel :
         /\ pc[c] \in Sending => lastSent = id
         /\ pc[c] \in {"load", "store"} => idFile = id
         /\ pc[c] \in Wrapping => id = idFile + 1 /\ idFile = lastSent

\* The steps of a thread that have nothing to do with the ids.
Quiet(ch) ==
  \/ \E frame \in Frames : NewFrame(ch, frame)
  \/ CheckStaff(ch) \/ Cancel(ch) \/ LogCancel(ch) \/ CheckCooldown(ch)
  \/ ScanNothing(ch) \/ LogAlarm(ch) \/ Activate(ch) \/ StartCooldown(ch)

\* They leave the ids alone, and a thread that takes one is outside the steps that
\* handle ids before and after.
LEMMA QuietStep ==
  ASSUME TypeOK, NEW ch \in Channel, Quiet(ch)
  PROVE  /\ UNCHANGED <<idVars, sent, lastSent, repeated, overlapped, racing, restarts>>
         /\ pc[ch] \notin IdRegion /\ pc'[ch] \notin IdRegion
         /\ \A c \in Channel \ {ch} : pc'[c] = pc[c]
<1> DEFINE Goal ==
      /\ UNCHANGED <<idVars, sent, lastSent, repeated, overlapped, racing, restarts>>
      /\ pc[ch] \notin IdRegion /\ pc'[ch] \notin IdRegion
      /\ \A c \in Channel \ {ch} : pc'[c] = pc[c]
<1> SUFFICES Goal
  OBVIOUS
<1> USE DEF TypeOK, Goto, idVars, ghostVars, IdRegion
<1>1. ASSUME NEW frame \in Frames, NewFrame(ch, frame) PROVE Goal
  BY <1>1 DEF NewFrame
<1>2. CASE CheckStaff(ch) \/ Cancel(ch) \/ LogCancel(ch)
  BY <1>2 DEF CheckStaff, Cancel, LogCancel
<1>3. CASE CheckCooldown(ch) \/ ScanNothing(ch)
  BY <1>3 DEF CheckCooldown, ScanNothing
<1>4. CASE LogAlarm(ch) \/ Activate(ch) \/ StartCooldown(ch)
  BY <1>4 DEF LogAlarm, Activate, StartCooldown
<1>5. QED
  BY <1>1, <1>2, <1>3, <1>4 DEF Quiet

\* A step that leaves the ids alone and moves no thread into, within or out of
\* the steps that handle ids keeps what is known of them.
LEMMA IdsUntouched ==
  ASSUME RaceInv, IdInv, FileInv,
         UNCHANGED <<idVars, sent, lastSent, repeated, overlapped, racing, restarts>>,
         \A c \in Channel : \/ pc'[c] = pc[c]
                            \/ pc[c] \notin IdRegion /\ pc'[c] \notin IdRegion
  PROVE  RaceInv' /\ IdInv' /\ FileInv'
<1>1. \A c \in Channel, place \in IdRegion : pc'[c] = place <=> pc[c] = place
  OBVIOUS
<1>2. \A places \in SUBSET IdRegion : SomeoneAt(places)' <=> SomeoneAt(places)
  BY <1>1 DEF SomeoneAt
<1>3. \A c \in Channel, places \in SUBSET IdRegion :
        pc'[c] \in places <=> pc[c] \in places
  BY <1>1
<1>4. /\ Sending \in SUBSET IdRegion
      /\ Wrapping \in SUBSET IdRegion
      /\ {"load", "store"} \in SUBSET IdRegion
      /\ IdRegion \in SUBSET IdRegion
      /\ "publish" \in IdRegion /\ "store" \in IdRegion /\ "reset" \in IdRegion
  BY DEF IdRegion, Sending, Wrapping
<1>5. UNCHANGED <<id, idFile, payload, reg, sent, lastSent, repeated, overlapped,
                  racing, restarts>>
  BY DEF idVars
<1>6. Damaged' = Damaged
  BY <1>5 DEF Damaged
<1>7. RaceInv'
  BY <1>2, <1>4, <1>5, <1>6 DEF RaceInv
<1>8. /\ SomeoneAt(Sending)' <=> SomeoneAt(Sending)
      /\ SomeoneAt(Wrapping)' <=> SomeoneAt(Wrapping)
  BY <1>2, <1>4
<1>9. IdInv'
  BY <1>1, <1>3, <1>4, <1>5, <1>6, <1>8 DEF IdInv
<1>10. FileInv'
  BY <1>2, <1>3, <1>4, <1>5 DEF FileInv, Successor
<1>11. QED
  BY <1>7, <1>9, <1>10

\* No thread but ch is handling an id.
Alone(ch) == \A c \in Channel \ {ch} : pc[c] \notin IdRegion

\* What IdInv and FileInv say of such a state.
IdAt(ch) ==
  ~racing =>
    /\ ~repeated
    /\ IdMax \in sent => Damaged
    /\ \A n \in sent \ {IdMax} : n < id \/ (n = id /\ pc[ch] \in Sending)
    /\ id = IdMax /\ pc[ch] \notin Wrapping =>
         sent \subseteq IF pc[ch] \in Sending THEN {IdMax} ELSE {}
    /\ pc[ch] = "publish" => payload[ch] = id
    /\ pc[ch] = "store" => reg[ch] = id
    /\ pc[ch] = "reset" => id = IdMax

FileAt(ch) ==
  ~overlapped /\ ~IdFileMayFail =>
    /\ idFile # NoEntry /\ lastSent # NoEntry =>
         lastSent \in {idFile, Successor(idFile)}
    /\ \/ pc[ch] \in Wrapping
       \/ idFile = NoEntry
       \/ id \in {idFile, Successor(idFile)}
    /\ pc[ch] \in Sending => lastSent = id
    /\ pc[ch] \in {"load", "store"} => idFile = id
    /\ pc[ch] \in Wrapping => id = idFile + 1 /\ idFile = lastSent

LEMMA OnlyOne ==
  \A ch \in Channel : Alone(ch) => (IdInv <=> IdAt(ch)) /\ (FileInv <=> FileAt(ch))
<1> SUFFICES ASSUME NEW ch \in Channel, Alone(ch)
             PROVE  (IdInv <=> IdAt(ch)) /\ (FileInv <=> FileAt(ch))
  OBVIOUS
<1>1. \A places \in SUBSET IdRegion : SomeoneAt(places) <=> pc[ch] \in places
  BY DEF SomeoneAt, Alone
<1>2. /\ Sending \in SUBSET IdRegion
      /\ Wrapping \in SUBSET IdRegion
      /\ {"load", "store"} \in SUBSET IdRegion
  BY DEF IdRegion, Sending, Wrapping
<1>3. /\ SomeoneAt(Sending) <=> pc[ch] \in Sending
      /\ SomeoneAt(Wrapping) <=> pc[ch] \in Wrapping
  BY <1>1, <1>2
<1>4. /\ \A c \in Channel \ {ch} : pc[c] \notin {"publish", "store", "reset"}
      /\ \A c \in Channel \ {ch} : /\ pc[c] \notin Sending
                                   /\ pc[c] \notin Wrapping
                                   /\ pc[c] \notin {"load", "store"}
  BY <1>2 DEF Alone, IdRegion
<1>5. /\ \A c, d \in Channel : pc[c] \in IdRegion /\ pc[d] \in IdRegion => c = d
      /\ (\A c \in Channel : /\ pc[c] = "publish" => payload[c] = id
                             /\ pc[c] = "store" => reg[c] = id
                             /\ pc[c] = "reset" => id = IdMax)
           <=> /\ pc[ch] = "publish" => payload[ch] = id
               /\ pc[ch] = "store" => reg[ch] = id
               /\ pc[ch] = "reset" => id = IdMax
  BY <1>4 DEF Alone
<1>6. (\A c \in Channel :
         /\ pc[c] \in Sending => lastSent = id
         /\ pc[c] \in {"load", "store"} => idFile = id
         /\ pc[c] \in Wrapping => id = idFile + 1 /\ idFile = lastSent)
        <=> /\ pc[ch] \in Sending => lastSent = id
            /\ pc[ch] \in {"load", "store"} => idFile = id
            /\ pc[ch] \in Wrapping => id = idFile + 1 /\ idFile = lastSent
  BY <1>4
<1>7. QED
  BY <1>3, <1>5, <1>6 DEF IdInv, FileInv, IdAt, FileAt

\* The same of the next state.
LEMMA OnlyOneNext ==
  \A ch \in Channel :
    Alone(ch)' => (IdInv' <=> IdAt(ch)') /\ (FileInv' <=> FileAt(ch)')
<1>1. (\A ch \in Channel :
         Alone(ch) => (IdInv <=> IdAt(ch)) /\ (FileInv <=> FileAt(ch)))'
  BY OnlyOne, PTL
<1>2. QED
  BY <1>1

\* The steps of a raise that read or write an id, past its first.
Handles(ch) ==
  \/ Publish(ch) \/ OpenIdFile(ch) \/ OpenIdFileFails(ch)
  \/ WriteIdFile(ch) \/ LoadId(ch) \/ StoreId(ch) \/ CheckWrap(ch) \/ ResetId(ch)

\* They are taken from within the raise and move no other thread.
LEMMA HandlesPlace ==
  ASSUME TypeOK, NEW ch \in Channel, Handles(ch)
  PROVE  /\ pc[ch] \in IdRegion
         /\ \A c \in Channel \ {ch} : pc'[c] = pc[c]
         /\ UNCHANGED <<overlapped, racing, restarts>>
<1> USE DEF TypeOK, Goto, idVars, ghostVars, IdRegion
<1>1. CASE Publish(ch) \/ OpenIdFile(ch) \/ OpenIdFileFails(ch) \/ WriteIdFile(ch)
  BY <1>1 DEF Publish, OpenIdFile, OpenIdFileFails, WriteIdFile
<1>2. CASE LoadId(ch) \/ StoreId(ch) \/ CheckWrap(ch) \/ ResetId(ch)
  BY <1>2 DEF LoadId, StoreId, CheckWrap, ResetId
<1>3. QED
  BY <1>1, <1>2 DEF Handles

\* Unless there is a race, a thread that takes one of them is alone with the ids
\* before it and after it.
LEMMA HandlesAlone ==
  ASSUME TypeOK, IdInv, NEW ch \in Channel, Handles(ch), ~racing
  PROVE  Alone(ch) /\ Alone(ch)'
<1>1. Alone(ch)
  BY HandlesPlace DEF IdInv, Alone
<1>2. QED
  BY <1>1, HandlesPlace DEF Alone

\* In a race too, the counter stands at UINT32_MAX only while a thread is about to
\* set it back.
LEMMA HandlesRace ==
  ASSUME TypeOK, RaceInv, IdInv, NEW ch \in Channel, Handles(ch)
  PROVE  RaceInv'
<1> USE DEF TypeOK, Goto, idVars, ghostVars, RaceInv
<1>1. /\ \A c \in Channel \ {ch} : pc'[c] = pc[c]
      /\ UNCHANGED <<overlapped, racing, restarts>>
      /\ Damaged' <=> Damaged
  BY HandlesPlace DEF Damaged
<1>2. CASE Publish(ch) \/ OpenIdFile(ch) \/ OpenIdFileFails(ch) \/ LoadId(ch)
  <2>1. pc[ch] \notin Wrapping /\ id' = id /\ idFile' \in {idFile, NoEntry}
    BY <1>2 DEF Publish, OpenIdFile, OpenIdFileFails, LoadId, Wrapping
  <2>2. SomeoneAt(Wrapping) => SomeoneAt(Wrapping)'
    BY <1>1, <2>1 DEF SomeoneAt
  <2>3. QED
    BY <1>1, <2>1, <2>2, IdAssumption DEF NoEntry
<1>3. CASE WriteIdFile(ch)
  <2>1. pc[ch] = "write" /\ id' = id /\ idFile' = id
    BY <1>3 DEF WriteIdFile
  <2>2. SomeoneAt(Wrapping) => SomeoneAt(Wrapping)'
    BY <1>1, <2>1 DEF SomeoneAt, Wrapping
  <2>3. ~overlapped => id # IdMax
    <3>1. ~overlapped => Alone(ch)
      BY HandlesAlone
    <3>2. Alone(ch) => ~SomeoneAt(Wrapping)
      BY <2>1 DEF Alone, SomeoneAt, Wrapping, IdRegion
    <3>3. QED
      BY <3>1, <3>2 DEF Damaged
  <2>4. QED
    BY <1>1, <2>1, <2>2, <2>3
<1>4. CASE StoreId(ch)
  BY <1>1, <1>4 DEF StoreId, SomeoneAt, Wrapping
<1>5. CASE CheckWrap(ch)
  <2>1. pc'[ch] = (IF id = IdMax THEN "reset" ELSE "log") /\ UNCHANGED <<id, idFile>>
    BY <1>5 DEF CheckWrap
  <2>2. QED
    BY <1>1, <2>1 DEF SomeoneAt, Wrapping
<1>6. CASE ResetId(ch)
  BY <1>1, <1>6, IdAssumption DEF ResetId
<1>7. QED
  BY <1>2, <1>3, <1>4, <1>5, <1>6 DEF Handles

\* Each of them keeps what is known of the ids.
LEMMA HandlesStep ==
  ASSUME TypeOK, RaceInv, IdInv, FileInv, NEW ch \in Channel, Handles(ch)
  PROVE  IdInv' /\ FileInv'
<1>0. UNCHANGED <<overlapped, racing, restarts>>
  BY HandlesPlace
<1>1. CASE racing
  BY <1>0, <1>1 DEF IdInv, FileInv, RaceInv
<1>2. CASE ~racing
  <2>1. Alone(ch) /\ Alone(ch)'
    BY <1>2, HandlesAlone
  <2>2. IdAt(ch) /\ FileAt(ch)
    BY <2>1, OnlyOne
  <2>3. /\ id \in 0 .. IdMax /\ idFile \in (0 .. IdMax) \cup {-1} /\ IdMax \in Nat \ {0}
        /\ sent \subseteq 0 .. IdMax /\ reg[ch] \in 0 .. IdMax
        /\ lastSent \in (0 .. IdMax) \cup {-1}
    BY IdAssumption DEF TypeOK, Id, NoEntry
  <2>4. id = IdMax => pc[ch] \in Wrapping \/ Damaged
    BY <2>1 DEF RaceInv, SomeoneAt, Alone, Wrapping, IdRegion
  <2>5. Damaged' <=> Damaged
    BY <1>0 DEF Damaged
  <2>6. Damaged => overlapped
    BY DEF Damaged
  <2>7. IdAt(ch)' /\ FileAt(ch)'
    <3> USE <1>0, <1>2, <2>2, <2>3, <2>4, <2>5, <2>6
        DEF TypeOK, Goto, idVars, ghostVars, IdAt, FileAt, Successor, NoEntry,
            Sending, Wrapping
    <3>1. CASE Publish(ch)
      <4>1. /\ pc[ch] = "publish" /\ pc'[ch] = "open" /\ payload[ch] = id
            /\ sent' = sent \cup {id} /\ id \notin sent /\ ~repeated' /\ lastSent' = id
            /\ UNCHANGED <<id, idFile>>
        BY <3>1 DEF Publish
      <4>2. IdAt(ch)'
        BY <4>1
      <4>3. FileAt(ch)'
        BY <4>1
      <4>4. QED
        BY <4>2, <4>3
    <3>2. CASE OpenIdFile(ch)
      BY <3>2 DEF OpenIdFile
    <3>3. CASE OpenIdFileFails(ch)
      BY <3>3 DEF OpenIdFileFails
    <3>4. CASE WriteIdFile(ch)
      BY <3>4 DEF WriteIdFile
    <3>5. CASE LoadId(ch)
      BY <3>5 DEF LoadId
    <3>6. CASE StoreId(ch)
      <4>1. /\ pc[ch] = "store" /\ pc'[ch] = "wrap"
            /\ id' = (id + 1) % (IdMax + 1)
            /\ UNCHANGED <<idFile, sent, lastSent, repeated>>
        BY <3>6 DEF StoreId
      <4>2. CASE id < IdMax
        <5>1. id + 1 \in Nat /\ IdMax + 1 \in Nat /\ id + 1 < IdMax + 1
          BY <4>2
        <5>2. (id + 1) % (IdMax + 1) = id + 1
          BY <5>1, ModSmall
        <5>3. id' = id + 1
          BY <4>1, <5>2
        <5>4. \A n \in sent \ {IdMax} : n <= id
          OBVIOUS
        <5>5. IdAt(ch)'
          BY <4>1, <4>2, <5>3, <5>4
        <5>6. FileAt(ch)'
          BY <4>1, <5>3
        <5>7. QED
          BY <5>5, <5>6
      <4>3. CASE id = IdMax
        <5>1. 0 \in Nat /\ IdMax + 1 \in Nat /\ 0 < IdMax + 1
          OBVIOUS
        <5>2. (0 + (IdMax + 1)) % (IdMax + 1) = 0
          BY <5>1, ModRound
        <5>3. id' = 0
          BY <4>1, <4>3, <5>2
        <5>4. QED
          BY <4>1, <4>3, <5>3
      <4>4. QED
        BY <4>2, <4>3
    <3>7. CASE CheckWrap(ch)
      BY <3>7 DEF CheckWrap
    <3>8. CASE ResetId(ch)
      BY <3>8 DEF ResetId
    <3>9. QED
      BY <3>1, <3>2, <3>3, <3>4, <3>5, <3>6, <3>7, <3>8 DEF Handles
  <2>8. QED
    BY <2>1, <2>7, OnlyOneNext
<1>3. QED
  BY <1>1, <1>2

\* A raise that begins is alone with the ids, and forgets what a race has sent, or
\* it begins a race.
LEMMA ScanHitIds ==
  ASSUME TypeOK, RaceInv, IdInv, FileInv, NEW ch \in Channel, ScanHit(ch)
  PROVE  RaceInv' /\ IdInv' /\ FileInv'
<1>1. /\ pc[ch] = "scan" /\ pc'[ch] = "publish"
      /\ \A c \in Channel \ {ch} : pc'[c] = pc[c]
      /\ payload'[ch] = id
      /\ racing' = \E c \in Channel : pc[c] \in IdRegion
      /\ overlapped' = (overlapped \/ racing')
      /\ sent' = IF racing /\ ~racing' THEN {} ELSE sent
      /\ repeated' = (repeated /\ (racing => racing'))
      /\ UNCHANGED <<id, idFile, reg, lastSent, restarts>>
  BY DEF ScanHit, Goto, TypeOK
<1>2. Damaged => Damaged'
  BY <1>1 DEF Damaged
<1>3. RaceInv'
  <2>1. SomeoneAt(Wrapping) => SomeoneAt(Wrapping)'
    BY <1>1 DEF SomeoneAt, Wrapping
  <2>2. racing' => overlapped'
    BY <1>1
  <2>3. ~overlapped' => idFile' # IdMax
    BY <1>1 DEF RaceInv
  <2>4. id' = IdMax => SomeoneAt(Wrapping)' \/ Damaged'
    BY <1>1, <1>2, <2>1 DEF RaceInv
  <2>5. QED
    BY <2>2, <2>3, <2>4 DEF RaceInv
<1>4. CASE racing'
  <2>1. overlapped'
    BY <1>1, <1>4
  <2>2. QED
    BY <1>3, <1>4, <2>1 DEF IdInv, FileInv
<1>5. CASE ~racing'
  <2>1. Alone(ch) /\ Alone(ch)'
    BY <1>1, <1>5 DEF Alone
  <2>2. IdAt(ch) /\ FileAt(ch)
    BY <2>1, OnlyOne
  <2>3. /\ pc[ch] \notin Sending /\ pc[ch] \notin Wrapping
        /\ pc'[ch] \notin Sending /\ pc'[ch] \notin Wrapping
    BY <1>1 DEF Sending, Wrapping
  <2>4. IdAt(ch)'
    <3>1. CASE racing
      <4>1. sent' = {} /\ ~repeated'
        BY <1>1, <1>5, <3>1
      <4>2. QED
        BY <1>1, <2>3, <4>1 DEF IdAt
    <3>2. CASE ~racing
      <4>1. sent' = sent /\ ~repeated'
        BY <1>1, <2>2, <3>2 DEF IdAt
      <4>2. QED
        BY <1>1, <1>2, <2>2, <2>3, <3>2, <4>1 DEF IdAt
    <3>3. QED
      BY <3>1, <3>2
  <2>5. FileAt(ch)'
    BY <1>1, <1>5, <2>2, <2>3 DEF FileAt, Successor
  <2>6. QED
    BY <1>3, <2>1, <2>4, <2>5, OnlyOneNext
<1>6. QED
  BY <1>4, <1>5

\* A restart, which happens between any two steps of a raise, keeps it too: the
\* counter is what the file held, which is the largest id only after a race.
LEMMA RestartIds ==
  ASSUME TypeOK, RaceInv, IdInv, FileInv, Restart
  PROVE  RaceInv' /\ IdInv' /\ FileInv'
<1>1. /\ \A c \in Channel : pc'[c] = "idle"
      /\ sent' = {} /\ id' = IF idFile = NoEntry THEN 0 ELSE idFile
      /\ restarts' = restarts + 1
      /\ UNCHANGED <<idFile, lastSent, repeated, overlapped, racing>>
  BY DEF Restart
<1>2. /\ IdMax \in Nat \ {0} /\ idFile \in Id \cup {NoEntry}
      /\ restarts \in Nat
  BY IdAssumption, FlagAssumption DEF TypeOK
<1>3. RaceInv'
  BY <1>1, <1>2 DEF RaceInv, Damaged
<1>4. IdInv'
  BY <1>1, <1>2 DEF IdInv, IdRegion
<1>5. FileInv'
  BY <1>1, <1>2 DEF FileInv, Successor, Sending, Wrapping
<1>6. QED
  BY <1>3, <1>4, <1>5

\* What is known of the ids holds in every behaviour.
LEMMA IdsKept == Spec => [](RaceInv /\ IdInv /\ FileInv)
<1>1. Init => RaceInv /\ IdInv /\ FileInv
  BY IdAssumption
     DEF Init, RaceInv, IdInv, FileInv, SomeoneAt, Sending, Wrapping, IdRegion, NoEntry
<1>2. TypeOK /\ RaceInv /\ IdInv /\ FileInv /\ [Next]_vars
        => RaceInv' /\ IdInv' /\ FileInv'
  <2> SUFFICES ASSUME TypeOK, RaceInv, IdInv, FileInv, [Next]_vars
               PROVE  RaceInv' /\ IdInv' /\ FileInv'
    OBVIOUS
  <2>1. ASSUME NEW ch \in Channel, Quiet(ch) PROVE RaceInv' /\ IdInv' /\ FileInv'
    <3>1. /\ UNCHANGED <<idVars, sent, lastSent, repeated, overlapped, racing, restarts>>
          /\ \A c \in Channel : \/ pc'[c] = pc[c]
                                \/ pc[c] \notin IdRegion /\ pc'[c] \notin IdRegion
      BY <2>1, QuietStep
    <3>2. QED
      BY <3>1, IdsUntouched
  <2>2. ASSUME NEW ch \in Channel, Handles(ch) PROVE RaceInv' /\ IdInv' /\ FileInv'
    BY <2>2, HandlesRace, HandlesStep
  <2>3. ASSUME NEW ch \in Channel, ScanHit(ch) PROVE RaceInv' /\ IdInv' /\ FileInv'
    BY <2>3, ScanHitIds
  <2>4. CASE Tick
    BY <2>4, IdsUntouched DEF Tick
  <2>5. CASE Restart
    BY <2>5, RestartIds
  <2>6. CASE UNCHANGED vars
    BY <2>6, IdsUntouched DEF vars, stateVars, idVars, ghostVars
  <2>7. QED
    BY <2>1, <2>2, <2>3, <2>4, <2>5, <2>6
       DEF Next, Thread, ProcessChannelAlarms, Quiet, Handles
<1>3. QED
  BY <1>1, <1>2, TypeCorrect, PTL DEF Spec

\* For every width of the counter, every number of threads and every race of them:
\* once a raise has found no other under way the ids sent differ from each other
\* again, and the largest one is sent only after a start from a damaged file.
THEOREM IdsAreSentOnce == Spec => []IdsSentOnce
<1>1. IdInv => IdsSentOnce
  BY DEF IdInv, IdsSentOnce, Damaged
<1>2. QED
  BY <1>1, IdsKept, PTL

\* Likewise, the file is at most one message behind the broker and never ahead of
\* it, wherever the program is killed.
THEOREM IdFileIsNotAhead == Spec => []IdFileNotAhead
<1>1. TypeOK /\ RaceInv /\ FileInv => IdFileNotAhead
  <2> SUFFICES ASSUME TypeOK, RaceInv, FileInv, ~overlapped, ~IdFileMayFail,
                      idFile # NoEntry, lastSent # NoEntry
               PROVE  idFile \in {lastSent, (lastSent + IdMax - 1) % IdMax}
    BY DEF IdFileNotAhead
  <2>1. IdMax \in Nat \ {0} /\ idFile \in 0 .. IdMax - 1
    BY IdAssumption DEF TypeOK, RaceInv, Id
  <2>2. lastSent = idFile \/ lastSent = Successor(idFile)
    BY DEF FileInv
  <2>3. CASE lastSent = Successor(idFile) /\ idFile + 1 = IdMax
    <3>1. (lastSent + IdMax - 1) % IdMax = IdMax - 1
      BY <2>1, <2>3, ModSmall DEF Successor
    <3>2. QED
      BY <2>1, <2>3, <3>1
  <2>4. CASE lastSent = Successor(idFile) /\ idFile + 1 # IdMax
    <3>1. lastSent + IdMax - 1 = idFile + IdMax
      BY <2>1, <2>4 DEF Successor
    <3>2. (idFile + IdMax) % IdMax = idFile
      BY <2>1, ModRound
    <3>3. (lastSent + IdMax - 1) % IdMax = idFile
      BY <3>1, <3>2, Zenon
    <3>4. QED
      BY <3>3, Zenon
  <2>5. QED
    BY <2>2, <2>3, <2>4
<1>2. QED
  BY <1>1, TypeCorrect, IdsKept, PTL

=============================================================================
