---------------------------- MODULE AlarmManager ----------------------------
(***************************************************************************)
(* The alarm manager (src/src/alarm/alarmManager.cpp) as the channel       *)
(* threads use it: one thread per camera channel calls                     *)
(* process_channel_alarms() on every inferred frame, all threads sharing   *)
(* one AlarmManager object.                                                *)
(*                                                                         *)
(* Grain of atomicity: one action per access to shared memory.  The maps   *)
(* active_channels and channel_cooldowns are protected by a mutex each, so *)
(* a critical section is one action; the counter `id' is a plain uint32_t  *)
(* that no lock protects, so each read and each write of it is an action   *)
(* (the build passes no -O flag, every access in the source is a load or a *)
(* store); opening id.bin truncates it, writing it is a later action.      *)
(*                                                                         *)
(* Time: only `now - t' is ever compared, with cooltime and with the grace *)
(* period, so a time point is kept as its age in seconds, saturating at    *)
(* AgeCap, and Tick makes every age one second older.                      *)
(***************************************************************************)
EXTENDS Integers, Sequences, FiniteSets, AlarmRules

CONSTANTS
  Channel,         \* the camera channels, one routine thread each
  Class,           \* the classes the detector reports
  Staff,           \* STAFF_CLASS_ID
  Frames,          \* detection results a frame may have: sets of classes
  Alarms,          \* the alarm vector: records [target, holds]
  CoolTime,        \* cooltime, in seconds
  Grace,           \* ALARM_GRACE_PERIOD_SEC
  IdMax,           \* UINT32_MAX
  IdFileMayFail,   \* TRUE iff opening id.bin may fail
  MaxRestarts      \* bound on the number of restarts of the program

ASSUME FrameAssumption ==
  /\ Staff \in Class
  /\ Frames \subseteq SUBSET Class
  /\ Alarms \in Seq([target : Channel, holds : SUBSET (SUBSET Class)])
ASSUME TimeAssumption == CoolTime \in Nat /\ Grace \in Nat
ASSUME IdAssumption == IdMax \in Nat \ {0}
ASSUME FlagAssumption ==
  IdFileMayFail \in BOOLEAN /\ MaxRestarts \in Nat

VARIABLES
  pc,         \* where each thread is in process_channel_alarms
  detected,   \* detected_class of each channel's last inferred frame
  history,    \* detected_class_history of each channel
  active,     \* active_channels: age of the entry of a channel, or NoEntry
  cooldown,   \* channel_cooldowns: age of the entry of a channel, or NoEntry
  id,         \* the shared counter AlarmManager::id
  idFile,     \* the content of resource/id.bin; NoEntry if absent or empty
  payload,    \* j["id"] of the message a thread is building
  reg,        \* the value `this->id++' has loaded and not yet stored
  lastLine,   \* level of the newest log line about each channel, an earlier
              \* run's included
  restarts    \* how often the program was restarted

\* History variables: they record what was sent and steer no action.
VARIABLES
  sincePublish,  \* age of each channel's last call of publish
  sent,          \* the ids sent since the program started, the counter wrapped or
                 \* the last race was over
  lastSent,      \* the id sent last, NoEntry if none
  repeated,      \* TRUE once an id was sent that was in `sent' already
  overlapped,    \* TRUE once two threads were raising at the same time
  racing         \* TRUE from then on until a raise finds no other under way

stateVars == <<pc, detected, history, active, cooldown, id, idFile, payload,
               reg, lastLine, restarts>>
idVars    == <<id, idFile, payload, reg>>
ghostVars == <<sincePublish, sent, lastSent, repeated, overlapped, racing>>
vars      == <<stateVars, ghostVars>>

NoEntry == -1
AgeCap  == IF CoolTime > Grace THEN CoolTime ELSE Grace
Age     == 0 .. AgeCap
Id      == 0 .. IdMax
Levels  == {"none", "INFO", "ALARM"}

\* A raise holds or is about to change the id counter in these steps.
IdRegion == {"publish", "open", "write", "load", "store", "wrap", "reset"}

PC == {"idle", "staff", "cancel", "cancelLog", "cooldown", "scan",
       "log", "activate", "start"} \cup IdRegion

-----------------------------------------------------------------------------
(***************************************************************************)
(* Helpers.                                                                *)
(***************************************************************************)
Older(age) == IF age = NoEntry THEN NoEntry
              ELSE IF age < AgeCap THEN age + 1 ELSE AgeCap

\* The alarms of a channel whose condition persists, by index in the vector.
Matching(ch) == {i \in DOMAIN Alarms : /\ Alarms[i].target = ch
                                       /\ Persists(Alarms[i].holds, history[ch])}

OnCooldown(ch) == cooldown[ch] # NoEntry /\ cooldown[ch] < CoolTime

\* Mutant of CanCancel: the grace period is not looked at.
CanCancelAtOnce(ch) == Staff \in detected[ch] /\ active[ch] # NoEntry

\* Mutant of CanCancel: only the very second the grace period ends will do.
CanCancelInTime(ch) == Staff \in detected[ch] /\ active[ch] = Grace

CanCancel(ch) == /\ Staff \in detected[ch]
                 /\ active[ch] # NoEntry
                 /\ active[ch] >= Grace

\* Moves thread ch from one step of process_channel_alarms to another.
Goto(ch, from, to) == pc[ch] = from /\ pc' = [pc EXCEPT ![ch] = to]

-----------------------------------------------------------------------------
(***************************************************************************)
(* The caller: a frame of channel ch was inferred; it is appended to the   *)
(* history and process_channel_alarms is called on it.                     *)
(***************************************************************************)
NewFrame(ch, frame) ==
  /\ Goto(ch, "idle", "staff")
  /\ detected' = [detected EXCEPT ![ch] = frame]
  /\ history'  = [history EXCEPT ![ch] = PushFrame(@, frame)]
  /\ UNCHANGED <<active, cooldown, idVars, lastLine, restarts, ghostVars>>

\* The block on is_staff_detected: active_channels is read under its mutex,
\* which is released before the entry is erased.
CheckStaff(ch) ==
  /\ Goto(ch, "staff", IF CanCancel(ch) THEN "cancel" ELSE "cooldown")
  /\ UNCHANGED <<detected, history, active, cooldown, idVars, lastLine,
                 restarts, ghostVars>>

\* Mutant of Cancel: the cooldown is forgotten together with the alarm.
CancelForgetsCooldown(ch) ==
  /\ Goto(ch, "cancel", "cancelLog")
  /\ active'   = [active EXCEPT ![ch] = NoEntry]
  /\ cooldown' = [cooldown EXCEPT ![ch] = NoEntry]
  /\ UNCHANGED <<detected, history, idVars, lastLine, restarts, ghostVars>>

\* Mutant of Cancel: the entry is restarted instead of erased.
CancelKeepsEntry(ch) ==
  /\ Goto(ch, "cancel", "cancelLog")
  /\ active' = [active EXCEPT ![ch] = 0]
  /\ UNCHANGED <<detected, history, cooldown, idVars, lastLine, restarts,
                 ghostVars>>

\* cancel_alarm, its critical section.
Cancel(ch) ==
  /\ Goto(ch, "cancel", "cancelLog")
  /\ active' = [active EXCEPT ![ch] = NoEntry]
  /\ UNCHANGED <<detected, history, cooldown, idVars, lastLine, restarts,
                 ghostVars>>

\* cancel_alarm, its log line; process_channel_alarms returns 0.
LogCancel(ch) ==
  /\ Goto(ch, "cancelLog", "idle")
  /\ lastLine' = [lastLine EXCEPT ![ch] = "INFO"]
  /\ UNCHANGED <<detected, history, active, cooldown, idVars, restarts,
                 ghostVars>>

\* Mutant of CheckCooldown: a suppressed alarm restarts the cooldown.
CheckCooldownSlides(ch) ==
  /\ Goto(ch, "cooldown", IF OnCooldown(ch) THEN "idle" ELSE "scan")
  /\ cooldown' = [cooldown EXCEPT ![ch] = IF OnCooldown(ch) THEN 0 ELSE NoEntry]
  /\ UNCHANGED <<detected, history, active, idVars, lastLine, restarts,
                 ghostVars>>

\* is_on_cooldown: an expired entry is erased; on cooldown the call returns -1.
CheckCooldown(ch) ==
  /\ Goto(ch, "cooldown", IF OnCooldown(ch) THEN "idle" ELSE "scan")
  /\ cooldown' = [cooldown EXCEPT ![ch] = IF OnCooldown(ch) THEN @ ELSE NoEntry]
  /\ UNCHANGED <<detected, history, active, idVars, lastLine, restarts,
                 ghostVars>>

\* The loop over the alarms finds none: the call returns 0.
ScanNothing(ch) ==
  /\ Goto(ch, "scan", "idle")
  /\ Matching(ch) = {}
  /\ UNCHANGED <<detected, history, active, cooldown, idVars, lastLine,
                 restarts, ghostVars>>

\* The loop finds an alarm and builds its message, reading the shared id.  What
\* was sent in a race is forgotten by the first raise that no other overlaps.
ScanHit(ch) ==
  /\ Goto(ch, "scan", "publish")
  /\ Matching(ch) # {}
  /\ payload' = [payload EXCEPT ![ch] = id]
  /\ racing' = \E c \in Channel : pc[c] \in IdRegion
  /\ overlapped' = (overlapped \/ racing')
  /\ sent' = IF racing /\ ~racing' THEN {} ELSE sent
  /\ repeated' = (repeated /\ (racing => racing'))
  /\ UNCHANGED <<detected, history, active, cooldown, id, idFile, reg, lastLine,
                 restarts, sincePublish, lastSent>>

\* MqttManager::publish: whether the message reaches the broker or is dropped,
\* the call has no result.
Publish(ch) ==
  /\ Goto(ch, "publish", "open")
  /\ sincePublish' = [sincePublish EXCEPT ![ch] = 0]
  /\ lastSent'     = payload[ch]
  /\ sent'         = sent \cup {payload[ch]}
  /\ repeated'     = (repeated \/ payload[ch] \in sent)
  /\ UNCHANGED <<detected, history, active, cooldown, idVars, lastLine,
                 restarts, overlapped, racing>>

\* Opening id.bin for writing truncates it.
OpenIdFile(ch) ==
  /\ Goto(ch, "open", "write")
  /\ idFile' = NoEntry
  /\ UNCHANGED <<detected, history, active, cooldown, id, payload, reg,
                 lastLine, restarts, ghostVars>>

\* id.bin cannot be opened: it keeps what it held.
OpenIdFileFails(ch) ==
  /\ IdFileMayFail
  /\ Goto(ch, "open", "load")
  /\ UNCHANGED <<detected, history, active, cooldown, idVars, lastLine,
                 restarts, ghostVars>>

\* Mutant of WriteIdFile: the counter's next value is saved.
WriteNextId(ch) ==
  /\ Goto(ch, "write", "load")
  /\ idFile' = (id + 1) % (IdMax + 1)
  /\ UNCHANGED <<detected, history, active, cooldown, id, payload, reg,
                 lastLine, restarts, ghostVars>>

WriteIdFile(ch) ==
  /\ Goto(ch, "write", "load")
  /\ idFile' = id
  /\ UNCHANGED <<detected, history, active, cooldown, id, payload, reg,
                 lastLine, restarts, ghostVars>>

\* this->id++, its load ...
LoadId(ch) ==
  /\ Goto(ch, "load", "store")
  /\ reg' = [reg EXCEPT ![ch] = id]
  /\ UNCHANGED <<detected, history, active, cooldown, id, idFile, payload,
                 lastLine, restarts, ghostVars>>

\* ... and its store, in unsigned arithmetic of the counter's width.
StoreId(ch) ==
  /\ Goto(ch, "store", "wrap")
  /\ id' = (reg[ch] + 1) % (IdMax + 1)
  /\ UNCHANGED <<detected, history, active, cooldown, idFile, payload, reg,
                 lastLine, restarts, ghostVars>>

\* Mutant of CheckWrap: the counter is left to overflow by itself.
CheckWrapNever(ch) ==
  /\ Goto(ch, "wrap", "log")
  /\ UNCHANGED <<detected, history, active, cooldown, idVars, lastLine,
                 restarts, ghostVars>>

\* if (this->id == UINT32_MAX) ...
CheckWrap(ch) ==
  /\ Goto(ch, "wrap", IF id = IdMax THEN "reset" ELSE "log")
  /\ UNCHANGED <<detected, history, active, cooldown, idVars, lastLine,
                 restarts, ghostVars>>

\* ... this->id = 0: the ids start over.
ResetId(ch) ==
  /\ Goto(ch, "reset", "log")
  /\ id' = 0
  /\ sent' = {}
  /\ UNCHANGED <<detected, history, active, cooldown, idFile, payload, reg,
                 lastLine, restarts, sincePublish, lastSent, repeated,
                 overlapped, racing>>

\* Mutant of LogAlarm: an alarm that is active already is left alone.
LogAlarmSkips(ch) ==
  /\ Goto(ch, "log", IF active[ch] = NoEntry THEN "activate" ELSE "start")
  /\ lastLine' = [lastLine EXCEPT ![ch] = "ALARM"]
  /\ UNCHANGED <<detected, history, active, cooldown, idVars, restarts,
                 ghostVars>>

LogAlarm(ch) ==
  /\ Goto(ch, "log", "activate")
  /\ lastLine' = [lastLine EXCEPT ![ch] = "ALARM"]
  /\ UNCHANGED <<detected, history, active, cooldown, idVars, restarts,
                 ghostVars>>

\* Mutant of Activate: emplace, which keeps an entry that is there already.
ActivateOnce(ch) ==
  /\ Goto(ch, "activate", "start")
  /\ active' = [active EXCEPT ![ch] = IF @ = NoEntry THEN 0 ELSE @]
  /\ UNCHANGED <<detected, history, cooldown, idVars, lastLine, restarts,
                 ghostVars>>

\* active_channels[channel_id] = now, also when an entry is there already.
Activate(ch) ==
  /\ Goto(ch, "activate", "start")
  /\ active' = [active EXCEPT ![ch] = 0]
  /\ UNCHANGED <<detected, history, cooldown, idVars, lastLine, restarts,
                 ghostVars>>

\* start_cooldown; process_channel_alarms returns 1.
StartCooldown(ch) ==
  /\ Goto(ch, "start", "idle")
  /\ cooldown' = [cooldown EXCEPT ![ch] = 0]
  /\ UNCHANGED <<detected, history, active, idVars, lastLine, restarts,
                 ghostVars>>

\* One second passes, wherever the threads are.
Tick ==
  /\ active'       = [ch \in Channel |-> Older(active[ch])]
  /\ cooldown'     = [ch \in Channel |-> Older(cooldown[ch])]
  /\ sincePublish' = [ch \in Channel |-> Older(sincePublish[ch])]
  /\ UNCHANGED <<pc, detected, history, idVars, lastLine, restarts, sent,
                  lastSent, repeated, overlapped, racing>>

\* The program dies wherever its threads are and is started again: the
\* constructor reads id.bin, leaving id at 0 when there is nothing to read; main
\* loads the log lines that were saved, so that the newest one about a channel may
\* be any it has had (the file is up to a save behind, or cut short).
Restart ==
  /\ restarts < MaxRestarts
  /\ restarts' = restarts + 1
  /\ pc'           = [ch \in Channel |-> "idle"]
  /\ detected'     = [ch \in Channel |-> {}]
  /\ history'      = [ch \in Channel |-> <<>>]
  /\ active'       = [ch \in Channel |-> NoEntry]
  /\ cooldown'     = [ch \in Channel |-> NoEntry]
  /\ id'           = IF idFile = NoEntry THEN 0 ELSE idFile
  /\ payload'      = [ch \in Channel |-> 0]
  /\ reg'          = [ch \in Channel |-> 0]
  /\ lastLine'     \in [Channel -> Levels]
  /\ sincePublish' = [ch \in Channel |-> NoEntry]
  /\ sent'         = {}
  /\ UNCHANGED <<idFile, lastSent, repeated, overlapped, racing>>

-----------------------------------------------------------------------------
Init ==
  /\ pc           = [ch \in Channel |-> "idle"]
  /\ detected     = [ch \in Channel |-> {}]
  /\ history      = [ch \in Channel |-> <<>>]
  /\ active       = [ch \in Channel |-> NoEntry]
  /\ cooldown     = [ch \in Channel |-> NoEntry]
  /\ id           = 0
  /\ idFile       = NoEntry
  /\ payload      = [ch \in Channel |-> 0]
  /\ reg          = [ch \in Channel |-> 0]
  /\ lastLine     \in [Channel -> Levels]
  /\ restarts     = 0
  /\ sincePublish = [ch \in Channel |-> NoEntry]
  /\ sent         = {}
  /\ lastSent     = NoEntry
  /\ repeated     = FALSE
  /\ overlapped   = FALSE
  /\ racing       = FALSE

\* process_channel_alarms, from its call to its return.
ProcessChannelAlarms(ch) ==
  \/ CheckStaff(ch) \/ Cancel(ch) \/ LogCancel(ch)
  \/ CheckCooldown(ch) \/ ScanNothing(ch) \/ ScanHit(ch)
  \/ Publish(ch)
  \/ OpenIdFile(ch) \/ OpenIdFileFails(ch) \/ WriteIdFile(ch)
  \/ LoadId(ch) \/ StoreId(ch) \/ CheckWrap(ch) \/ ResetId(ch)
  \/ LogAlarm(ch) \/ Activate(ch) \/ StartCooldown(ch)

Thread(ch) == \/ \E frame \in Frames : NewFrame(ch, frame)
              \/ ProcessChannelAlarms(ch)

Next == (\E ch \in Channel : Thread(ch)) \/ Tick \/ Restart

Spec == Init /\ [][Next]_vars

\* The operating system runs every thread that can run, and time passes: every
\* turn of a thread's loop sleeps.
Fairness == (\A ch \in Channel : WF_vars(Thread(ch))) /\ SF_vars(Tick)

FairSpec == Spec /\ Fairness

-----------------------------------------------------------------------------
(***************************************************************************)
(* Properties.                                                             *)
(***************************************************************************)
AgeOrNone == Age \cup {NoEntry}

\* Every variable has its type; the history is as long as the caller lets it
\* grow (main.cpp:345).
TypeOK ==
  /\ pc \in [Channel -> PC]
  /\ detected \in [Channel -> SUBSET Class]
  /\ history \in [Channel -> Seq(SUBSET Class)]
  /\ \A ch \in Channel : Len(history[ch]) < HistoryCap
  /\ active \in [Channel -> AgeOrNone]
  /\ cooldown \in [Channel -> AgeOrNone]
  /\ id \in Id
  /\ idFile \in Id \cup {NoEntry}
  /\ payload \in [Channel -> Id]
  /\ reg \in [Channel -> Id]
  /\ lastLine \in [Channel -> Levels]
  /\ restarts \in 0 .. MaxRestarts
  /\ sincePublish \in [Channel -> AgeOrNone]
  /\ sent \subseteq Id
  /\ lastSent \in Id \cup {NoEntry}
  /\ repeated \in BOOLEAN
  /\ overlapped \in BOOLEAN
  /\ racing \in BOOLEAN

\* The steps of a raise that follow the publish call.
AfterPublish == {"open", "write", "load", "store", "wrap", "reset", "log",
                 "activate", "start"}

Spaced(ch) == sincePublish[ch] = NoEntry \/ sincePublish[ch] >= CoolTime

\* Two notifications of one channel are at least `cooltime' apart, even though
\* the cooldown is only started several steps after the notification and
\* however long the thread is delayed in between (alarmManager.cpp:144-195).
RaiseSpacing == \A ch \in Channel : pc[ch] = "publish" => Spaced(ch)

\* An active alarm goes away only when the program restarts, or when staff is in
\* the frame being processed and the grace period of the alarm is over, although
\* the lock is released between the check and the erasure
\* (alarmManager.cpp:118-141, 87-92).
CancelRespectsGrace ==
  [][\A ch \in Channel :
       active[ch] # NoEntry /\ active'[ch] = NoEntry =>
         \/ restarts' # restarts
         \/ Staff \in detected[ch] /\ active[ch] >= Grace]_vars

\* The grace period of an active alarm runs from its newest notification: the
\* entry is never older than the notification, and the cooldown never older than
\* the entry, once the call that raised it has returned
\* (alarmManager.cpp:170, 190-195).
GraceFromNewestNotification ==
  \A ch \in Channel :
    pc[ch] \notin AfterPublish /\ active[ch] # NoEntry =>
      /\ sincePublish[ch] # NoEntry /\ active[ch] <= sincePublish[ch]
      /\ cooldown[ch] # NoEntry => cooldown[ch] <= active[ch]

\* The newest log line about a channel with an active alarm is that of an alarm;
\* and when it is, either the alarm is active, or a call is just about to enter or
\* to log what it has changed, or the channel has raised nothing since the program
\* was started and the line is one that it loaded: the operator's page is fed from
\* the log, the overlay from active_channels
\* (alarmManager.cpp:87-97, 186-193; main.cpp:109).
LogAgreesWithActive ==
  \A ch \in Channel :
    /\ active[ch] # NoEntry => lastLine[ch] = "ALARM"
    /\ lastLine[ch] = "ALARM" =>
         \/ active[ch] # NoEntry
         \/ pc[ch] \in (AfterPublish \ {"start"}) \cup {"cancelLog"}
         \/ sincePublish[ch] = NoEntry

\* A race of two raises over the counter does not outlast them: the ids sent since
\* the last one was over differ from each other until the counter starts over, and
\* UINT32_MAX is sent only by a program that was started from a file written in a
\* race (alarmManager.cpp:158, 179-184).
IdsSentOnce ==
  ~racing => /\ ~repeated
             /\ IdMax \in sent => overlapped /\ restarts > 0

\* As long as no two threads raise at the same time and id.bin can be opened, the
\* file is never ahead of the messages: it holds the id sent last or, while that
\* message is being sent, the one before it.  So a restart sends an id again
\* rather than leaving one out (alarmManager.cpp:13-21, 172-179).
IdFileNotAhead ==
  ~overlapped /\ ~IdFileMayFail /\ idFile # NoEntry /\ lastSent # NoEntry =>
    idFile \in {lastSent, (lastSent + IdMax - 1) % IdMax}

\* The manager implements AlarmContract: process_channel_alarms, in whatever
\* steps its threads interleave, does no more than notify, hold and release
\* (alarmManager.cpp:112-201).
Contract == INSTANCE AlarmContract WITH
  notified <- sincePublish,
  held     <- active,
  due      <- {ch \in Channel : pc[ch] \in AfterPublish \ {"start"}},
  starts   <- restarts

Implements == Contract!Spec

\* A condition that stays true has its alarm active again and again, whatever was
\* cancelled or still cooling down when it began: the cooldown always runs out
\* (alarmManager.cpp:52-67, 144-195).
AlarmIsRaised ==
  \A i \in DOMAIN Alarms :
    <>[](detected[Alarms[i].target] \in Alarms[i].holds)
      => []<>(active[Alarms[i].target] # NoEntry)

\* What the comment on the cooldown check says, that no new alarm is looked for
\* while one is active (alarmManager.cpp:143).  It is not so: only the cooldown is
\* asked, and an alarm may stay active longer than that.
NoAlarmWhileActive ==
  \A ch \in Channel : pc[ch] \in {"scan", "publish"} => active[ch] = NoEntry

\* A second ends only while threads sleep between frames or wait in publish, which
\* takes up to two seconds: the rest of a call takes no time to speak of.
PromptStep == Tick => \A ch \in Channel : pc[ch] \in {"idle", "publish"}

\* Staff who stay in view cancel an alarm, however often its condition raises it
\* again, once the threads run promptly: a thread that is held up for seconds
\* between the two checks may find the cooldown over before the grace period, and
\* raise the alarm anew, again and again (alarmManager.cpp:118-148).
StaffCancels ==
  \A ch \in Channel :
    <>[](Staff \in detected[ch]) /\ <>[][PromptStep]_vars
      => []<>(active[ch] = NoEntry)

=============================================================================
