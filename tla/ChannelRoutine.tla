--------------------------- MODULE ChannelRoutine ---------------------------
(***************************************************************************)
(* The routine of a channel thread (src/src/main.cpp:256-520): fetch a     *)
(* picture from the recorder, run the detector on it, hand the result to   *)
(* the alarm manager and publish it to the web page as an overlay file,    *)
(* again and again until g_running is cleared.                             *)
(*                                                                         *)
(* The threads share g_running, two counting semaphores and the alarm      *)
(* manager.  Since only a channel's own thread touches the channel's       *)
(* entries there, a call of process_channel_alarms is one action here; its *)
(* steps, and when it raises, are what AlarmManager models.                *)
(*                                                                         *)
(* A picture shows a scene, or is all zeros (Black), or is an empty        *)
(* cv::Mat (NoPicture).  What the network scores is data, so inference may *)
(* report any set of classes on any picture, a black one included.         *)
(***************************************************************************)
EXTENDS Integers, Sequences, FiniteSets, AlarmRules

CONSTANTS
  Channel,    \* the channels, one routine thread each
  Class,      \* the classes the detector knows
  Staff,      \* STAFF_CLASS_ID
  Reports,    \* what inference may report: sets of classes
  Alarms,     \* the alarm vector: records [target, holds]
  Permits,    \* initial value of each of the two semaphores (6)
  Faults      \* what may go wrong: a subset of FaultKinds

FaultKinds == {"noAnswer", "notAPicture", "noModel", "badDescription",
               "noOverlayFile"}

ASSUME ReportAssumption ==
  /\ Staff \in Class
  /\ Reports \subseteq SUBSET Class
  /\ Alarms \in Seq([target : Channel, holds : SUBSET (SUBSET Class)])
ASSUME PermitAssumption == IsFiniteSet(Channel) /\ Permits \in Nat \ {0}
ASSUME FaultAssumption == Faults \subseteq FaultKinds

VARIABLES
  at,          \* where each thread is in routine
  frame,       \* local variable frame of each thread
  subFrame,    \* local variable sub_frame of each thread
  detected,    \* CameraChannel::detected_class
  history,     \* CameraChannel::detected_class_history
  staffCount,  \* CameraChannel::current_staff_count, here 0 or 1
  active,      \* the channels that have an entry in active_channels
  isAlarm,     \* local variable isAlarm of each thread
  overlay,     \* content of resource/output/<channel>.txt
  image,       \* value of the semaphore g_sem_image
  inference,   \* value of the semaphore g_sem_inference
  running,     \* g_running
  terminated   \* TRUE once an exception has left a thread's function

\* History variables: they steer no action.
VARIABLES
  answered,    \* whether the last request of each thread was answered
  evidence,    \* for each item of the history, its picture and whether the
               \* recorder had answered the request of that turn
  stale        \* the channels whose overlay file could not be opened last time, or
               \* was not written yet in this run

semVars   == <<image, inference>>
alarmVars == <<active, isAlarm, overlay, stale>>
seenVars  == <<detected, history, staffCount, evidence>>
vars == <<at, frame, subFrame, seenVars, alarmVars, semVars, running,
          terminated, answered>>

Scene     == "scene"
Black     == "black"
NoPicture == "none"
Picture   == {Scene, Black, NoPicture}
Evidence  == [picture : Picture, answered : BOOLEAN]

\* A file of the page: one line per detection, all with the same alarm flag; it
\* may be there from an earlier run of the program.
NoLines == [alarm |-> FALSE, classes |-> {}]
OldLines == [alarm |-> TRUE, classes |-> {Staff}]
Overlay == [alarm : BOOLEAN, classes : SUBSET Class]

\* The steps between sem_wait and sem_post of each semaphore.
ImageRegion     == {"capture", "postImage"}
InferenceRegion == {"infer", "postInference"}

At == {"start", "loop", "waitImage", "check", "waitInference", "alarms",
       "readActive", "openOverlay", "writeOverlay", "saveImage", "returned"}
        \cup ImageRegion \cup InferenceRegion

\* Moves thread ch; once an exception has ended the process nothing moves.
Goto(ch, from, to) ==
  ~terminated /\ at[ch] = from /\ at' = [at EXCEPT ![ch] = to]

\* inference: the classes the network scores above the threshold.  Nothing in the
\* code bounds them by what the picture shows.
Detect(picture) == Reports

-----------------------------------------------------------------------------
(***************************************************************************)
(* Start of the thread.                                                    *)
(***************************************************************************)
LoadModel(ch) ==
  /\ Goto(ch, "start", "loop")
  /\ UNCHANGED <<frame, subFrame, seenVars, alarmVars, semVars, running,
                 terminated, answered>>

\* The network cannot be read: the thread ends at once, the others go on.
NoModel(ch) ==
  /\ "noModel" \in Faults
  /\ Goto(ch, "start", "returned")
  /\ UNCHANGED <<frame, subFrame, seenVars, alarmVars, semVars, running,
                 terminated, answered>>

\* std::stoi of a camera description that is no number throws, uncaught.
BadDescription(ch) ==
  /\ "badDescription" \in Faults
  /\ Goto(ch, "start", "start")
  /\ terminated' = TRUE
  /\ UNCHANGED <<frame, subFrame, seenVars, alarmVars, semVars, running,
                 answered>>

(***************************************************************************)
(* One turn of the loop.                                                   *)
(***************************************************************************)
\* Mutant of TestRunning: the loop never ends.
TestNothing(ch) ==
  /\ Goto(ch, "loop", "waitImage")
  /\ UNCHANGED <<frame, subFrame, seenVars, alarmVars, semVars, running,
                 terminated, answered>>

\* while (g_running)
TestRunning(ch) ==
  /\ Goto(ch, "loop", IF running THEN "waitImage" ELSE "returned")
  /\ UNCHANGED <<frame, subFrame, seenVars, alarmVars, semVars, running,
                 terminated, answered>>

\* sem_wait(g_sem_image)
WaitImage(ch) ==
  /\ image > 0
  /\ Goto(ch, "waitImage", "capture")
  /\ image' = image - 1
  /\ UNCHANGED <<frame, subFrame, seenVars, alarmVars, inference, running,
                 terminated, answered>>

\* getFrame_api: the recorder answers with a picture; sub_frame is its resized
\* copy.
Capture(ch, picture) ==
  /\ Goto(ch, "capture", "postImage")
  /\ frame'    = [frame EXCEPT ![ch] = picture]
  /\ subFrame' = [subFrame EXCEPT ![ch] = picture]
  /\ answered' = [answered EXCEPT ![ch] = TRUE]
  /\ UNCHANGED <<seenVars, alarmVars, semVars, running, terminated>>

\* Mutant of CaptureNoAnswer: sub_frame keeps the last picture, as frame does.
CaptureNothing(ch) ==
  /\ "noAnswer" \in Faults
  /\ Goto(ch, "capture", "postImage")
  /\ answered' = [answered EXCEPT ![ch] = FALSE]
  /\ UNCHANGED <<frame, subFrame, seenVars, alarmVars, semVars, running,
                 terminated>>

\* Mutant of CaptureNoAnswer: the turn ends early, without sem_post.
CaptureGivesUp(ch) ==
  /\ "noAnswer" \in Faults
  /\ Goto(ch, "capture", "check")
  /\ subFrame' = [subFrame EXCEPT ![ch] = Black]
  /\ answered' = [answered EXCEPT ![ch] = FALSE]
  /\ UNCHANGED <<frame, seenVars, alarmVars, semVars, running, terminated>>

\* getFrame_api: no answer; sub_frame is blacked out but frame is not touched.
CaptureNoAnswer(ch) ==
  /\ "noAnswer" \in Faults
  /\ Goto(ch, "capture", "postImage")
  /\ subFrame' = [subFrame EXCEPT ![ch] = Black]
  /\ answered' = [answered EXCEPT ![ch] = FALSE]
  /\ UNCHANGED <<frame, seenVars, alarmVars, semVars, running, terminated>>

\* getFrame_api: an answer that is no picture (an HTTP error page, say) decodes
\* to an empty frame, on which cv::resize throws; nothing catches it.
CaptureUndecodable(ch) ==
  /\ "notAPicture" \in Faults
  /\ Goto(ch, "capture", "capture")
  /\ frame' = [frame EXCEPT ![ch] = NoPicture]
  /\ terminated' = TRUE
  /\ UNCHANGED <<subFrame, seenVars, alarmVars, semVars, running, answered>>

\* sem_post(g_sem_image); detected_class.clear()
PostImage(ch) ==
  /\ Goto(ch, "postImage", "check")
  /\ image' = image + 1
  /\ detected' = [detected EXCEPT ![ch] = {}]
  /\ UNCHANGED <<frame, subFrame, history, staffCount, evidence, alarmVars,
                 inference, running, terminated, answered>>

\* Nothing to infer on, or the program is stopping: the turn ends here.
CheckFrame(ch) ==
  /\ Goto(ch, "check",
          IF frame[ch] = NoPicture \/ ~running \/ frame[ch] = Black
            THEN "loop" ELSE "waitInference")
  /\ UNCHANGED <<frame, subFrame, seenVars, alarmVars, semVars, running,
                 terminated, answered>>

\* sem_wait(g_sem_inference)
WaitInference(ch) ==
  /\ inference > 0
  /\ Goto(ch, "waitInference", "infer")
  /\ inference' = inference - 1
  /\ UNCHANGED <<frame, subFrame, seenVars, alarmVars, image, running,
                 terminated, answered>>

\* cvtColor and inference.  The report is a local variable, which PostInference
\* chooses from Detect(subFrame[ch]): nobody looks at it before.
Infer(ch) ==
  /\ Goto(ch, "infer", "postInference")
  /\ UNCHANGED <<frame, subFrame, seenVars, alarmVars, semVars, running,
                 terminated, answered>>

\* sem_post(g_sem_inference); the result becomes detected_class, is pushed onto
\* the history, and the staff in it is counted for the staff report.
PostInference(ch) ==
  /\ Goto(ch, "postInference", "alarms")
  /\ inference' = inference + 1
  /\ evidence'  = [evidence EXCEPT ![ch] =
                     PushFrame(@, [picture  |-> subFrame[ch],
                                   answered |-> answered[ch]])]
  /\ \E found \in Detect(subFrame[ch]) :
       /\ detected'   = [detected EXCEPT ![ch] = found]
       /\ history'    = [history EXCEPT ![ch] = PushFrame(@, found)]
       /\ staffCount' = [staffCount EXCEPT ![ch] = IF Staff \in found THEN 1 ELSE 0]
  /\ UNCHANGED <<frame, subFrame, alarmVars, image, running, terminated, answered>>

\* process_channel_alarms raises an alarm whose condition persists.
RaiseAlarm(ch) ==
  /\ \E i \in DOMAIN Alarms : /\ Alarms[i].target = ch
                              /\ Persists(Alarms[i].holds, history[ch])
  /\ Goto(ch, "alarms", "readActive")
  /\ active' = active \cup {ch}
  /\ UNCHANGED <<frame, subFrame, seenVars, isAlarm, overlay, stale, semVars,
                 running, terminated, answered>>

\* process_channel_alarms cancels the active alarm on sight of staff.
CancelAlarm(ch) ==
  /\ Staff \in detected[ch] /\ ch \in active
  /\ Goto(ch, "alarms", "readActive")
  /\ active' = active \ {ch}
  /\ UNCHANGED <<frame, subFrame, seenVars, isAlarm, overlay, stale, semVars,
                 running, terminated, answered>>

\* process_channel_alarms does neither: nothing persists, or the channel is on
\* cooldown.
LeaveAlarm(ch) ==
  /\ Goto(ch, "alarms", "readActive")
  /\ UNCHANGED <<frame, subFrame, seenVars, alarmVars, semVars, running,
                 terminated, answered>>

\* is_channel_active
ReadActive(ch) ==
  /\ Goto(ch, "readActive", "openOverlay")
  /\ isAlarm' = [isAlarm EXCEPT ![ch] = (ch \in active)]
  /\ UNCHANGED <<frame, subFrame, seenVars, active, overlay, stale, semVars,
                 running, terminated, answered>>

\* Mutant of OpenOverlay: the file is opened to append.
OpenOverlayAppends(ch) ==
  /\ Goto(ch, "openOverlay", "writeOverlay")
  /\ stale' = stale \ {ch}
  /\ UNCHANGED <<frame, subFrame, seenVars, active, isAlarm, overlay, semVars,
                 running, terminated, answered>>

\* Opening the overlay file truncates it.
OpenOverlay(ch) ==
  /\ Goto(ch, "openOverlay", "writeOverlay")
  /\ overlay' = [overlay EXCEPT ![ch] = NoLines]
  /\ stale' = stale \ {ch}
  /\ UNCHANGED <<frame, subFrame, seenVars, active, isAlarm, semVars, running,
                 terminated, answered>>

\* The overlay file cannot be opened: it keeps its old lines.
OpenOverlayFails(ch) ==
  /\ "noOverlayFile" \in Faults
  /\ Goto(ch, "openOverlay", "saveImage")
  /\ stale' = stale \cup {ch}
  /\ UNCHANGED <<frame, subFrame, seenVars, active, isAlarm, overlay, semVars,
                 running, terminated, answered>>

\* Mutant of AddOverlayLine: the flag is whether the call just made has raised.
AddOverlayLineOfCall(ch) ==
  /\ Goto(ch, "writeOverlay", "writeOverlay")
  /\ \E class \in detected[ch] \ overlay[ch].classes :
       overlay' = [overlay EXCEPT ![ch] =
                     [alarm   |-> \E i \in DOMAIN Alarms :
                                    /\ Alarms[i].target = ch
                                    /\ Persists(Alarms[i].holds, history[ch]),
                      classes |-> @.classes \cup {class}]]
  /\ UNCHANGED <<frame, subFrame, seenVars, active, isAlarm, stale, semVars,
                 running, terminated, answered>>

\* A line of the file per detection, each with the flag.
AddOverlayLine(ch) ==
  /\ Goto(ch, "writeOverlay", "writeOverlay")
  /\ \E class \in detected[ch] \ overlay[ch].classes :
       overlay' = [overlay EXCEPT ![ch] = [alarm   |-> isAlarm[ch],
                                           classes |-> @.classes \cup {class}]]
  /\ UNCHANGED <<frame, subFrame, seenVars, active, isAlarm, stale, semVars,
                 running, terminated, answered>>

\* The file is closed after the last detection.
CloseOverlay(ch) ==
  /\ overlay[ch].classes = detected[ch]
  /\ Goto(ch, "writeOverlay", "saveImage")
  /\ UNCHANGED <<frame, subFrame, seenVars, alarmVars, semVars, running,
                 terminated, answered>>

\* The annotated picture, now and then a training sample, and the pause; none of
\* it is read by the program again.
SaveImage(ch) ==
  /\ Goto(ch, "saveImage", "loop")
  /\ UNCHANGED <<frame, subFrame, seenVars, alarmVars, semVars, running,
                 terminated, answered>>

\* The signal handler clears g_running.
Stop ==
  /\ ~terminated /\ running
  /\ running' = FALSE
  /\ UNCHANGED <<at, frame, subFrame, seenVars, alarmVars, semVars, terminated,
                 answered>>

-----------------------------------------------------------------------------
Init ==
  /\ at         = [ch \in Channel |-> "start"]
  /\ frame      = [ch \in Channel |-> NoPicture]
  /\ subFrame   = [ch \in Channel |-> NoPicture]
  /\ detected   = [ch \in Channel |-> {}]
  /\ history    = [ch \in Channel |-> <<>>]
  /\ staffCount = [ch \in Channel |-> 0]
  /\ active     = {}
  /\ isAlarm    = [ch \in Channel |-> FALSE]
  /\ overlay \in [Channel -> {NoLines, OldLines}]
  /\ stale      = Channel
  /\ image      = Permits
  /\ inference  = Permits
  /\ running    = TRUE
  /\ terminated = FALSE
  /\ answered   = [ch \in Channel |-> FALSE]
  /\ evidence   = [ch \in Channel |-> <<>>]

ProcessChannelAlarms(ch) == RaiseAlarm(ch) \/ CancelAlarm(ch) \/ LeaveAlarm(ch)

GetFrame(ch) == \/ Capture(ch, Scene)
                \/ Capture(ch, Black)
                \/ CaptureNoAnswer(ch)
                \/ CaptureUndecodable(ch)

Routine(ch) ==
  \/ LoadModel(ch) \/ NoModel(ch) \/ BadDescription(ch)
  \/ TestRunning(ch) \/ WaitImage(ch) \/ GetFrame(ch) \/ PostImage(ch)
  \/ CheckFrame(ch) \/ WaitInference(ch) \/ Infer(ch) \/ PostInference(ch)
  \/ ProcessChannelAlarms(ch) \/ ReadActive(ch)
  \/ OpenOverlay(ch) \/ OpenOverlayFails(ch) \/ AddOverlayLine(ch)
  \/ CloseOverlay(ch) \/ SaveImage(ch)

\* Every thread has returned, or the process is gone.
Finished ==
  /\ terminated \/ \A ch \in Channel : at[ch] = "returned"
  /\ UNCHANGED vars

Next == (\E ch \in Channel : Routine(ch)) \/ Stop \/ Finished

Spec == Init /\ [][Next]_vars

\* The operating system runs every thread that can run; nothing is assumed of the
\* order in which a semaphore wakes its waiters, and nobody has to stop the
\* program.
FairSpec == Spec /\ \A ch \in Channel : WF_vars(Routine(ch))

-----------------------------------------------------------------------------
(***************************************************************************)
(* Properties.                                                             *)
(***************************************************************************)
\* Every variable has its type.
TypeOK ==
  /\ at \in [Channel -> At]
  /\ frame \in [Channel -> Picture]
  /\ subFrame \in [Channel -> Picture]
  /\ detected \in [Channel -> SUBSET Class]
  /\ history \in [Channel -> Seq(SUBSET Class)]
  /\ evidence \in [Channel -> Seq(Evidence)]
  /\ staffCount \in [Channel -> 0 .. 1]
  /\ active \subseteq Channel
  /\ isAlarm \in [Channel -> BOOLEAN]
  /\ overlay \in [Channel -> Overlay]
  /\ stale \subseteq Channel
  /\ image \in 0 .. Permits
  /\ inference \in 0 .. Permits
  /\ running \in BOOLEAN
  /\ terminated \in BOOLEAN
  /\ answered \in [Channel -> BOOLEAN]

\* The threads between a semaphore's sem_wait and its sem_post.
Inside(region) == {ch \in Channel : at[ch] \in region}

\* No turn of the loop, however it ends, loses or invents a permit: what a
\* semaphore counts and the threads inside its region always add up to the
\* initial value, so at most that many requests or inferences run at a time
\* (main.cpp:300-325).
PermitsConserved ==
  /\ image + Cardinality(Inside(ImageRegion)) = Permits
  /\ inference + Cardinality(Inside(InferenceRegion)) = Permits

\* No frame of the history reports on a scene of an earlier turn: inference ran on
\* a picture the recorder sent in that same turn, or on a black one, although frame
\* keeps the last picture during an outage and its test lets the turn go on
\* (getFrame.cpp:36-41, main.cpp:302-333).
DetectionsAreFresh ==
  \A ch \in Channel : \A i \in DOMAIN history[ch] :
    evidence[ch][i].answered \/ evidence[ch][i].picture = Black

\* Outside the steps from the call that may raise or cancel to the end of the overlay
\* file, the flag of every line of that file says whether the channel's alarm is
\* active, unless the file could not be opened last time or is an earlier run's
\* (main.cpp:361-376, 430-475).
OverlayTellsAlarm ==
  \A ch \in Channel \ stale :
    /\ at[ch] \notin {"alarms", "readActive", "openOverlay", "writeOverlay"}
    /\ overlay[ch].classes # {}
    => (overlay[ch].alarm <=> ch \in active)

\* What each thread does to its overlay file, at whatever step the process ends, is
\* what OverlayView assumes of its writer: it empties the file first, and all lines
\* added from there on carry one flag (main.cpp:430-471).
File(ch) == INSTANCE OverlayFile WITH file <- overlay[ch],
                                      open <- (at[ch] = "writeOverlay")
WritesOverlayFile ==
  /\ \A ch \in Channel : File(ch)!FileInit
  /\ [][\A ch \in Channel : File(ch)!WriteFile \/ UNCHANGED File(ch)!fileVars]_vars

\* After the signal every thread returns, those that wait for a permit included,
\* unless an exception ends the process first (main.cpp:294-325, 529).
StopDrains == ~running ~> (terminated \/ \A ch \in Channel : at[ch] = "returned")

=============================================================================
