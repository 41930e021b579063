------------------------ MODULE ChannelRoutineProofs ------------------------
(***************************************************************************)
(* Theorems about ChannelRoutine, for any number of channels and permits,  *)
(* any rules and any combination of faults.                                *)
(***************************************************************************)
EXTENDS ChannelRoutine, FiniteSetTheorems, SequenceTheorems, TLAPS

-----------------------------------------------------------------------------
(***************************************************************************)
(* Lemmas: counting the threads inside a region, and pushing onto a        *)
(* history.                                                                *)
(***************************************************************************)

\* The threads inside a region are finitely many.
LEMMA InsideFinite ==
  ASSUME NEW region
  PROVE  IsFiniteSet(Inside(region)) /\ Cardinality(Inside(region)) \in Nat
<1>1. Inside(region) \subseteq Channel
  BY DEF Inside
<1>2. QED
  BY <1>1, PermitAssumption, FS_Subset, FS_CardinalityType

\* A thread that goes from outside a region into it adds one to its count.
LEMMA Enter ==
  ASSUME NEW region, NEW ch \in Channel, NEW to \in region,
         at \in [Channel -> At], at[ch] \notin region,
         at' = [at EXCEPT ![ch] = to]
  PROVE  Cardinality(Inside(region)') = Cardinality(Inside(region)) + 1
<1>1. Inside(region)' = Inside(region) \cup {ch} /\ ch \notin Inside(region)
  BY DEF Inside
<1>2. QED
  BY <1>1, InsideFinite, FS_AddElement

\* A thread that leaves a region takes one off its count.
LEMMA Leave ==
  ASSUME NEW region, NEW ch \in Channel, NEW to,
         at \in [Channel -> At], at[ch] \in region, to \notin region,
         at' = [at EXCEPT ![ch] = to]
  PROVE  /\ Cardinality(Inside(region)') = Cardinality(Inside(region)) - 1
         /\ Cardinality(Inside(region)') \in Nat
<1>1. Inside(region)' = Inside(region) \ {ch} /\ ch \in Inside(region)
  BY DEF Inside
<1>2. IsFiniteSet(Inside(region) \ {ch})
  BY InsideFinite, FS_RemoveElement
<1>3. QED
  BY <1>1, <1>2, InsideFinite, FS_RemoveElement, FS_CardinalityType

\* A thread that stays on one side of a region's border leaves its count alone.
LEMMA Stay ==
  ASSUME NEW region, NEW ch \in Channel, NEW to,
         at \in [Channel -> At], at[ch] \in region <=> to \in region,
         at' = [at EXCEPT ![ch] = to]
  PROVE  Cardinality(Inside(region)') = Cardinality(Inside(region))
<1>1. Inside(region)' = Inside(region)
  BY DEF Inside
<1>2. QED
  BY <1>1

\* What is pushed onto a sequence, with or without a pop, keeps it a sequence.
LEMMA PushType ==
  ASSUME NEW S, NEW h \in Seq(S), NEW item \in S
  PROVE  PushFrame(h, item) \in Seq(S)
<1> DEFINE longer == Append(h, item)
<1>1. longer \in Seq(S) /\ longer # << >>
  BY AppendProperties
<1>2. Tail(longer) \in Seq(S)
  BY <1>1, HeadTailProperties
<1>3. QED
  BY <1>1, <1>2 DEF PushFrame

-----------------------------------------------------------------------------
(***************************************************************************)
(* Type correctness and conservation of the permits hold each other up: a  *)
(* semaphore stays at or below its initial value because the thread that   *)
(* posts it was counted inside.                                            *)
(***************************************************************************)
IInv == TypeOK /\ PermitsConserved

\* The program starts with all permits and nobody inside.
LEMMA InitInv == Init => IInv
<1> SUFFICES ASSUME Init PROVE IInv
  OBVIOUS
<1>1. Inside(ImageRegion) = {} /\ Inside(InferenceRegion) = {}
  BY DEF Init, Inside, ImageRegion, InferenceRegion
<1>2. PermitsConserved
  BY <1>1, FS_EmptySet, PermitAssumption DEF Init, PermitsConserved
<1>3. NoLines \in Overlay /\ OldLines \in Overlay
  BY ReportAssumption DEF NoLines, OldLines, Overlay
<1>4. overlay \in [Channel -> Overlay]
  BY <1>3 DEF Init
<1>5. NoPicture \in Picture
  BY DEF NoPicture, Picture
<1>6. /\ frame \in [Channel -> Picture]
      /\ subFrame \in [Channel -> Picture]
  BY <1>5 DEF Init
<1>7. /\ at \in [Channel -> At]
      /\ detected \in [Channel -> SUBSET Class]
      /\ staffCount \in [Channel -> 0 .. 1]
      /\ image \in 0 .. Permits
      /\ inference \in 0 .. Permits
  BY PermitAssumption DEF Init, At
<1>8. /\ history \in [Channel -> Seq(SUBSET Class)]
      /\ evidence \in [Channel -> Seq(Evidence)]
  BY DEF Init
<1>9. /\ active \subseteq Channel /\ stale \subseteq Channel
      /\ isAlarm \in [Channel -> BOOLEAN]
      /\ answered \in [Channel -> BOOLEAN]
      /\ running \in BOOLEAN
      /\ terminated \in BOOLEAN
  BY DEF Init
<1>10. TypeOK
  BY <1>4, <1>6, <1>7, <1>8, <1>9 DEF TypeOK
<1>11. QED
  BY <1>2, <1>10 DEF IInv

\* A step that touches neither semaphore and crosses no border of a region.
LEMMA Quiet ==
  ASSUME IInv, NEW ch \in Channel, NEW from, NEW to \in At,
         Goto(ch, from, to),
         from \in ImageRegion <=> to \in ImageRegion,
         from \in InferenceRegion <=> to \in InferenceRegion,
         UNCHANGED semVars
  PROVE  /\ at' \in [Channel -> At]
         /\ PermitsConserved'
<1> USE DEF IInv, TypeOK, Goto
<1>1. at' \in [Channel -> At]
  OBVIOUS
<1>2. Cardinality(Inside(ImageRegion)') = Cardinality(Inside(ImageRegion))
  BY Stay
<1>3. Cardinality(Inside(InferenceRegion)') = Cardinality(Inside(InferenceRegion))
  BY Stay
<1>4. QED
  BY <1>1, <1>2, <1>3 DEF PermitsConserved, semVars

\* The four steps that take or give back a permit.
LEMMA WaitImageInv ==
  ASSUME IInv, NEW ch \in Channel, WaitImage(ch)
  PROVE  IInv'
<1> USE DEF IInv
<1>1. /\ at[ch] = "waitImage"
      /\ at' = [at EXCEPT ![ch] = "capture"]
      /\ at \in [Channel -> At]
  BY DEF WaitImage, Goto, TypeOK
<1>2. Cardinality(Inside(ImageRegion)') = Cardinality(Inside(ImageRegion)) + 1
  BY <1>1, Enter DEF ImageRegion
<1>3. Cardinality(Inside(InferenceRegion)') = Cardinality(Inside(InferenceRegion))
  BY <1>1, Stay DEF InferenceRegion
<1>4. image \in 1 .. Permits /\ image' = image - 1 /\ inference' = inference
  BY PermitAssumption DEF WaitImage, TypeOK
<1>5. PermitsConserved'
  BY <1>2, <1>3, <1>4, InsideFinite, PermitAssumption DEF PermitsConserved
<1>6. TypeOK'
  BY <1>1, <1>4, PermitAssumption
     DEF WaitImage, TypeOK, At, ImageRegion, seenVars, alarmVars
<1>7. QED
  BY <1>5, <1>6

LEMMA PostImageInv ==
  ASSUME IInv, NEW ch \in Channel, PostImage(ch)
  PROVE  IInv'
<1> USE DEF IInv
<1>1. /\ at[ch] = "postImage"
      /\ at' = [at EXCEPT ![ch] = "check"]
      /\ at \in [Channel -> At]
  BY DEF PostImage, Goto, TypeOK
<1>2. /\ Cardinality(Inside(ImageRegion)') = Cardinality(Inside(ImageRegion)) - 1
      /\ Cardinality(Inside(ImageRegion)') \in Nat
  BY <1>1, Leave DEF ImageRegion
<1>3. Cardinality(Inside(InferenceRegion)') = Cardinality(Inside(InferenceRegion))
  BY <1>1, Stay DEF InferenceRegion
<1>4. image \in Nat /\ image' = image + 1 /\ inference' = inference
  BY DEF PostImage, TypeOK
<1>6. PermitsConserved' /\ image' \in 0 .. Permits
  BY <1>2, <1>3, <1>4, InsideFinite, PermitAssumption DEF PermitsConserved
<1>7. TypeOK'
  BY <1>1, <1>4, <1>6 DEF PostImage, TypeOK, At, alarmVars
<1>8. QED
  BY <1>6, <1>7

LEMMA WaitInferenceInv ==
  ASSUME IInv, NEW ch \in Channel, WaitInference(ch)
  PROVE  IInv'
<1> USE DEF IInv
<1>1. /\ at[ch] = "waitInference"
      /\ at' = [at EXCEPT ![ch] = "infer"]
      /\ at \in [Channel -> At]
  BY DEF WaitInference, Goto, TypeOK
<1>2. Cardinality(Inside(InferenceRegion)') = Cardinality(Inside(InferenceRegion)) + 1
  BY <1>1, Enter DEF InferenceRegion
<1>3. Cardinality(Inside(ImageRegion)') = Cardinality(Inside(ImageRegion))
  BY <1>1, Stay DEF ImageRegion
<1>4. inference \in 1 .. Permits /\ inference' = inference - 1 /\ image' = image
  BY PermitAssumption DEF WaitInference, TypeOK
<1>5. PermitsConserved'
  BY <1>2, <1>3, <1>4, InsideFinite, PermitAssumption DEF PermitsConserved
<1>6. TypeOK'
  BY <1>1, <1>4, PermitAssumption
     DEF WaitInference, TypeOK, At, InferenceRegion, seenVars, alarmVars
<1>7. QED
  BY <1>5, <1>6

LEMMA PostInferenceInv ==
  ASSUME IInv, NEW ch \in Channel, PostInference(ch)
  PROVE  IInv'
<1> USE DEF IInv
<1>1. /\ at[ch] = "postInference"
      /\ at' = [at EXCEPT ![ch] = "alarms"]
      /\ at \in [Channel -> At]
  BY DEF PostInference, Goto, TypeOK
<1>2. /\ Cardinality(Inside(InferenceRegion)') = Cardinality(Inside(InferenceRegion)) - 1
      /\ Cardinality(Inside(InferenceRegion)') \in Nat
  BY <1>1, Leave DEF InferenceRegion
<1>3. Cardinality(Inside(ImageRegion)') = Cardinality(Inside(ImageRegion))
  BY <1>1, Stay DEF ImageRegion
<1>4. inference \in Nat /\ inference' = inference + 1 /\ image' = image
  BY DEF PostInference, TypeOK
<1>6. PermitsConserved' /\ inference' \in 0 .. Permits
  BY <1>2, <1>3, <1>4, InsideFinite, PermitAssumption DEF PermitsConserved
<1>7. PICK found \in Detect(subFrame[ch]) :
        /\ detected'   = [detected EXCEPT ![ch] = found]
        /\ history'    = [history EXCEPT ![ch] = PushFrame(@, found)]
        /\ staffCount' = [staffCount EXCEPT ![ch] = IF Staff \in found THEN 1 ELSE 0]
  BY DEF PostInference
<1>8. /\ found \in SUBSET Class
      /\ [picture |-> subFrame[ch], answered |-> answered[ch]] \in Evidence
  BY ReportAssumption DEF Detect, TypeOK, Evidence
<1>9. /\ history' \in [Channel -> Seq(SUBSET Class)]
      /\ evidence' \in [Channel -> Seq(Evidence)]
      /\ detected' \in [Channel -> SUBSET Class]
      /\ staffCount' \in [Channel -> 0 .. 1]
  <2> DEFINE item == [picture |-> subFrame[ch], answered |-> answered[ch]]
  <2>1. /\ PushFrame(history[ch], found) \in Seq(SUBSET Class)
        /\ PushFrame(evidence[ch], item) \in Seq(Evidence)
    BY <1>8, PushType DEF TypeOK
  <2>2. evidence' = [evidence EXCEPT ![ch] = PushFrame(@, item)]
    BY DEF PostInference
  <2>3. QED
    BY <1>7, <1>8, <2>1, <2>2 DEF TypeOK
<1>10. TypeOK'
  BY <1>1, <1>4, <1>6, <1>9 DEF PostInference, TypeOK, At, alarmVars
<1>11. QED
  BY <1>6, <1>10

\* Every other step of a thread.
LEMMA OtherStepsInv ==
  ASSUME IInv, NEW ch \in Channel,
         \/ LoadModel(ch) \/ NoModel(ch) \/ BadDescription(ch) \/ TestRunning(ch)
         \/ GetFrame(ch) \/ CheckFrame(ch) \/ Infer(ch)
         \/ ProcessChannelAlarms(ch) \/ ReadActive(ch) \/ OpenOverlay(ch)
         \/ OpenOverlayFails(ch) \/ AddOverlayLine(ch) \/ CloseOverlay(ch)
         \/ SaveImage(ch)
  PROVE  IInv'
<1> USE DEF IInv, TypeOK
<1>1. CASE LoadModel(ch) \/ NoModel(ch) \/ BadDescription(ch) \/ TestRunning(ch)
  <2>1. at' \in [Channel -> At] /\ PermitsConserved'
    BY <1>1, Quiet DEF LoadModel, NoModel, BadDescription, TestRunning, At,
                       ImageRegion, InferenceRegion
  <2>2. QED
    BY <1>1, <2>1 DEF LoadModel, NoModel, BadDescription, TestRunning,
                      seenVars, alarmVars, semVars
<1>2. ASSUME NEW picture \in Picture, Capture(ch, picture) PROVE IInv'
  <2>1. at' \in [Channel -> At] /\ PermitsConserved'
    BY <1>2, Quiet DEF Capture, At, ImageRegion, InferenceRegion
  <2>2. QED
    BY <1>2, <2>1 DEF Capture, seenVars, alarmVars, semVars
<1>3. CASE CaptureNoAnswer(ch) \/ CaptureUndecodable(ch)
  <2>1. at' \in [Channel -> At] /\ PermitsConserved'
    BY <1>3, Quiet DEF CaptureNoAnswer, CaptureUndecodable, At, ImageRegion,
                       InferenceRegion
  <2>2. Black \in Picture /\ NoPicture \in Picture
    BY DEF Black, NoPicture, Picture
  <2>3. QED
    <3>1. CASE CaptureNoAnswer(ch)
      BY <2>1, <2>2, <3>1 DEF CaptureNoAnswer, seenVars, alarmVars, semVars
    <3>2. CASE CaptureUndecodable(ch)
      BY <2>1, <2>2, <3>2 DEF CaptureUndecodable, seenVars, alarmVars, semVars
    <3>3. QED BY <1>3, <3>1, <3>2
<1>4. CASE GetFrame(ch)
  <2>1. Scene \in Picture /\ Black \in Picture
    BY DEF Picture
  <2>2. QED
    BY <1>2, <1>3, <1>4, <2>1 DEF GetFrame
<1>5. CASE CheckFrame(ch) \/ Infer(ch)
  <2>1. at' \in [Channel -> At] /\ PermitsConserved'
    BY <1>5, Quiet DEF CheckFrame, Infer, At, ImageRegion, InferenceRegion
  <2>2. QED
    BY <1>5, <2>1 DEF CheckFrame, Infer, seenVars, alarmVars, semVars
<1>6. CASE ProcessChannelAlarms(ch)
  <2>1. at' \in [Channel -> At] /\ PermitsConserved'
    BY <1>6, Quiet DEF ProcessChannelAlarms, RaiseAlarm, CancelAlarm, LeaveAlarm,
                       At, ImageRegion, InferenceRegion
  <2>2. active' \subseteq Channel
    BY <1>6 DEF ProcessChannelAlarms, RaiseAlarm, CancelAlarm, LeaveAlarm, alarmVars
  <2>3. UNCHANGED <<frame, subFrame, seenVars, isAlarm, overlay, stale, semVars,
                    running, terminated, answered>>
    BY <1>6 DEF ProcessChannelAlarms, RaiseAlarm, CancelAlarm, LeaveAlarm, alarmVars
  <2>4. QED
    BY <2>1, <2>2, <2>3 DEF seenVars, semVars
<1>7. CASE ReadActive(ch)
  <2>1. at' \in [Channel -> At] /\ PermitsConserved'
    BY <1>7, Quiet DEF ReadActive, At, ImageRegion, InferenceRegion
  <2>2. isAlarm' \in [Channel -> BOOLEAN]
    BY <1>7 DEF ReadActive
  <2>3. QED
    BY <1>7, <2>1, <2>2 DEF ReadActive, seenVars, semVars
<1>8. CASE OpenOverlay(ch) \/ OpenOverlayFails(ch) \/ CloseOverlay(ch) \/ SaveImage(ch)
  <2>1. at' \in [Channel -> At] /\ PermitsConserved'
    BY <1>8, Quiet DEF OpenOverlay, OpenOverlayFails, CloseOverlay, SaveImage, At,
                       ImageRegion, InferenceRegion
  <2>2. NoLines \in Overlay
    BY DEF NoLines, Overlay
  <2>3. QED
    BY <1>8, <2>1, <2>2 DEF OpenOverlay, OpenOverlayFails, CloseOverlay, SaveImage,
                            seenVars, alarmVars, semVars
<1>9. CASE AddOverlayLine(ch)
  <2>1. at' \in [Channel -> At] /\ PermitsConserved'
    BY <1>9, Quiet DEF AddOverlayLine, At, ImageRegion, InferenceRegion
  <2>2. overlay' \in [Channel -> Overlay]
    BY <1>9 DEF AddOverlayLine, Overlay
  <2>3. QED
    BY <1>9, <2>1, <2>2 DEF AddOverlayLine, seenVars, semVars
<1>10. QED
  BY <1>1, <1>4, <1>5, <1>6, <1>7, <1>8, <1>9

\* The inductive invariant holds of every behaviour.
LEMMA Inductive == Spec => []IInv
<1>1. IInv /\ [Next]_vars => IInv'
  <2> SUFFICES ASSUME IInv, [Next]_vars PROVE IInv'
    OBVIOUS
  <2>1. ASSUME NEW ch \in Channel, Routine(ch) PROVE IInv'
    BY <2>1, WaitImageInv, PostImageInv, WaitInferenceInv, PostInferenceInv,
       OtherStepsInv DEF Routine
  <2>2. CASE Stop
    BY <2>2 DEF Stop, IInv, TypeOK, PermitsConserved, Inside, seenVars, alarmVars,
                semVars
  <2>3. CASE Finished \/ UNCHANGED vars
    BY <2>3 DEF Finished, vars, IInv, TypeOK, PermitsConserved, Inside, seenVars,
                alarmVars, semVars
  <2>4. QED
    BY <2>1, <2>2, <2>3 DEF Next
<1>2. QED
  BY <1>1, InitInv, PTL DEF Spec

\* Every variable of the routine keeps its type; a semaphore never exceeds the
\* value it was opened with.
THEOREM TypeCorrect == Spec => []TypeOK
BY Inductive, PTL DEF IInv

\* No turn of any channel's loop loses or invents a permit.
THEOREM PermitsKept == Spec => []PermitsConserved
BY Inductive, PTL DEF IInv

-----------------------------------------------------------------------------
(***************************************************************************)
(* Each thread writes its overlay file as OverlayFile says.                *)
(***************************************************************************)
\* While a thread writes its file, the lines that are there already carry its flag.
FlagInv ==
  \A ch \in Channel :
    at[ch] = "writeOverlay" /\ overlay[ch].classes # {} => overlay[ch].alarm = isAlarm[ch]

\* Only the steps from the opening to the last line concern it.
LEMMA FlagKept == IInv /\ FlagInv /\ [Next]_vars => FlagInv'
<1> SUFFICES ASSUME IInv, FlagInv, [Next]_vars PROVE FlagInv'
  OBVIOUS
<1> USE DEF FlagInv, IInv, TypeOK, Goto
<1>1. CASE UNCHANGED vars \/ Finished \/ Stop
  BY <1>1 DEF vars, Finished, Stop, alarmVars
<1>2. ASSUME NEW ch \in Channel, OpenOverlay(ch) PROVE FlagInv'
  BY <1>2 DEF OpenOverlay, NoLines
<1>3. ASSUME NEW ch \in Channel, AddOverlayLine(ch) PROVE FlagInv'
  BY <1>3 DEF AddOverlayLine
<1>4. ASSUME NEW ch \in Channel, Routine(ch), ~OpenOverlay(ch), ~AddOverlayLine(ch)
      PROVE  FlagInv'
  <2>1. /\ \A c \in Channel \ {ch} : at'[c] = at[c] /\ isAlarm'[c] = isAlarm[c]
        /\ at'[ch] # "writeOverlay"
        /\ overlay' = overlay
    BY <1>4 DEF Routine, LoadModel, NoModel, BadDescription, TestRunning, WaitImage,
                GetFrame, Capture, CaptureNoAnswer, CaptureUndecodable, PostImage,
                CheckFrame, WaitInference, Infer, PostInference, ProcessChannelAlarms,
                RaiseAlarm, CancelAlarm, LeaveAlarm, ReadActive, OpenOverlayFails,
                CloseOverlay, SaveImage, alarmVars
  <2>2. QED
    BY <2>1
<1>5. QED
  BY <1>1, <1>2, <1>3, <1>4 DEF Next

\* For any number of channels and any rules, the overlay file of each is written as
\* OverlayView takes for granted.
THEOREM OverlayWritten == Spec => WritesOverlayFile
<1>1. Init => FlagInv /\ \A ch \in Channel : File(ch)!FileInit
  <2> SUFFICES ASSUME Init
               PROVE  FlagInv /\ \A ch \in Channel : File(ch)!FileInit
    OBVIOUS
  <2>1. FlagInv
    BY DEF Init, FlagInv
  <2>2. ASSUME NEW ch \in Channel PROVE File(ch)!FileInit
    <3>1. overlay[ch] \in File(ch)!Overlay
      <4>1. overlay[ch] \in {NoLines, OldLines}
        BY DEF Init
      <4>2. {Staff} \in (SUBSET Class) \ {{}}
        BY ReportAssumption
      <4>3. OldLines \in [alarm : BOOLEAN, classes : (SUBSET Class) \ {{}}]
        BY <4>2 DEF OldLines
      <4>4. QED
        BY <4>1, <4>3, Zenon DEF NoLines, File!NoLines, File!Overlay
    <3>2. at[ch] # "writeOverlay"
      BY DEF Init
    <3>3. QED
      BY <3>1, <3>2, Zenon DEF File!FileInit
  <2>3. QED
    BY <2>1, <2>2
<1>2. IInv /\ FlagInv /\ [Next]_vars =>
        \A ch \in Channel : File(ch)!WriteFile \/ UNCHANGED File(ch)!fileVars
  <2> SUFFICES ASSUME IInv, FlagInv, [Next]_vars, NEW ch \in Channel
               PROVE  File(ch)!WriteFile \/ UNCHANGED File(ch)!fileVars
    OBVIOUS
  <2> USE DEF IInv, TypeOK, Goto
  <2>1. CASE OpenOverlay(ch)
    <3>1. /\ at[ch] # "writeOverlay" /\ at'[ch] = "writeOverlay"
          /\ overlay'[ch] = File(ch)!NoLines
      BY <2>1 DEF OpenOverlay, NoLines, File!NoLines
    <3>2. File(ch)!Truncate
      BY <3>1, Zenon DEF File!Truncate
    <3>3. QED
      BY <3>2 DEF File!WriteFile
  <2>2. CASE AddOverlayLine(ch)
    <3>1. PICK class \in detected[ch] \ overlay[ch].classes :
            overlay'[ch] = [alarm   |-> isAlarm[ch],
                            classes |-> overlay[ch].classes \cup {class}]
      BY <2>2 DEF AddOverlayLine
    <3>2. /\ at[ch] = "writeOverlay" /\ at'[ch] = "writeOverlay"
          /\ overlay[ch].classes # {} => isAlarm[ch] = overlay[ch].alarm
      BY <2>2 DEF AddOverlayLine, FlagInv
    <3>3. File(ch)!AddLine(isAlarm[ch], class)
      BY <3>1, <3>2, Zenon DEF File!AddLine
    <3>4. isAlarm[ch] \in BOOLEAN /\ class \in Class
      BY <3>1
    <3>5. QED
      BY <3>3, <3>4 DEF File!WriteFile
  <2>3. CASE CloseOverlay(ch)
    <3>1. /\ at[ch] = "writeOverlay" /\ at'[ch] # "writeOverlay"
          /\ overlay'[ch] = overlay[ch]
      BY <2>3 DEF CloseOverlay, alarmVars
    <3>2. File(ch)!Close
      BY <3>1, Zenon DEF File!Close
    <3>3. QED
      BY <3>2 DEF File!WriteFile
  <2>4. CASE ~(OpenOverlay(ch) \/ AddOverlayLine(ch) \/ CloseOverlay(ch))
    <3>1. /\ overlay'[ch] = overlay[ch]
          /\ at'[ch] = "writeOverlay" <=> at[ch] = "writeOverlay"
      <4>1. CASE UNCHANGED vars \/ Finished \/ Stop
        BY <4>1 DEF vars, Finished, Stop, alarmVars
      <4>2. ASSUME NEW other \in Channel \ {ch}, Routine(other)
            PROVE  overlay'[ch] = overlay[ch] /\ at'[ch] = at[ch]
        BY <4>2 DEF Routine, LoadModel, NoModel, BadDescription, TestRunning, WaitImage,
                    GetFrame, Capture, CaptureNoAnswer, CaptureUndecodable, PostImage,
                    CheckFrame, WaitInference, Infer, PostInference,
                    ProcessChannelAlarms, RaiseAlarm, CancelAlarm, LeaveAlarm,
                    ReadActive, OpenOverlay, OpenOverlayFails, AddOverlayLine,
                    CloseOverlay, SaveImage, alarmVars
      <4>3. CASE Routine(ch)
        BY <2>4, <4>3
           DEF Routine, LoadModel, NoModel, BadDescription, TestRunning, WaitImage,
               GetFrame, Capture, CaptureNoAnswer, CaptureUndecodable, PostImage,
               CheckFrame, WaitInference, Infer, PostInference, ProcessChannelAlarms,
               RaiseAlarm, CancelAlarm, LeaveAlarm, ReadActive, OpenOverlayFails,
               SaveImage, alarmVars
      <4>4. QED
        BY <4>1, <4>2, <4>3 DEF Next
    <3>2. (at'[ch] = "writeOverlay") = (at[ch] = "writeOverlay")
      BY <3>1, Zenon
    <3>3. QED
      BY <3>1, <3>2 DEF File!fileVars
  <2>5. QED
    BY <2>1, <2>2, <2>3, <2>4
<1>3. QED
  BY <1>1, <1>2, FlagKept, Inductive, PTL DEF Spec, WritesOverlayFile

-----------------------------------------------------------------------------
(***************************************************************************)
(* What the history reports on was sent in the same turn, or is black.     *)
(***************************************************************************)
\* Both queues are pushed and popped alike: what is at a place of the longer pair
\* stays at the same place of both.
LEMMA PushPair ==
  ASSUME NEW h \in Seq(SUBSET Class), NEW x \in SUBSET Class,
         NEW e \in Seq(Evidence), NEW y \in Evidence,
         Len(h) = Len(e)
  PROVE  /\ Len(PushFrame(h, x)) = Len(PushFrame(e, y))
         /\ \A i \in 1 .. Len(PushFrame(h, x)) :
              \/ PushFrame(h, x)[i] = x /\ PushFrame(e, y)[i] = y
              \/ \E j \in 1 .. Len(h) : /\ PushFrame(h, x)[i] = h[j]
                                        /\ PushFrame(e, y)[i] = e[j]
<1> DEFINE hx == Append(h, x)
           ey == Append(e, y)
<1>1. /\ hx \in Seq(SUBSET Class) /\ Len(hx) = Len(h) + 1 /\ hx[Len(h) + 1] = x
      /\ \A i \in 1 .. Len(h) : hx[i] = h[i]
      /\ ey \in Seq(Evidence) /\ Len(ey) = Len(e) + 1 /\ ey[Len(e) + 1] = y
      /\ \A i \in 1 .. Len(e) : ey[i] = e[i]
      /\ hx # << >> /\ ey # << >> /\ Len(h) \in Nat
  BY AppendProperties, LenProperties
<1>2. /\ Len(Tail(hx)) = Len(h) /\ \A i \in 1 .. Len(h) : Tail(hx)[i] = hx[i + 1]
      /\ Len(Tail(ey)) = Len(e) /\ \A i \in 1 .. Len(e) : Tail(ey)[i] = ey[i + 1]
  BY <1>1, HeadTailProperties
<1>3. CASE Len(hx) >= HistoryCap
  <2>1. PushFrame(h, x) = Tail(hx) /\ PushFrame(e, y) = Tail(ey)
    BY <1>1, <1>3 DEF PushFrame
  <2>2. \A i \in 1 .. Len(h) :
          \/ Tail(hx)[i] = x /\ Tail(ey)[i] = y
          \/ i + 1 \in 1 .. Len(h) /\ Tail(hx)[i] = h[i + 1] /\ Tail(ey)[i] = e[i + 1]
    BY <1>1, <1>2
  <2>3. \A i \in 1 .. Len(h) :
          \/ Tail(hx)[i] = x /\ Tail(ey)[i] = y
          \/ \E j \in 1 .. Len(h) : Tail(hx)[i] = h[j] /\ Tail(ey)[i] = e[j]
    BY <2>2, Zenon
  <2>4. Len(Tail(hx)) = Len(h) /\ Len(Tail(hx)) = Len(Tail(ey))
    BY <1>2
  <2>5. QED
    BY <2>1, <2>3, <2>4, Zenon
<1>4. CASE ~(Len(hx) >= HistoryCap)
  <2>1. PushFrame(h, x) = hx /\ PushFrame(e, y) = ey
    BY <1>1, <1>4 DEF PushFrame
  <2>2. \A i \in 1 .. Len(h) + 1 :
          \/ hx[i] = x /\ ey[i] = y
          \/ i \in 1 .. Len(h) /\ hx[i] = h[i] /\ ey[i] = e[i]
    BY <1>1
  <2>3. QED
    BY <1>1, <2>1, <2>2
<1>5. QED
  BY <1>3, <1>4

\* What is about to be pushed onto the history is a report on sub_frame, which shows a
\* scene only if the last request was answered: an outage blacks it out, while frame
\* keeps the old picture.  It is empty as long as frame is, and then no turn gets as
\* far as inference.
Inferring == {"waitInference"} \cup InferenceRegion

PictureInv ==
  \A ch \in Channel :
    /\ subFrame[ch] = Scene => answered[ch]
    /\ subFrame[ch] = NoPicture => frame[ch] = NoPicture /\ at[ch] \notin Inferring

\* Only a request changes the pictures, and only the test of frame lets a turn go on
\* to inference.
LEMMA PictureStep == IInv /\ PictureInv /\ [Next]_vars => PictureInv'
<1> SUFFICES ASSUME IInv, PictureInv, [Next]_vars, NEW c \in Channel
             PROVE  /\ subFrame'[c] = Scene => answered'[c]
                    /\ subFrame'[c] = NoPicture =>
                         frame'[c] = NoPicture /\ at'[c] \notin Inferring
  BY DEF PictureInv
<1>1. /\ subFrame[c] = Scene => answered[c]
      /\ subFrame[c] = NoPicture => frame[c] = NoPicture /\ at[c] \notin Inferring
  BY DEF PictureInv
<1> USE <1>1 DEF IInv, TypeOK, Goto, Inferring, InferenceRegion
<1>2. CASE UNCHANGED <<at, frame, subFrame, answered>>
  BY <1>2
<1>3. ASSUME NEW ch \in Channel, ch # c, Routine(ch)
      PROVE  /\ at'[c] = at[c] /\ frame'[c] = frame[c]
             /\ subFrame'[c] = subFrame[c] /\ answered'[c] = answered[c]
  BY <1>3 DEF Routine, LoadModel, NoModel, BadDescription, TestRunning, WaitImage,
              GetFrame, Capture, CaptureNoAnswer, CaptureUndecodable, PostImage,
              CheckFrame, WaitInference, Infer, PostInference, ProcessChannelAlarms,
              RaiseAlarm, CancelAlarm, LeaveAlarm, ReadActive, OpenOverlay,
              OpenOverlayFails, AddOverlayLine, CloseOverlay, SaveImage
<1>4. CASE GetFrame(c)
  BY <1>4 DEF GetFrame, Capture, CaptureNoAnswer, CaptureUndecodable, Scene, Black,
              NoPicture
<1>5. CASE CheckFrame(c) \/ WaitInference(c) \/ Infer(c)
  BY <1>5 DEF CheckFrame, WaitInference, Infer
<1>6. CASE PostInference(c)
  BY <1>6 DEF PostInference
<1>7. CASE LoadModel(c) \/ NoModel(c) \/ BadDescription(c) \/ TestRunning(c)
           \/ WaitImage(c) \/ PostImage(c) \/ SaveImage(c)
  BY <1>7 DEF LoadModel, NoModel, BadDescription, TestRunning, WaitImage, PostImage,
              SaveImage
<1>8. CASE ProcessChannelAlarms(c) \/ ReadActive(c) \/ OpenOverlay(c)
           \/ OpenOverlayFails(c) \/ AddOverlayLine(c) \/ CloseOverlay(c)
  BY <1>8 DEF ProcessChannelAlarms, RaiseAlarm, CancelAlarm, LeaveAlarm, ReadActive,
              OpenOverlay, OpenOverlayFails, AddOverlayLine, CloseOverlay
<1>9. QED
  BY <1>2, <1>3, <1>4, <1>5, <1>6, <1>7, <1>8 DEF Next, Routine, Stop, Finished, vars

\* A report on a scene of an earlier turn is what DetectionsAreFresh rules out.
IsFresh(item) == item.answered \/ item.picture = Black

\* The two queues are pushed and popped together.
FreshInv == /\ \A ch \in Channel : Len(history[ch]) = Len(evidence[ch])
            /\ DetectionsAreFresh

LEMMA FreshStep == IInv /\ PictureInv /\ FreshInv /\ [Next]_vars => FreshInv'
<1> SUFFICES ASSUME IInv, PictureInv, FreshInv, [Next]_vars PROVE FreshInv'
  OBVIOUS
<1> USE DEF IInv, TypeOK
<1>1. CASE UNCHANGED <<history, evidence>>
  BY <1>1 DEF FreshInv, DetectionsAreFresh
<1>2. ASSUME NEW ch \in Channel, Routine(ch), ~PostInference(ch)
      PROVE  UNCHANGED <<history, evidence>>
  BY <1>2 DEF Routine, LoadModel, NoModel, BadDescription, TestRunning, WaitImage,
              GetFrame, Capture, CaptureNoAnswer, CaptureUndecodable, PostImage,
              CheckFrame, WaitInference, Infer, ProcessChannelAlarms, RaiseAlarm,
              CancelAlarm, LeaveAlarm, ReadActive, OpenOverlay, OpenOverlayFails,
              AddOverlayLine, CloseOverlay, SaveImage, seenVars
<1>3. ASSUME NEW ch \in Channel, PostInference(ch) PROVE FreshInv'
  <2> DEFINE item == [picture |-> subFrame[ch], answered |-> answered[ch]]
  <2>1. PICK found \in Reports :
          /\ history'  = [history EXCEPT ![ch] = PushFrame(@, found)]
          /\ evidence' = [evidence EXCEPT ![ch] = PushFrame(@, item)]
    BY <1>3 DEF PostInference, Detect
  <2> DEFINE H == history[ch]
             E == evidence[ch]
             h == PushFrame(H, found)
             e == PushFrame(E, item)
  <2>2. /\ found \in SUBSET Class /\ item \in Evidence
        /\ H \in Seq(SUBSET Class) /\ E \in Seq(Evidence) /\ Len(H) = Len(E)
    BY ReportAssumption DEF FreshInv, Evidence
  <2>3. IsFresh(item)
    BY <1>3 DEF PictureInv, PostInference, Goto, Inferring, InferenceRegion, Picture,
                IsFresh
  <2>4. \A j \in 1 .. Len(H) : IsFresh(E[j])
    BY <2>2, LenProperties DEF FreshInv, DetectionsAreFresh, IsFresh
  <2>5. /\ Len(h) = Len(e) /\ h \in Seq(SUBSET Class)
        /\ \A i \in 1 .. Len(h) : IsFresh(e[i])
    <3> HIDE DEF item, H, E, IInv, TypeOK
    <3>1. h \in Seq(SUBSET Class)
      BY <2>2, PushType
    <3>2. /\ Len(h) = Len(e)
          /\ \A i \in 1 .. Len(h) : \/ e[i] = item
                                    \/ \E j \in 1 .. Len(H) : e[i] = E[j]
      BY <2>2, PushPair
    <3>3. QED
      BY <2>3, <2>4, <3>1, <3>2, Zenon
  <2>6. DOMAIN h = 1 .. Len(h)
    BY <2>5, LenProperties
  <2>7. ASSUME NEW c \in Channel
        PROVE  /\ Len(history'[c]) = Len(evidence'[c])
               /\ \A i \in DOMAIN history'[c] : IsFresh(evidence'[c][i])
    <3>1. CASE c = ch
      <4>1. history'[c] = h /\ evidence'[c] = e
        BY <2>1, <3>1
      <4>2. QED
        BY <2>5, <2>6, <4>1, Zenon
    <3>2. CASE c # ch
      <4>1. history'[c] = history[c] /\ evidence'[c] = evidence[c]
        BY <2>1, <3>2
      <4>2. QED
        BY <4>1 DEF FreshInv, DetectionsAreFresh, IsFresh
    <3>3. QED
      BY <3>1, <3>2
  <2>8. QED
    BY <2>7 DEF FreshInv, DetectionsAreFresh, IsFresh
<1>4. QED
  BY <1>1, <1>2, <1>3 DEF Next, Stop, Finished, vars, seenVars

\* However long the history, whatever inference reports and the rules are and however
\* often the recorder fails to answer: no frame of the history reports on a scene of an
\* earlier turn.
THEOREM FreshKept == Spec => []DetectionsAreFresh
<1>1. Init => PictureInv /\ FreshInv
  BY DEF Init, PictureInv, FreshInv, DetectionsAreFresh, Scene, NoPicture, Inferring,
         InferenceRegion
<1>2. FreshInv => DetectionsAreFresh
  BY DEF FreshInv
<1>3. QED
  BY <1>1, <1>2, PictureStep, FreshStep, Inductive, PTL DEF Spec

-----------------------------------------------------------------------------
(***************************************************************************)
(* The flag of the overlay file and the channel's alarm.                   *)
(***************************************************************************)
\* Between the question whether the channel is active and the last line, the answer
\* stays true, since only the thread itself raises and cancels its alarm.
TellInv ==
  /\ \A ch \in Channel :
       at[ch] \in {"openOverlay", "writeOverlay"} => (isAlarm[ch] <=> ch \in active)
  /\ OverlayTellsAlarm

LEMMA TellStep == IInv /\ FlagInv /\ TellInv /\ [Next]_vars => TellInv'
<1> DEFINE Steps == {"alarms", "readActive", "openOverlay", "writeOverlay"}
           Tells(ch) ==
             /\ at[ch] \in {"openOverlay", "writeOverlay"} =>
                  (isAlarm[ch] <=> ch \in active)
             /\ (ch \notin stale /\ at[ch] \notin Steps /\ overlay[ch].classes # {}
                   => (overlay[ch].alarm <=> ch \in active))
<1>0. TellInv <=> \A ch \in Channel : Tells(ch)
  BY DEF TellInv, OverlayTellsAlarm
<1>00. (TellInv <=> \A ch \in Channel : Tells(ch))'
  BY <1>0, PTL
<1> SUFFICES ASSUME IInv, FlagInv, TellInv, [Next]_vars, NEW c \in Channel
             PROVE  Tells(c)'
  BY <1>00
<1>1. Tells(c)
  BY <1>0
<1> USE <1>1 DEF IInv, TypeOK, Goto
<1>2. CASE UNCHANGED <<at, isAlarm, active, stale, overlay>>
  BY <1>2
<1>3. ASSUME NEW ch \in Channel, ch # c, Routine(ch)
      PROVE  /\ at'[c] = at[c] /\ isAlarm'[c] = isAlarm[c]
             /\ c \in active' <=> c \in active
             /\ (c \in stale' <=> c \in stale) /\ overlay'[c] = overlay[c]
  BY <1>3 DEF Routine, LoadModel, NoModel, BadDescription, TestRunning, WaitImage,
              GetFrame, Capture, CaptureNoAnswer, CaptureUndecodable, PostImage,
              CheckFrame, WaitInference, Infer, PostInference, ProcessChannelAlarms,
              RaiseAlarm, CancelAlarm, LeaveAlarm, ReadActive, OpenOverlay,
              OpenOverlayFails, AddOverlayLine, CloseOverlay, SaveImage, alarmVars,
              seenVars
<1>4. CASE PostInference(c) \/ ProcessChannelAlarms(c) \/ ReadActive(c)
           \/ OpenOverlay(c) \/ AddOverlayLine(c)
  BY <1>4 DEF PostInference, ProcessChannelAlarms, RaiseAlarm, CancelAlarm,
              LeaveAlarm, ReadActive, OpenOverlay, AddOverlayLine, alarmVars
<1>5. CASE OpenOverlayFails(c)
  BY <1>5 DEF OpenOverlayFails
<1>6. CASE CloseOverlay(c)
  BY <1>6 DEF CloseOverlay, FlagInv, alarmVars, seenVars
<1>7. CASE LoadModel(c) \/ NoModel(c) \/ BadDescription(c) \/ TestRunning(c)
           \/ WaitImage(c) \/ GetFrame(c) \/ PostImage(c) \/ CheckFrame(c)
           \/ WaitInference(c) \/ Infer(c) \/ SaveImage(c)
  BY <1>7 DEF LoadModel, NoModel, BadDescription, TestRunning, WaitImage, GetFrame,
              Capture, CaptureNoAnswer, CaptureUndecodable, PostImage, CheckFrame,
              WaitInference, Infer, SaveImage, alarmVars, seenVars
<1>8. QED
  BY <1>2, <1>3, <1>4, <1>5, <1>6, <1>7
     DEF Next, Routine, Stop, Finished, vars, alarmVars, seenVars

\* No channel's file that this run has written says of its alarm what is not so, at any
\* step where the thread is not on its way to write it and unless it could not be
\* opened last time.
THEOREM OverlayTells == Spec => []OverlayTellsAlarm
<1>1. Init => TellInv /\ FlagInv
  BY DEF Init, TellInv, FlagInv, OverlayTellsAlarm
<1>2. TellInv => OverlayTellsAlarm
  BY DEF TellInv
<1>3. QED
  BY <1>1, <1>2, TellStep, FlagKept, Inductive, PTL DEF Spec

=============================================================================
