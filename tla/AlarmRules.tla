----------------------------- MODULE AlarmRules -----------------------------
(***************************************************************************)
(* The detection history of a channel and the test of an alarm's condition *)
(* on it (src/src/alarm/alarm.cpp, src/src/main.cpp:332-348).  A frame is  *)
(* the set of classes detected on it; a condition is the set of frames it  *)
(* holds on.                                                               *)
(***************************************************************************)
EXTENDS Integers, Sequences

CONSTANTS
  FramesToCheck,   \* frames_to_check of define_alarm
  HistoryCap       \* size at which detected_class_history is popped (200)

ASSUME WindowAssumption == FramesToCheck \in Nat \ {0} /\ HistoryCap \in Nat \ {0}

\* Mutant of PushFrame: nothing is ever popped.
PushFrameForever(h, frame) == Append(h, frame)

\* detected_class_history.push_back, then pop_front once the deque holds
\* HistoryCap items.
PushFrame(h, frame) ==
  LET longer == Append(h, frame)
  IN  IF Len(longer) >= HistoryCap THEN Tail(longer) ELSE longer

\* define_alarm: the condition holds on each of the last FramesToCheck frames.
\* The argument persist_seconds of the code is not used there.
Persists(holds, h) ==
  /\ Len(h) >= FramesToCheck
  /\ \A i \in (Len(h) - FramesToCheck + 1) .. Len(h) : h[i] \in holds

=============================================================================
