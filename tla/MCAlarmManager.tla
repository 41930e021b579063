--------------------------- MODULE MCAlarmManager ---------------------------
(***************************************************************************)
(* Small instances of AlarmManager for TLC.                                *)
(***************************************************************************)
EXTENDS AlarmManager

CONSTANTS fallen, staff, ward1, ward2

MCClass == {fallen, staff}

\* An empty frame, a patient on the floor, staff alone, staff with the patient.
MCFrames == SUBSET MCClass

HoldsIf(class) == {frame \in MCFrames : class \in frame}

\* The rule `3' (fallen down) and, as in resource/alarm.conf, the rule `10' on
\* staff itself: frames may satisfy both, one or none.
MCAlarms == <<[target |-> ward1, holds |-> HoldsIf(fallen)],
              [target |-> ward1, holds |-> HoldsIf(staff)]>>

\* One rule for each of two channels; every frame a thread sees raises it, so
\* that the counter moves as much as it can.
MCAlarmsTwo == <<[target |-> ward1, holds |-> {{fallen}}],
                 [target |-> ward2, holds |-> {{fallen}}]>>
MCFramesTwo == {{fallen}}

=============================================================================
