-------------------------- MODULE MCChannelRoutine --------------------------
(***************************************************************************)
(* Small instances of ChannelRoutine for TLC.                              *)
(***************************************************************************)
EXTENDS ChannelRoutine

CONSTANTS fallen, staff, ward1, ward2

MCClass == {fallen, staff}

HoldsIf(class) == {seen \in SUBSET MCClass : class \in seen}

\* A rule on something present for the first channel, and one on something absent
\* (`not 3') for the second, which an empty report satisfies.
MCAlarms == <<[target |-> ward1, holds |-> HoldsIf(fallen)],
              [target |-> ward2, holds |-> SUBSET MCClass \ HoldsIf(fallen)]>>

\* A report that satisfies the first channel's rule and not the second's, and lets
\* staff cancel.
MCReports == {{fallen, staff}}

=============================================================================
