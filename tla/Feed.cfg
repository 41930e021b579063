\* Torn files and answers that overtake each other, a list that overflows, a crash.
SPECIFICATION FairSpec
CONSTANTS
  Cap = 2
  MaxLines = 3
  MaxPolls = 2
  MaxCrashes = 1
INVARIANTS
  TypeOK
  NoAlarmSkipped
  AlarmPopsUpOnce
PROPERTIES
  AlarmPopsUp
CHECK_DEADLOCK TRUE
