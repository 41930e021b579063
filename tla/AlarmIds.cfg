\* Two channels that raise as often as they can, the program restarting wherever
\* it is; the time constants are zero, so that only the id counter matters.
SPECIFICATION Spec
CONSTANTS
  fallen = fallen
  staff = staff
  ward1 = ward1
  ward2 = ward2
  Channel = {ward1, ward2}
  Class <- MCClass
  Staff = staff
  Frames <- MCFramesTwo
  Alarms <- MCAlarmsTwo
  FramesToCheck = 1
  HistoryCap = 2
  CoolTime = 0
  Grace = 0
  IdMax = 3
  IdFileMayFail = FALSE
  MaxRestarts = 2
INVARIANTS
  IdsSentOnce
  IdFileNotAhead
CHECK_DEADLOCK TRUE
