\* What the comment on the cooldown check says, on the smallest instance: an alarm
\* that outlasts its cooldown is notified again while it is active.
SPECIFICATION Spec
CONSTANTS
  fallen = fallen
  staff = staff
  ward1 = ward1
  ward2 = ward2
  Channel = {ward1}
  Class <- MCClass
  Staff = staff
  Frames <- MCFrames
  Alarms <- MCAlarms
  FramesToCheck = 2
  HistoryCap = 4
  CoolTime = 1
  Grace = 2
  IdMax = 2
  IdFileMayFail = FALSE
  MaxRestarts = 0
INVARIANT
  NoAlarmWhileActive
CHECK_DEADLOCK TRUE
