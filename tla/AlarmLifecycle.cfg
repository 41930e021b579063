\* One channel, time runs while the thread is anywhere in its code.
SPECIFICATION FairSpec
CONSTANTS
  fallen = fallen
  staff = staff
  ward1 = ward1
  ward2 = ward2
  Channel = {ward1}
  Class <- MCClass
  Staff = staff
  Frames <- MCFrames
  Alarms <- MCAlarms
  FramesToCheck = 2
  HistoryCap = 4
  CoolTime = 3
  Grace = 2
  IdMax = 2
  IdFileMayFail = TRUE
  MaxRestarts = 1
INVARIANTS
  TypeOK
  RaiseSpacing
  GraceFromNewestNotification
  LogAgreesWithActive
PROPERTIES
  CancelRespectsGrace
  Implements
  AlarmIsRaised
  StaffCancels
CHECK_DEADLOCK TRUE
