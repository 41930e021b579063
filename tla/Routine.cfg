\* Two channels that compete for one permit, stopped at any time, all faults.
SPECIFICATION FairSpec
CONSTANTS
  fallen = fallen
  staff = staff
  ward1 = ward1
  ward2 = ward2
  Channel = {ward1, ward2}
  Class <- MCClass
  Staff = staff
  Reports <- MCReports
  Alarms <- MCAlarms
  FramesToCheck = 1
  HistoryCap = 2
  Permits = 1
  Faults = {"noAnswer", "notAPicture", "noModel", "badDescription", "noOverlayFile"}
INVARIANTS
  PermitsConserved
  DetectionsAreFresh
  OverlayTellsAlarm
PROPERTIES
  WritesOverlayFile
  StopDrains
CHECK_DEADLOCK TRUE
