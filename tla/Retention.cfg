SPECIFICATION Spec
CONSTANTS
  TotalData = 2
  Duration = 0
  MaxTime = 4
  MaxFaults = 2
INVARIANTS
  NewestSamplesKept
  FaultsCostLittle
PROPERTIES
  OwnSampleSurvives
CHECK_DEADLOCK FALSE
