\* Two lives of the handler, the second start after a failure of the first.
SPECIFICATION ModbusFairSpec
CONSTANTS
  MaxInits = 2
  MaxStarts = 3
INVARIANTS
  MemorySafe
  StopLeavesNoThread
PROPERTIES
  StopReturns
CHECK_DEADLOCK FALSE
