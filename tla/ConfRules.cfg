\* Files of up to five lines, conditions of up to four classes.
SPECIFICATION Spec
CONSTANTS
  Class <- MCClass
  Numbers = {"3", "10", "x"}
  Rules <- MCRules
  LongRules <- MCLongRules
  StrayLines = {"blank", "risk_level"}
  MaxWords = 5
  MaxLines = 5
INVARIANTS
  TypeOK
  EveryBlockIsARule
  ConditionMeansWhatItSays
CHECK_DEADLOCK TRUE
