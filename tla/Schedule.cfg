CONSTANTS
  DayLength = 3
  WeekLength = 7
  Weekend = {5, 6}
  Dates = {5}
  MaxId = 2
  LastDay = 8
  MaxRules = 2
SPECIFICATION Spec
INVARIANT TypeOK
INVARIANT CoveredExactly
INVARIANT OneInForce
PROPERTY HoldsToItsEnd
CHECK_DEADLOCK FALSE
