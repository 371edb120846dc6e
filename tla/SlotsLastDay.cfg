SPECIFICATION Spec
CONSTANTS
  HoursADay = 3  DaysAhead = 2
INVARIANT OfferedIsUnblocked
CHECK_DEADLOCK FALSE
