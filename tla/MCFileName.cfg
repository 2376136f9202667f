\* Second 16 begins a new minute, hour, day and month.
SPECIFICATION Spec
CONSTANTS
  Slots = 3
  FirstSecond = 14
  MaxTime = 17
INVARIANT NameIsAMoment
CHECK_DEADLOCK FALSE
