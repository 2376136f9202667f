\* A second may begin between the two readings of the clock.
SPECIFICATION Spec
CONSTANTS
  Slots = 4
  Routers = 1
  MaxMsgs = 1
  MaxTime = 4
  MaxStall = 1
  MaxLag = 1
INVARIANT SlotInRange
CHECK_DEADLOCK FALSE
