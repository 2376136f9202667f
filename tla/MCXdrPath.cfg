\* Two session managers, one flusher, one writer; the ring wraps twice while
\* writing is switched off and on again.
SPECIFICATION XdrSpec
CONSTANTS
  Slots = 3
  Managers = 2
  MaxRecs = 2
  MaxTime = 8
  MaxToggles = 2
  MaxStall = 1
  MaxLag = 1
INVARIANTS
  InOrder
  Latency
  Conserved
CHECK_DEADLOCK FALSE
