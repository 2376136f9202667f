\* Two routers, one buffer in two left free by the cap, a clock skew of one.
SPECIFICATION Spec
CONSTANTS
  Slots = 5
  Routers = 2
  Cap = 1
  Buffers = 2
  SecPerMin = 2
  MaxPkts = 3
  MaxTime = 6
  MaxStall = 1
  MaxSkew = 1
  MaxDrift = 1
  MaxLag = 1
INVARIANTS
  Intact
  MinutesApart
PROPERTY RefusedMeansAllFull
CHECK_DEADLOCK FALSE
