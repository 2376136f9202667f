\* Two keys for a pool of one entry in both applications; retransmissions, late
\* answers, reuse of the key after a flush and a cleanup, time stamps that are
\* behind and ahead of the clock.
SPECIFICATION FairSpec
CONSTANTS
  k1 = k1
  k2 = k2
  Keys = {k1,k2}
  PoolSize = 1
  IdleTimeSec = 0
  NoKey = NoKey
  NoApp = NoApp
  Apps = {GX, GY}
  GX = GX
  GY = GY
  MaxMsgs = 4
  MaxTime = 3
  MaxDelay = 1
  ClockLead = 1
INVARIANTS
  TablesConsistent
  RecordsSound
  NothingVanishes
PROPERTIES
  NotDroppedEarly
  HalfSessionsEnd
CONSTRAINT Defined
CHECK_DEADLOCK FALSE
