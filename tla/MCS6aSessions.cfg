\* Three identifiers for a pool of two entries, to the limit of the pool and
\* beyond it.
SPECIFICATION Spec
CONSTANTS
  k1 = k1
  k2 = k2
  k3 = k3
  Keys = {k1, k2, k3}
  PoolSize = 2
  IdleTimeSec = 0
  NoKey = NoKey
  NoApp = NoApp
  S6A = S6A
  Apps = {S6A}
  MaxMsgs = 5
  MaxTime = 3
  MaxDelay = 1
SYMMETRY KeySymmetry
INVARIANTS
  TableStaysSound
PROPERTY ImplementsMatching
CHECK_DEADLOCK FALSE
