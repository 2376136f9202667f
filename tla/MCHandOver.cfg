\* Two routers and one session manager, twice round the ring; a router may be
\* held up for two seconds, so that its slot is being emptied.
SPECIFICATION FairSpec
CONSTANTS
  Slots = 3
  Routers = 2
  MaxMsgs = 3
  MaxTime = 7
  MaxStall = 2
  MaxLag = 1
INVARIANTS
  Apart
  InOrder
  NeverRefused
  LateHarmsOnlyLate
PROPERTIES EachIsProcessed
CHECK_DEADLOCK FALSE
