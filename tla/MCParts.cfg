SPECIFICATION PartsSpec
CONSTANTS
  MaxTime = 17
  Slots = 3
  FirstSecond = 14
  HopByHopIds = {1, 2}
  Pool = {1, 2}
  MaxMsgs = 4
  UnknownRat = 5
  UnknownCommand = 280
  Bufs = {"b1", "b2", "b3"}
  PerBuf = 2
  MaxPkts = 9
  Monitored = 2
  IntRange = 4
  Elapsed <- Millis
  MaxCount = 3
  MaxDayChanges = 1
  Chars = {9, 10, 32, 37, 43, 47, 58, 60, 62, 65, 61, 92, 97, 120, 123, 125, 198}
  Length = 3
  Septets = {1, 127}
  SeptetLength = 8
  Bits = 6
  MaxOptions = 4
  Threads = {"t1", "t2", "t3"}
  MaxPush = 2
  Users = {"u1", "u2"}
  MaxSets = 2
  Second = 4
  Objects = {"a", "b"}
  Addresses = {0, 1, 2}
  Managers = 2
  Queues = 2
  Frequencies = {0, 2}
  MaxStored = 1
  MaxOpen = 2
INVARIANTS  ColumnsOfPair NamesHold PacketsInOrder StatisticsHold UtilitiesHold LibraryLocksHold
CHECK_DEADLOCK FALSE
