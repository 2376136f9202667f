\* Start, two changes of the day, commands and signals at any moment; every
\* file of up to four lines out of fifteen, loaded and reloaded.
\* The program may have ended, or have read its file for the last time.
SPECIFICATION StartSpec
CONSTANTS
  Interfaces = 2
  MaxDays = 2
  MaxCommands = 2
  MaxInterfaces = 2
  MaxRouters = 8
  DefaultPps = 500000
  DefaultCap = 50
  Texts <- Files
  MaxLines = 4
  MaxReloads = 1
INVARIANTS
  ReadyBeforeTraffic
  JoinDefined
  TodayOnly
  AsWritten
  BuffersForAll
PROPERTIES
  StopsWhenAsked
CHECK_DEADLOCK FALSE
