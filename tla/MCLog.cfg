SPECIFICATION FairSpec
CONSTANTS
    Workers = {"w1"}
    LogLevels = {8, 12}
    LineLevels = {4}
    MaxLines = 2
    MaxClock = 3
INVARIANTS  LastLineWritten
PROPERTIES ImplementsChannel LogIsLive
