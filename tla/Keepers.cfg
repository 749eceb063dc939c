CONSTANTS
    u1 = u1
    u2 = u2
    Enrolled <- MCEnrolled
    MaxRuns = 2
    MaxTrades = 1
    Room = 2
    MaxFaults = 1
SPECIFICATION KeepersSpec
CONSTRAINT Kinds ForFirst
INVARIANTS
    RowsTellTrades
PROPERTY
    EveryRunEnds
CHECK_DEADLOCK FALSE
