SPECIFICATION FairSpec
CONSTANTS
    Proc = {p1, p2, p3}
    Block = {b1, b2}
    Data = {0}
    FirstData = 0
    Absent = Absent
    NoBlock = NoBlock
    MAXOPBLOCKS = 1
    LOGSIZE = 2
    Size = 2
    OpBlocks = 1
    MaxCrashes = 0
INVARIANTS
    SleepersHaveReason ReservationHolds
PROPERTIES
    SleepersWake
