SPECIFICATION Spec
CONSTANTS
    Proc = {p1, p2}
    Block = {b1, b2, b3, b4}
    Data = {0}
    FirstData = 0
    Absent = Absent
    NoBlock = NoBlock
    MAXOPBLOCKS = 2
    LOGSIZE = 4
    Size = 4
    OpBlocks = 2
    MaxCrashes = 0
INVARIANTS
    LogFits
