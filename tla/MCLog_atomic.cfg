SPECIFICATION Spec
CONSTANTS
    Proc = {p1, p2}
    Block = {b1, b2}
    Data = {0, 1}
    FirstData = 0
    Absent = Absent
    NoBlock = NoBlock
    MAXOPBLOCKS = 3
    LOGSIZE = 6
    Size = 6
    OpBlocks = 2
    MaxCrashes = 2
INVARIANTS
    IdleMeansDurable
PROPERTIES
    ImplementsAtomicDisk
