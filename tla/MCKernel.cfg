SPECIFICATION KernelSpec
CONSTANTS
    Proc = {p1, p2}
    InitProc = p1
    Frame = {1, 2, 3, 4, 5, 6, 7, 8, 9}
    None = None
    PGSIZE = 2
    KERNBASE = 10
    EAGER = 4
    Image <- Images
    SbrkArgs <- Sbrks
    InitCalls = {"fork", "store", "read", "exec", "sbrk"}
    UserCalls = {"exit", "read", "store", "sbrk", "exec"}
    MaxCalls = 3
    Thread = {t1, t2}
    NBUF = 2
    Block = {1, 2, 3}
    Sector = {"old", "new", "other"}
    Stores <- BlockContents
    Nil = Nil
    CPU = {c1, c2}
    Lock = {1, 2}
    NoCPU = NoCPU
    Reader = {q1, q2}
    NoReader = NoReader
    Plain = {"a"}
    INPUT_BUF = 2
    Wrap = 4
    ROWS = 2
    COLS = 2
    ReadSizes = {1, 3}
    Writes <- MCWrites
INVARIANTS
    FramesAccounted
    OneBufferPerBlock GetsItsBlock BufSleepersHaveReason
    MutualExclusion NoPanic FlagRestored
    CursorOnScreen ConsoleNotStuck
PROPERTIES
    ImplementsAddressSpaces
    ImplementsBlockStore RequestsAnswered
    ImplementsLineDiscipline EofGivesZero
