SPECIFICATION UserSpec
CONSTANTS
    NPROC = 4
    NFILE = 5
    NOFILE = 5
    NPIPE = 1
    PIPESIZE = 2
    UINT = 4
    Overlap <- MCOverlap
    Victim = {3, 4}
    Cmds <- MCCmds
    Program <- MCProgram
    AnyCalls <- MCAnyCalls
    Message <- MCMessage
    HeapTop = 12
    MinCore = 4
    HeaderSize = 2
    MallocSizes = {1, 3, 7}
    OwnSbrk = {1}
    MAXARGS = 2
    MaxLine = 5
    Alphabet = {"a", " ", "|", "<", ">", "&", ";", "(", ")"}
INVARIANTS
    RefsExact PipeSleepersHaveReason Plumbed
    HeapTiled
    ParsesGrammar
PROPERTIES
    ImplementsFifo 
