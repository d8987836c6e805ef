SPECIFICATION HSpec
CONSTANTS
    NPROC = 3
    NCPU = 2
    MIN_PRIORITY = 1
    MAX_PRIORITY = 3
    DEFAULT_PRIORITY = 2
    AGING_THRESHOLD = 2
    TickMod = 1
    InitCalls = {"fork", "wait"}
    UserCalls = {"fork", "setpriority"}
    KillPids = {}
    PrioPids = {2, 3}
    SleepArgs = {}
    MaxPid = 3
INVARIANTS
    RequestedPriorityKept
