SPECIFICATION FairSpec
CONSTANTS
    NPROC = 2
    NCPU = 1
    MIN_PRIORITY = 1
    MAX_PRIORITY = 3
    DEFAULT_PRIORITY = 2
    AGING_THRESHOLD = 2
    TickMod = 1
    InitCalls = {"fork"}
    UserCalls = {}
    KillPids = {}
    PrioPids = {}
    SleepArgs = {}
    MaxPid = 2
PROPERTIES
    EveryoneGetsCpu
