SPECIFICATION FairInitSpec
CONSTANTS
    NPROC = 3
    NCPU = 1
    MIN_PRIORITY = 1
    MAX_PRIORITY = 3
    DEFAULT_PRIORITY = 2
    AGING_THRESHOLD = 1
    TickMod = 1
    InitCalls = {"fork", "wait"}
    UserCalls = {"fork", "exit", "wait", "kill", "setpriority"}
    KillPids = {2}
    PrioPids = {2}
    SleepArgs = {}
    MaxPid = 3
PROPERTIES
     InitGetsCpu WaitingReachesTop
    OrphansReaped KilledExits
