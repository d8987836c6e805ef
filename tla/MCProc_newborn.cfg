SPECIFICATION Spec
CONSTANTS
    NPROC = 3
    NCPU = 1
    MIN_PRIORITY = 1
    MAX_PRIORITY = 1
    DEFAULT_PRIORITY = 1
    AGING_THRESHOLD = 1
    TickMod = 1
    InitCalls = {"fork", "wait"}
    UserCalls = {"fork", "kill"}
    KillPids = {0}
    PrioPids = {}
    SleepArgs = {}
    MaxPid = 3
PROPERTIES
    NewbornNotKilled
