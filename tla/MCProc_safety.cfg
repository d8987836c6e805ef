SPECIFICATION Spec
CONSTANTS
    NPROC = 3
    NCPU = 2
    MIN_PRIORITY = 1
    MAX_PRIORITY = 1
    DEFAULT_PRIORITY = 1
    AGING_THRESHOLD = 1
    TickMod = 3
    InitCalls = {"fork", "wait", "exit"}
    UserCalls = {"fork", "wait", "exit", "kill", "fault", "sleep"}
    KillPids = {2, 3}
    PrioPids = {}
    SleepArgs = {0, 2}
    MaxPid = 3
INVARIANTS
    OneCpuPerProcess StackWhileOnCpu ParentsLive
    WaitersWaitForSomething SleepersHaveTicksLeft
