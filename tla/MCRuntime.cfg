CONSTANTS
    Procs = {p1,p2,p3,p4}
    PoolWorkers = {w1,w2}
    Tasks = {t1,t2,t3}
    MaxStarts = 1
    MaxShutdowns = 1
    optCancelPendingTasksOnShutdown = FALSE
    SubmitDuringShutdown = FALSE
    Handlers = {"a","b","b2","c"}
    SelfEnding = {"a","b"}
    LateCalls = FALSE
    Disabled = {"b"}
    Handler = "s"
    HasWorker = {"a","s"}
    Racing = FALSE
SPECIFICATION RuntimeSpec
CHECK_DEADLOCK FALSE
INVARIANT NoLostWakeup
INVARIANT DrainedOnShutdown
INVARIANT ShutdownOrderKept
INVARIANT CleanExit
PROPERTY ImplementsRWLock
PROPERTY FreeLockIsTaken
PROPERTY SubmittedFinishes
PROPERTY ShutdownTerminates
