CONSTANTS
    Elements = {e1,e2}
    Times = {1}
    Workers = {w1,w2}
    Callers = {c1}
    NonBlocking = {}
    FlagSets = {{}}
    maxSize = 0
    AddDuringShutdown = FALSE
SPECIFICATION FairSpec
CHECK_DEADLOCK FALSE
PROPERTY ShutdownTerminates
