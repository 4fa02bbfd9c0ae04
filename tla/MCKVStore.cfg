CONSTANTS
    Modulus = 8
    Intervals = {1, 2, 3}
    FreshRelease = FALSE
    Wraps = FALSE
    Callers = {c1,c2,c3}
    Value = {v1,v2,v3}
    Unencodable = {v3}
    ComputesAny = FALSE
    Absent = absent
    Garbage = garbage
    Nil = nil
    Error = error
    Enqueuers = {c1,c2}
    Objects = {o1,o2}
    QueueSize = 1
    BatchSize = 2
    MaxChanges = 3
    Timeouts = TRUE
    EarlyStop = FALSE
    Overlap = FALSE
SPECIFICATION KVSpec
CHECK_DEADLOCK FALSE
INVARIANT StoreAhead
PROPERTY Increasing
INVARIANT AnswersCurrent
INVARIANT NoLostUpdate
PROPERTY EnqueuedIsWritten
