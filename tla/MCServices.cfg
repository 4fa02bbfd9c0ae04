CONSTANTS
    Clients = {c1,c2}
    Topics = {t1,t2}
    Callers = {p1}
    MaxCount = 2
    Limit = 2
    Peers = {w1,w2}
    SendSize = 1
    BroadcastSize = 1
    e1 = e1
    e2 = e2
    e3 = e3
    Times = {1,2}
    Workers = {w1,w2}
    Stoppers = {s1}
    NonBlocking = {}
    FlagSets = {{},{"Cancel","DontWait"},{"Ignore","Panic"}}
    maxSize = 2
    AddDuringShutdown = FALSE
    Overlap = FALSE
SPECIFICATION Spec
CHECK_DEADLOCK FALSE
 
INVARIANT HubGoesOn
 
PROPERTY RemovedMeansUnused
