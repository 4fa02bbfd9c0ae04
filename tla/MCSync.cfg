CONSTANTS
    A = A
    B = B
    Procs = {p1,p2,p3}
    Ids = {A,B}
    ReadLists <- BothOrders
    Addrs = {1,2,3,4}
    Pools = {"a","b","c"}
    Groups = {"root","sub"}
    Root = "root"
    Parent <- MCParent
    Waiters = {"w1","w2"}
    Target <- MCTarget
    MaxTasks = 2
    Calls = {c1, c2, c3}
    Processes = {q1,q2,q3}
    ElementType = {x1,x2}
    Targets = {"a","b"}
    Linked = "l"
    Callbacks = {"c1"}
    MaxTriggerCount <- MCMaxTriggerCount
    Threads = {t1,t2}
    Linkers = {k1,k2}
    MaxTriggers = 3
    Triggers = {r1,r2}
    Subscribers = {s1,s2,s3}
    Nil = Nil
    Listeners = {l1,l2,l3}
    Notifiers = {n1,n2}
    Values = {v1}
SPECIFICATION Spec
SYMMETRY Symmetry
CHECK_DEADLOCK FALSE
INVARIANT EntityExclusion
INVARIANT NoDeadlock
INVARIANT GroupCountExact
INVARIANT LastOneRuns
INVARIANT AppliedAtomically
INVARIANT CalledOnce
INVARIANT WokenByNotify
