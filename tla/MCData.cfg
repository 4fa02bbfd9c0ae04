CONSTANTS
    Callers = {c1,c2}
    i1 = i1
    i2 = i2
    MaxRequestThreshold = 1
    MaxTasks = 4
    Overlap = FALSE
    DuringTick = FALSE
    Elements = {1,2,3,4,5}
    Times = {1,2}
    Width = 4
    Corner = FALSE
    LongShift = FALSE
    Overflow = overflow
    DivisionByZero = divisionByZero
    Lists = {l1,l2}
    Nodes = {n1,n2,n3,n4}
    Keys = {k1,k2,k3}
    Values = {x,y}
    Nil = Nil
    Iterators = {it}
    MaxElements = 4
    Kinds = {"Queue","RingBuffer","BytesFilter","RandomMap","ShrinkingMap","Walker","revisiting Walker","TimeHeap","OnChangeMap","IndexedStorage"}
    Capacity = 3
    Ratio = 2
    Count = 3
    MaxDeleted = 6
    MaxEntries = 4
    MaxTime = 3
    Sources = {a,b}
    First = a
    ElementType = {x,y}
    MaxCalls = 2
    SortedType = {1,2,3}
    Weights = {0,1,2}
    MaxSortedCalls = 6
    StoreKeys = {k1,k2}
    Batches = {b1,b2}
    Readers = {r1}
    MaxMutations = 3
    Absent = Absent
    DataKeys = {"x","y"}
    Versions = {1,2}
    MaxPending = 1
    SizeBits = 2
    Marks = {"dbCorrupted"}
SPECIFICATION Spec
CHECK_DEADLOCK FALSE
INVARIANT EntryMatchesTask
 
INVARIANT FollowsSources
INVARIANT ReadsCommitted
INVARIANT SurvivesCrash
