CONSTANTS
    Writers = {w1,w2}
    Subscribers = {s1,s2}
    Value = {0,1,2}
    Zero = 0
    Transform <- Latest
    Adds = {"a1","a2"}
    Dones = {"d1","d2","d3"}
    Width = 2
    Evictors = {e1,e2}
    Readers = {r1,r2}
    LastSlot = 2
    N = 3
    InputValues = {0,1}
    MaxWrites = 1
SPECIFICATION ReactiveSpec
CHECK_DEADLOCK FALSE
INVARIANT GapFree
INVARIANT UpToDate
INVARIANT TornDown
PROPERTY CallsReturn
INVARIANT AllDoneTriggers
PROPERTY NeverEarly
INVARIANT EventNotLost
INVARIANT Consistent
