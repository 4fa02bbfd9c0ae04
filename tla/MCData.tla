------------------------------- MODULE MCData -------------------------------
(***************************************************************************)
(* Data structures and stores, in one run.  A behaviour uses one of them,  *)
(* its subject.                                                            *)
(*  - EventTicker: two callers, two ids with successive indices.           *)
(*  - PriorityQueue: up to Elements pushed, in both orders.                *)
(*  - SafeMath: one call, signed and unsigned operands.                    *)
(*  - List: two lists that share their elements by mistake or on purpose.  *)
(*  - OrderedMap: three keys, an iterator that runs while the map changes. *)
(*  - Containers: one of each kind, small enough to be full.               *)
(*  - DerivedSet and SubtractReactive: two sources that change, and longer *)
(*    with one element.                                                    *)
(*  - SortedSet: three elements, with and without a Less method.           *)
(*  - mapDB: two batches and a reader.                                     *)
(*  - flushkv and the health tracker: two versions of a program that       *)
(*    crashes.                                                             *)
(*  - authenticatedMap: writes that fail, restarts at any point.           *)
(***************************************************************************)
EXTENDS Integers

CONSTANTS Callers, i1, i2, MaxRequestThreshold, MaxTasks, Overlap, DuringTick,
          Elements, Times, Width, Corner, LongShift, Overflow, DivisionByZero,
          Lists, Nodes, Keys, Values, Nil, Iterators, MaxElements,
          Kinds, Capacity, Ratio, Count, MaxDeleted, MaxEntries, MaxTime,
          Sources, First, ElementType, MaxCalls, SortedType, Weights, MaxSortedCalls,
          StoreKeys, Batches, Readers, MaxMutations, Absent, DataKeys, Versions, MaxPending, SizeBits, Marks
VARIABLES subject,
    pending, tasks, entry, scheduledTickerCount, lastEvictedIndex, tickerPc, id, task, count, shutdown,
    heap, at, pushed, popped,
    op, args, result,
    nodes, order, dropped, last,
    head, tail, dictionary, size, entries, allocated, iter, mapOrder,
    c, ref, got, want,
    value, setCalls, setPc, changes, listed, subscription, setMutex, sourceElements,
    counts, derived, derivedMutex, minuend, difference, setUp,
    members, weightVariable, calls, sortedCall, setter, sortedMutex, weightMutex, subscribed, assigned,
    sortedElements, weight, heaviestElement, lightestElement,
    m, mutex, closed, batch, mutations, committed, answer,
    durable, unflushed, call, storeVersion, ready, allowed,
    tree, imported, stored, root, mapSize, rawKeys, mapCall, lastCommit, intact

MCIndex(i) == IF i = i1 THEN 1 ELSE 2
ET == INSTANCE EventTicker WITH Ids <- {i1, i2}, Index <- MCIndex, pc <- tickerPc
Up == INSTANCE PriorityQueue WITH Ascending <- TRUE, result <- popped
Down == INSTANCE PriorityQueue WITH Ascending <- FALSE, result <- popped
SInt == INSTANCE SafeMath WITH Signed <- TRUE
UInt == INSTANCE SafeMath WITH Signed <- FALSE
OneValue == {CHOOSE v \in Values : TRUE}
LI == INSTANCE List WITH heap <- nodes, Values <- OneValue
OM == INSTANCE OrderedMap WITH heap <- entries, order <- mapOrder, Values <- OneValue
CO == INSTANCE Containers
RS == INSTANCE ReactiveSets WITH Overlap <- FALSE, calls <- setCalls, pc <- setPc,
        mutations <- changes, executionMutex <- setMutex, active <- setUp
RS1 == INSTANCE ReactiveSets WITH Overlap <- FALSE, calls <- setCalls, pc <- setPc,
        mutations <- changes, executionMutex <- setMutex, active <- setUp,
        ElementType <- {First}, MaxCalls <- MaxCalls + 2
SS == INSTANCE SortedSet WITH Lessable <- TRUE, Concurrent <- FALSE, ElementType <- SortedType,
        MaxCalls <- MaxSortedCalls, mutex <- sortedMutex, executionMutex <- weightMutex, call <- sortedCall
SS2 == INSTANCE SortedSet WITH Lessable <- FALSE, Concurrent <- FALSE, ElementType <- SortedType,
        MaxCalls <- MaxSortedCalls, mutex <- sortedMutex, executionMutex <- weightMutex, call <- sortedCall
ST == INSTANCE Stores WITH Keys <- StoreKeys, pending <- unflushed, nodes <- stored, size <- mapSize
ASSUME Assumptions ==
    /\ ET!EventTickerAssumption /\ Up!AscendingAssumption /\ Down!AscendingAssumption
    /\ SInt!SafeMathAssumption /\ OM!OrderedMapAssumption /\ CO!ContainersAssumption
    /\ RS!ReactiveSetsAssumption /\ SS!SortedSetAssumption /\ SS2!SortedSetAssumption

tickerVars == <<pending, tasks, entry, scheduledTickerCount, lastEvictedIndex, tickerPc, id, task,
                count, shutdown>>
queueVars == <<heap, at, pushed, popped>>
mathVars == <<op, args, result>>
listVars == <<nodes, order, dropped, last>>
mapVars == <<head, tail, dictionary, size, entries, allocated, iter, mapOrder>>
containerVars == <<c, ref, got, want>>
derivedVars == <<value, setCalls, setPc, changes, listed, subscription, setMutex, sourceElements,
                 counts, derived, derivedMutex, minuend, difference, setUp>>
sortedVars == <<members, weightVariable, calls, sortedCall, setter, sortedMutex, weightMutex,
                subscribed, assigned, sortedElements, weight, heaviestElement, lightestElement>>
mapDBVars == <<m, mutex, closed, batch, mutations, committed, answer>>
storeVars == <<durable, unflushed, call, storeVersion, ready, allowed>>
coreVars == <<tickerVars, queueVars, mathVars>>
dsVars == <<listVars, mapVars, containerVars>>
reactiveVars == <<derivedVars, sortedVars>>
adsVars == <<tree, imported, stored, root, mapSize, rawKeys, mapCall, lastCommit, intact>>
kvVars == <<mapDBVars, storeVars, adsVars>>

Init == /\ subject \in {"EventTicker", "ascending queue", "descending queue", "int", "uint",
                        "List", "OrderedMap", "container", "DerivedSet",
                        "DerivedSet, one element", "SortedSet", "SortedSet without Less", "mapDB", "flushkv",
                        "authenticatedMap"}
        /\ ET!Init /\ Up!Init /\ SInt!Init
        /\ LI!Init /\ OM!Init /\ CO!Init /\ SS!Init
        /\ IF subject = "DerivedSet" THEN RS!Init ELSE RS1!Init
        /\ ST!MapInit /\ ST!StoreInit /\ ST!AdsInit
        /\ subject # "container" => c = CO!New("Queue").c
CoreNext ==
    /\ \/ subject = "EventTicker" /\ ET!Next /\ UNCHANGED <<queueVars, mathVars>>
       \/ subject = "ascending queue" /\ Up!Next /\ UNCHANGED <<tickerVars, mathVars>>
       \/ subject = "descending queue" /\ Down!Next /\ UNCHANGED <<tickerVars, mathVars>>
       \/ subject = "int" /\ SInt!Next /\ UNCHANGED <<tickerVars, queueVars>>
       \/ subject = "uint" /\ UInt!Next /\ UNCHANGED <<tickerVars, queueVars>>
    /\ UNCHANGED <<dsVars, reactiveVars, kvVars>>
DsNext ==
    /\ \/ subject = "List" /\ LI!Next /\ UNCHANGED <<mapVars, containerVars>>
       \/ subject = "OrderedMap" /\ OM!Next /\ UNCHANGED <<listVars, containerVars>>
       \/ subject = "container" /\ CO!Next /\ UNCHANGED <<listVars, mapVars>>
    /\ UNCHANGED <<coreVars, reactiveVars, kvVars>>
ReactiveNext ==
    /\ \/ subject = "DerivedSet" /\ RS!Next /\ UNCHANGED sortedVars
       \/ subject = "DerivedSet, one element" /\ RS1!Next /\ UNCHANGED sortedVars
       \/ subject = "SortedSet" /\ SS!Next /\ UNCHANGED derivedVars
       \/ subject = "SortedSet without Less" /\ SS2!Next /\ UNCHANGED derivedVars
    /\ UNCHANGED <<coreVars, dsVars, kvVars>>
KVNext ==
    /\ \/ subject = "mapDB" /\ ST!MapNext /\ UNCHANGED <<storeVars, adsVars>>
       \/ subject = "flushkv" /\ ST!StoreNext /\ UNCHANGED <<mapDBVars, adsVars>>
       \/ subject = "authenticatedMap" /\ ST!AdsNext /\ UNCHANGED <<mapDBVars, storeVars>>
    /\ UNCHANGED <<coreVars, dsVars, reactiveVars>>
Next == (CoreNext \/ DsNext \/ ReactiveNext \/ KVNext) /\ UNCHANGED subject
Spec == Init /\ [][Next]_<<subject, coreVars, dsVars, reactiveVars, kvVars>>

\* EventTicker: between the calls every entry has its task and every task its entry; nothing is
\* left of an evicted id, and it does not come back.
EntryMatchesTask == subject = "EventTicker" => ET!EntryMatchesTask /\ ET!EvictedIsGone
\* DerivedSet: once no call is under way, derived and difference sets hold what their sources do.
\* SortedSet: the slice is then the set by descending weight; no two calls change it at a time,
\* and none waits for ever.
FollowsSources ==
    /\ subject = "DerivedSet" => RS!FollowsSources
    /\ subject = "DerivedSet, one element" => RS1!FollowsSources
    /\ subject = "SortedSet" => SS!SortedByWeight /\ SS!Synchronized /\ SS!NeverStuck
    /\ subject = "SortedSet without Less" => SS2!SortedByWeight /\ SS2!Synchronized /\ SS2!NeverStuck
\* mapDB: Get answers as if batches were applied at once.
ReadsCommitted == subject = "mapDB" => ST!ReadsCommitted
\* flushkv and the health tracker: a crash keeps what was flushed, and a program only runs on
\* data of its version.  authenticatedMap: the size and the keys match the tree, and a restart
\* brings back the contents of the last Commit.
SurvivesCrash ==
    /\ subject = "flushkv" => ST!SurvivesCrash /\ ST!DataOfVersion
    /\ subject = "authenticatedMap" => ST!SizeMatchesTree /\ ST!CommittedComesBack
=============================================================================
