------------------------------ MODULE DAGMutex ------------------------------
(***************************************************************************)
(* runtime/syncutils/dagmutex.go: one StarvingMutex per entity, created by *)
(* the first consumer and dropped by the last one.  d.Mutex makes the      *)
(* register and unregister helpers atomic; the StarvingMutex itself is     *)
(* (un)locked later, without d.Mutex.  The StarvingMutex is represented by *)
(* the contract it implements (RWLock).  A mutex object is <<id, k>>; k    *)
(* stands for its address, reused only when nothing refers to the object.  *)
(***************************************************************************)
EXTENDS Naturals, FiniteSets, SequencesExt

CONSTANTS Procs, Ids,
          ReadLists,  \* the argument lists of RLock: sequences of distinct Ids
          Addrs       \* bound: more addresses than processes are never needed
None == 0
AddrsAssumption == IsFiniteSet(Addrs) /\ None \notin Addrs

VARIABLES
    consumerCounter, mutexes,  \* the two maps: 0 and None mean "no entry"
    readers, writers,          \* the holders of each mutex object
    pc, ids, todo,  \* per process: location, entities of its call, objects left
    panicked        \* "called Unlock or RUnlock too often"

maps == <<consumerCounter, mutexes>>
locks == <<readers, writers>>
vars == <<maps, locks, pc, ids, todo, panicked>>
Objects == Ids \X Addrs

Init ==
    /\ consumerCounter = [i \in Ids |-> 0] /\ mutexes = [i \in Ids |-> None]
    /\ readers = [o \in Objects |-> {}] /\ writers = [o \in Objects |-> {}]
    /\ pc = [p \in Procs |-> "idle"]
    /\ ids = [p \in Procs |-> <<>>] /\ todo = [p \in Procs |-> <<>>]
    /\ panicked = FALSE

\* An object nothing refers to any more is garbage; its address is free again.
Collect(lock) == [o \in Objects |->
    IF mutexes'[o[1]] = o[2] \/ \E p \in Procs : o \in ToSet(todo'[p]) THEN lock[o] ELSE {}]

Unused(i) == CHOOSE k \in Addrs : \A p \in Procs : <<i, k>> \notin ToSet(todo[p])

MutexFor(i) == IF mutexes[i] = None THEN Unused(i) ELSE mutexes[i]

\* registerMutexes: look up or create the mutex of every id, count the consumer.
Register(p, list, l) ==
    /\ mutexes' = [i \in Ids |-> IF i \in ToSet(list) THEN MutexFor(i) ELSE mutexes[i]]
    /\ consumerCounter' = [i \in Ids |->
            consumerCounter[i] + IF i \in ToSet(list) THEN 1 ELSE 0]
    /\ todo' = [todo EXCEPT ![p] = [n \in DOMAIN list |-> <<list[n], mutexes'[list[n]]>>]]
    /\ ids' = [ids EXCEPT ![p] = list]
    /\ pc' = [pc EXCEPT ![p] = l]
    /\ UNCHANGED <<locks, panicked>>

\* Mutant: the counter is compared after the decrement.
LastConsumerMutant(i) == consumerCounter[i] - 1 = 1
LastConsumer(i) == consumerCounter[i] = 1

\* unregisterMutexes: the last consumer drops the entry (and the mutex with it,
\* still locked); the others have the mutexes to unlock returned to them.
Unregister(p, l) ==
    LET last == {i \in ToSet(ids[p]) : LastConsumer(i)}
        kept == SelectSeq(ids[p], LAMBDA i : i \notin last)
    IN  IF \E i \in ToSet(kept) : mutexes[i] = None
        THEN panicked' = TRUE /\ UNCHANGED <<maps, locks, pc, ids, todo>>
        ELSE /\ mutexes' = [i \in Ids |-> IF i \in last THEN None ELSE mutexes[i]]
             /\ consumerCounter' = [i \in Ids |-> CASE i \in last -> 0
                                    [] i \in ToSet(kept) -> consumerCounter[i] - 1
                                    [] OTHER -> consumerCounter[i]]
             /\ todo' = [todo EXCEPT ![p] = [n \in DOMAIN kept |-> <<kept[n], mutexes[kept[n]]>>]]
             /\ ids' = [ids EXCEPT ![p] = <<>>]
             /\ pc' = [pc EXCEPT ![p] = IF kept = <<>> THEN "idle" ELSE l]
             /\ readers' = Collect(readers) /\ writers' = Collect(writers)
             /\ UNCHANGED panicked

\* One StarvingMutex call of the loop over the mutexes; the last one returns.
Step(p, l, next) ==
    /\ pc[p] = l
    /\ todo' = [todo EXCEPT ![p] = Tail(@)]
    /\ pc' = [pc EXCEPT ![p] = IF Len(todo[p]) = 1 THEN next ELSE l]
    /\ UNCHANGED <<maps, ids, panicked>>

RLock(p)   == pc[p] = "idle" /\ \E list \in ReadLists : Register(p, list, "rlocking")
Lock(p)    == pc[p] = "idle" /\ \E i \in Ids : Register(p, <<i>>, "locking")
RUnlock(p) == pc[p] = "reading" /\ Unregister(p, "runlocking")
Unlock(p)  == pc[p] = "writing" /\ Unregister(p, "unlocking")

MutexRLock(p) ==
    /\ Step(p, "rlocking", "reading")
    /\ writers[Head(todo[p])] = {}
    /\ readers' = [readers EXCEPT ![Head(todo[p])] = @ \cup {p}]
    /\ UNCHANGED writers

MutexRUnlock(p) ==
    /\ Step(p, "runlocking", "idle")
    /\ readers' = Collect([readers EXCEPT ![Head(todo[p])] = @ \ {p}])
    /\ writers' = Collect(writers)

MutexLock(p) ==
    /\ Step(p, "locking", "writing")
    /\ writers[Head(todo[p])] = {} /\ readers[Head(todo[p])] = {}
    /\ writers' = [writers EXCEPT ![Head(todo[p])] = {p}]
    /\ UNCHANGED readers

\* Mutant: Unlock of the mutex is left out.
MutexUnlockMutant(p) == Step(p, "unlocking", "idle") /\ UNCHANGED locks
MutexUnlock(p) ==
    /\ Step(p, "unlocking", "idle")
    /\ writers' = Collect([writers EXCEPT ![Head(todo[p])] = @ \ {p}])
    /\ readers' = Collect(readers)

Call(p)  == RLock(p) \/ Lock(p)
Serve(p) == \/ RUnlock(p) \/ Unlock(p)
            \/ MutexRLock(p) \/ MutexRUnlock(p) \/ MutexLock(p) \/ MutexUnlock(p)
Next == ~panicked /\ \E p \in Procs : Call(p) \/ Serve(p)

Spec == Init /\ [][Next]_vars
-----------------------------------------------------------------------------
\* p has been granted entity i: in full, or as a part of a longer RLock.
Holds(p, i) == i \in ToSet(ids[p]) /\ \A o \in ToSet(todo[p]) : o[1] # i

\* A writer of an entity excludes every other holder of that entity, although
\* the mutex behind the entity is dropped and created again in between.
EntityExclusion == \A i \in Ids : \A p, q \in Procs :
    p # q /\ pc[p] = "writing" /\ Holds(p, i) => ~Holds(q, i)

\* While a call waits for a mutex somebody can go on, at the latest by unlocking:
\* RLock of several entities cannot deadlock with other RLocks and Locks, in
\* whatever order the entities are listed, no mutex is dropped while somebody
\* waits on it, and matched calls do not reach the panic of unregisterMutex.
NoDeadlock ==
    /\ ~panicked
    /\ (\E p \in Procs : pc[p] \in {"rlocking", "locking"}) => ENABLED (\E p \in Procs : Serve(p))
=============================================================================
