---------------------------- MODULE StarvingMutex ----------------------------
(***************************************************************************)
(* runtime/syncutils/starvingmutex.go.  The critical sections under        *)
(* f.mutex are atomic; sync.Cond.Wait enters the notify list before it     *)
(* gives f.mutex up, so checking the predicate and parking is one step.    *)
(* Signal and Broadcast come after f.mutex.Unlock() and are steps of their *)
(* own.  A woken goroutine takes f.mutex again and re-checks.              *)
(* A process unlocks only what it locked (the callers' obligation).        *)
(***************************************************************************)
EXTENDS Naturals, FiniteSets

CONSTANT Procs
ASSUME ProcsAssumption == IsFiniteSet(Procs)

VARIABLES
    readersActive, writerActive, pendingWriters,  \* the fields of the struct
    panicked,  \* a run-time check of RUnlock or Unlock has fired
    pc         \* where each process is

vars == <<readersActive, writerActive, pendingWriters, panicked, pc>>

Reading   == {p \in Procs : pc[p] = "reading"}
Writing   == {p \in Procs : pc[p] = "writing"}
Pending   == {p \in Procs : pc[p] \in {"writerParked", "writerWoken"}}
ParkedOn(state) == {p \in Procs : pc[p] = state}
Locations == {"idle", "reading", "writing", "readerParked", "readerWoken",
              "writerParked", "writerWoken", "signal", "broadcast"}

Init ==
    /\ readersActive = 0 /\ writerActive = FALSE /\ pendingWriters = 0
    /\ panicked = FALSE
    /\ pc = [p \in Procs |-> "idle"]

Goto(p, l) == pc' = [pc EXCEPT ![p] = l]

\* ---------------------------------------------------------------- readers
\* The loop of RLock: park while a writer is active, else enter.
EnterRead(p) ==
    /\ \/ writerActive /\ Goto(p, "readerParked") /\ UNCHANGED readersActive
       \/ ~writerActive /\ Goto(p, "reading") /\ readersActive' = readersActive + 1
    /\ UNCHANGED <<writerActive, pendingWriters, panicked>>

RLock(p)      == pc[p] = "idle" /\ EnterRead(p)
RLockWoken(p) == pc[p] = "readerWoken" /\ EnterRead(p)

\* Mutant: the last reader forgets the writers that wait.
LastReaderWakesMutant == FALSE
LastReaderWakes == readersActive = 1 /\ pendingWriters > 0

RUnlock(p) ==
    /\ pc[p] = "reading"
    /\ IF readersActive = 0 \/ writerActive
       THEN panicked' = TRUE /\ UNCHANGED <<readersActive, pc>>
       ELSE /\ readersActive' = readersActive - 1
            /\ Goto(p, IF LastReaderWakes THEN "signal" ELSE "idle")
            /\ UNCHANGED panicked
    /\ UNCHANGED <<writerActive, pendingWriters>>

\* ---------------------------------------------------------------- writers
\* Mutant: a writer enters as soon as no other writer is active.
canWriteMutant == ~writerActive
canWrite == ~writerActive /\ readersActive = 0

\* The loop of Lock, with pendingWriters already counting the caller.
EnterWrite(p, pending) ==
    /\ IF canWrite
       THEN Goto(p, "writing") /\ writerActive' = TRUE /\ pendingWriters' = pending - 1
       ELSE Goto(p, "writerParked") /\ pendingWriters' = pending /\ UNCHANGED writerActive
    /\ UNCHANGED <<readersActive, panicked>>

Lock(p)      == pc[p] = "idle" /\ EnterWrite(p, pendingWriters + 1)
LockWoken(p) == pc[p] = "writerWoken" /\ EnterWrite(p, pendingWriters)

Unlock(p) ==
    /\ pc[p] = "writing"
    /\ IF readersActive > 0
       THEN panicked' = TRUE /\ UNCHANGED <<writerActive, pc>>
       ELSE /\ writerActive' = FALSE
            /\ Goto(p, IF pendingWriters = 0 THEN "broadcast" ELSE "signal")
            /\ UNCHANGED panicked
    /\ UNCHANGED <<readersActive, pendingWriters>>

\* ------------------------------------------------- the condition variables
\* writerCond.Signal(): wakes one parked writer, if there is one.
Signal(p) ==
    /\ pc[p] = "signal"
    /\ IF ParkedOn("writerParked") = {} THEN Goto(p, "idle")
       ELSE \E w \in ParkedOn("writerParked") :
                pc' = [pc EXCEPT ![p] = "idle", ![w] = "writerWoken"]
    /\ UNCHANGED <<readersActive, writerActive, pendingWriters, panicked>>

\* readerCond.Broadcast(): wakes every parked reader.
Broadcast(p) ==
    /\ pc[p] = "broadcast"
    /\ pc' = [q \in Procs |-> IF q = p THEN "idle"
                              ELSE IF pc[q] = "readerParked" THEN "readerWoken"
                              ELSE pc[q]]
    /\ UNCHANGED <<readersActive, writerActive, pendingWriters, panicked>>

\* A panic leaves f.mutex locked: nothing moves after it.
Internal(p) == RLockWoken(p) \/ LockWoken(p) \/ Signal(p) \/ Broadcast(p)
Call(p)     == RLock(p) \/ RUnlock(p) \/ Lock(p) \/ Unlock(p)
Next == ~panicked /\ \E p \in Procs : Internal(p) \/ Call(p)

Spec == Init /\ [][Next]_vars

\* The scheduler runs a goroutine that is not blocked.  Nobody has to call.
FairSpec == Spec /\ \A p \in Procs : WF_vars(~panicked /\ Internal(p))
-----------------------------------------------------------------------------
TypeOK ==
    /\ readersActive \in Nat /\ pendingWriters \in Nat
    /\ writerActive \in BOOLEAN /\ panicked \in BOOLEAN
    /\ pc \in [Procs -> Locations]

\* The counters of the struct are what the processes really do: readersActive
\* counts the readers, writerActive says that one process (and only one)
\* writes, pendingWriters counts the writers between the two halves of Lock.
Bookkeeping ==
    /\ readersActive = Cardinality(Reading)
    /\ pendingWriters = Cardinality(Pending)
    /\ writerActive <=> Writing # {}
    /\ \A p, q \in Writing : p = q

\* A writer excludes every reader and every other writer, across the barging
\* of newcomers between an Unlock and the wake-up it sends.
MutualExclusion ==
    /\ Writing # {} => Reading = {}
    /\ \A p, q \in Writing : p = q

\* The checks in RUnlock and Unlock never fire for callers that unlock what
\* they locked.
NoPanic == ~panicked

\* No lost wake-up: when the lock is free, a parked writer has a wake-up on
\* its way, and a parked reader has one or has pending writers before it.
NoLostWakeup ==
    /\ canWrite /\ ParkedOn("writerParked") # {} =>
           ParkedOn("signal") \cup ParkedOn("writerWoken") # {}
    /\ ~writerActive /\ ParkedOn("readerParked") # {} =>
           ParkedOn("broadcast") \cup Pending # {}

\* The lock does not stay free while somebody is parked on it.
FreeLockIsTaken ==
    (canWrite /\ ParkedOn("writerParked") \cup ParkedOn("readerParked") # {})
        ~> (~canWrite \/ ParkedOn("writerParked") \cup ParkedOn("readerParked") = {})

\* The mutex implements the reader/writer lock contract.
RW == INSTANCE RWLock WITH readers <- Reading, writers <- Writing
ImplementsRWLock == RW!Spec
=============================================================================
