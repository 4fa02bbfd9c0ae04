------------------------- MODULE StarvingMutexProofs -------------------------
(***************************************************************************)
(* StarvingMutex for any finite set of processes: the counters are exact,  *)
(* writers exclude everybody, the run-time checks never fire, no wake-up   *)
(* is lost, and the mutex implements RWLock.                               *)
(***************************************************************************)
EXTENDS StarvingMutex, FiniteSetTheorems, TLAPS

\* MutualExclusion is not inductive: whether the lock is free is decided from
\* the counters, so they have to be exact (Bookkeeping), and the reader count
\* has to be 0 while a writer is active.
IInv == TypeOK /\ Bookkeeping /\ NoPanic /\ (writerActive => Reading = {})

\* Replacing a process' location by one outside a class removes it from the
\* class; the class shrinks by one if it was in it.
LEMMA Leave ==
    ASSUME NEW S, IsFiniteSet(S), NEW x \in S
    PROVE  /\ IsFiniteSet(S \ {x}) /\ Cardinality(S) \in Nat
           /\ Cardinality(S) > 0
           /\ Cardinality(S \ {x}) = Cardinality(S) - 1
<1>1. IsFiniteSet(S \ {x}) /\ Cardinality(S \ {x}) = Cardinality(S) - 1
  BY FS_RemoveElement
<1>2. Cardinality(S) \in Nat /\ Cardinality(S \ {x}) \in Nat
  BY <1>1, FS_CardinalityType
<1> QED BY <1>1, <1>2

\* A process that enters a class makes it one larger.
LEMMA Join ==
    ASSUME NEW S, IsFiniteSet(S), NEW x, x \notin S
    PROVE  IsFiniteSet(S \cup {x}) /\ Cardinality(S \cup {x}) = Cardinality(S) + 1
BY FS_AddElement

\* The classes of processes the counters speak of are finite.
LEMMA ClassesFinite ==
    /\ IsFiniteSet(Reading) /\ Cardinality(Reading) \in Nat
    /\ IsFiniteSet(Pending) /\ Cardinality(Pending) \in Nat
<1>1. Reading \subseteq Procs /\ Pending \subseteq Procs BY DEF Reading, Pending
<1> QED BY <1>1, ProcsAssumption, FS_Subset, FS_CardinalityType

\* readersActive is 0 exactly when nobody reads.
LEMMA NoReaders ==
    ASSUME Bookkeeping PROVE readersActive = 0 <=> Reading = {}
BY ClassesFinite, FS_EmptySet DEF Bookkeeping

\* A new mutex (NewStarvingMutex) satisfies the invariant.
LEMMA InitInv == Init => IInv
<1> SUFFICES ASSUME Init PROVE IInv OBVIOUS
<1>1. TypeOK BY DEF Init, TypeOK, Locations
<1>2. Reading = {} /\ Writing = {} /\ Pending = {}
  BY DEF Init, Reading, Writing, Pending
<1>3. Bookkeeping BY <1>2, FS_EmptySet DEF Init, Bookkeeping
<1> QED BY <1>1, <1>2, <1>3 DEF IInv, Init, NoPanic

\* What moving one process from one location to another does to the classes.
LEMMA GotoClasses ==
    ASSUME pc \in [Procs -> Locations], NEW p \in Procs, NEW l \in Locations,
           Goto(p, l)
    PROVE  /\ pc' \in [Procs -> Locations]
           /\ Reading' = IF l = "reading" THEN Reading \cup {p} ELSE Reading \ {p}
           /\ Writing' = IF l = "writing" THEN Writing \cup {p} ELSE Writing \ {p}
           /\ Pending' = IF l \in {"writerParked", "writerWoken"}
                         THEN Pending \cup {p} ELSE Pending \ {p}
BY DEF Goto, Reading, Writing, Pending

\* A reader that passes or enters the wait loop of RLock keeps the invariant.
LEMMA EnterReadInv ==
    ASSUME IInv, NEW p \in Procs, pc[p] \in {"idle", "readerWoken"}, EnterRead(p)
    PROVE  IInv'
<1> USE DEF IInv, TypeOK, NoPanic
<1>0. p \notin Reading /\ p \notin Writing /\ p \notin Pending
  BY DEF Reading, Writing, Pending
<1>1. CASE writerActive /\ Goto(p, "readerParked") /\ UNCHANGED readersActive
  <2>1. /\ pc' \in [Procs -> Locations]
        /\ Reading' = Reading /\ Writing' = Writing /\ Pending' = Pending
    BY <1>0, <1>1, GotoClasses DEF Locations
  <2> QED BY <1>1, <2>1 DEF EnterRead, Bookkeeping
<1>2. CASE ~writerActive /\ Goto(p, "reading") /\ readersActive' = readersActive + 1
  <2>1. /\ pc' \in [Procs -> Locations]
        /\ Reading' = Reading \cup {p} /\ Writing' = Writing /\ Pending' = Pending
    BY <1>0, <1>2, GotoClasses DEF Locations
  <2>2. Cardinality(Reading') = Cardinality(Reading) + 1
    BY <1>0, <2>1, ClassesFinite, Join
  <2> QED BY <1>2, <2>1, <2>2 DEF EnterRead, Bookkeeping
<1> QED BY <1>1, <1>2 DEF EnterRead

\* RUnlock keeps the invariant: the count it decrements is not 0.
LEMMA RUnlockInv == ASSUME IInv, NEW p \in Procs, RUnlock(p) PROVE IInv'
<1> USE DEF IInv, TypeOK, NoPanic
<1>0. p \in Reading /\ p \notin Writing /\ p \notin Pending
  BY DEF RUnlock, Reading, Writing, Pending
<1>1. /\ readersActive > 0 /\ ~writerActive
      /\ Cardinality(Reading \ {p}) = Cardinality(Reading) - 1
  BY <1>0, ClassesFinite, Leave DEF Bookkeeping
<1>2. readersActive' = readersActive - 1 /\ UNCHANGED panicked
  BY <1>1 DEF RUnlock
<1>3. PICK l \in {"signal", "idle"} : Goto(p, l)
  BY <1>1 DEF RUnlock
<1>4. /\ pc' \in [Procs -> Locations]
      /\ Reading' = Reading \ {p} /\ Writing' = Writing /\ Pending' = Pending
  BY <1>0, <1>3, GotoClasses DEF Locations
<1> QED BY <1>1, <1>2, <1>4 DEF RUnlock, Bookkeeping

\* Unlock keeps the invariant: a writer is active when it is called.
LEMMA UnlockInv == ASSUME IInv, NEW p \in Procs, Unlock(p) PROVE IInv'
<1> USE DEF IInv, TypeOK, NoPanic
<1>0. p \notin Reading /\ p \in Writing /\ p \notin Pending
  BY DEF Unlock, Reading, Writing, Pending
<1>1. writerActive /\ Reading = {} /\ readersActive = 0
  BY <1>0, NoReaders DEF Bookkeeping
<1>2. writerActive' = FALSE /\ UNCHANGED panicked
  BY <1>1 DEF Unlock
<1>3. PICK l \in {"broadcast", "signal"} : Goto(p, l)
  BY <1>1 DEF Unlock
<1>4. /\ pc' \in [Procs -> Locations]
      /\ Reading' = Reading /\ Writing' = {} /\ Pending' = Pending
  <2>1. Writing = {p} BY <1>0 DEF Bookkeeping
  <2> QED BY <1>0, <1>3, <2>1, GotoClasses DEF Locations
<1> QED BY <1>2, <1>4 DEF Unlock, Bookkeeping

\* The two halves of Lock: the caller is not yet counted (pending is one more
\* than the count), or it is one of the pending writers.
LEMMA EnterWriteInv ==
    ASSUME IInv, NEW p \in Procs, NEW pending \in Nat,
           \/ pc[p] = "idle" /\ pending = pendingWriters + 1
           \/ pc[p] = "writerWoken" /\ pending = pendingWriters,
           EnterWrite(p, pending)
    PROVE  IInv'
<1> USE DEF IInv, TypeOK, NoPanic
<1>0. p \notin Reading /\ p \notin Writing
  BY DEF Reading, Writing
<1>1. /\ pending = Cardinality(Pending \cup {p}) /\ pending > 0
      /\ pending - 1 = Cardinality(Pending \ {p})
  <2>1. CASE pc[p] = "idle" /\ pending = pendingWriters + 1
    <3>1. p \notin Pending BY <2>1 DEF Pending
    <3>2. Pending \ {p} = Pending BY <3>1
    <3>3. Cardinality(Pending \cup {p}) = Cardinality(Pending) + 1
      BY <3>1, ClassesFinite, Join
    <3> QED BY <2>1, <3>2, <3>3, ClassesFinite DEF Bookkeeping
  <2>2. CASE pc[p] = "writerWoken" /\ pending = pendingWriters
    <3>1. p \in Pending BY <2>2 DEF Pending
    <3>2. Pending \cup {p} = Pending BY <3>1
    <3>3. Cardinality(Pending) > 0 /\ Cardinality(Pending \ {p}) = Cardinality(Pending) - 1
      BY <3>1, ClassesFinite, Leave
    <3> QED BY <2>2, <3>2, <3>3 DEF Bookkeeping
  <2> QED BY <2>1, <2>2
<1>2. CASE canWrite
  <2>1. Goto(p, "writing") /\ writerActive' = TRUE /\ pendingWriters' = pending - 1
    BY <1>2 DEF EnterWrite
  <2>2. Reading = {} /\ Writing = {}
    BY <1>2, NoReaders DEF canWrite, Bookkeeping
  <2>3. /\ pc' \in [Procs -> Locations]
        /\ Reading' = {} /\ Writing' = {p} /\ Pending' = Pending \ {p}
    BY <2>1, <2>2, GotoClasses DEF Locations
  <2> QED BY <1>1, <2>1, <2>2, <2>3 DEF EnterWrite, Bookkeeping
<1>3. CASE ~canWrite
  <2>1. Goto(p, "writerParked") /\ pendingWriters' = pending /\ UNCHANGED writerActive
    BY <1>3 DEF EnterWrite
  <2>2. /\ pc' \in [Procs -> Locations]
        /\ Reading' = Reading /\ Writing' = Writing /\ Pending' = Pending \cup {p}
    BY <1>0, <2>1, GotoClasses DEF Locations
  <2> QED BY <1>1, <2>1, <2>2 DEF EnterWrite, Bookkeeping
<1> QED BY <1>2, <1>3

\* Waking a parked process changes no class, whoever wakes it.
LEMMA WakeInv ==
    ASSUME IInv, NEW p \in Procs, Signal(p) \/ Broadcast(p)
    PROVE  IInv'
<1> USE DEF IInv, TypeOK, NoPanic
<1>1. pc' \in [Procs -> Locations] /\ Reading' = Reading /\ Writing' = Writing
  BY DEF Signal, Broadcast, Goto, ParkedOn, Locations, Reading, Writing
<1>2. Pending' = Pending
  BY DEF Signal, Broadcast, Goto, ParkedOn, Locations, Pending
<1> QED BY <1>1, <1>2 DEF Signal, Broadcast, Bookkeeping

\* Every step of the mutex keeps the invariant.
LEMMA NextInv == IInv /\ [Next]_vars => IInv'
<1> SUFFICES ASSUME IInv, [Next]_vars PROVE IInv' OBVIOUS
<1>1. CASE UNCHANGED vars
  BY <1>1 DEF vars, IInv, TypeOK, Bookkeeping, NoPanic, Reading, Writing, Pending
<1>2. ASSUME NEW p \in Procs, Internal(p) \/ Call(p) PROVE IInv'
  <2>1. CASE RLock(p) \/ RLockWoken(p) BY <2>1, EnterReadInv DEF RLock, RLockWoken
  <2>2. CASE RUnlock(p) BY <2>2, RUnlockInv
  <2>3. CASE Lock(p)
    <3>1. pendingWriters + 1 \in Nat BY DEF IInv, TypeOK
    <3> QED BY <2>3, <3>1, EnterWriteInv DEF Lock
  <2>4. CASE LockWoken(p)
    <3>1. pendingWriters \in Nat BY DEF IInv, TypeOK
    <3> QED BY <2>4, <3>1, EnterWriteInv DEF LockWoken
  <2>5. CASE Unlock(p) BY <2>5, UnlockInv
  <2>6. CASE Signal(p) \/ Broadcast(p) BY <2>6, WakeInv
  <2> QED BY <1>2, <2>1, <2>2, <2>3, <2>4, <2>5, <2>6 DEF Internal, Call
<1> QED BY <1>1, <1>2 DEF Next

\* For every finite set of processes: the counters are exact and a writer that is
\* active excludes readers, in every state RLock, RUnlock, Lock and Unlock reach.
THEOREM Invariance == Spec => []IInv
BY InitInv, NextInv, PTL DEF Spec

\* For every finite set of processes: the counters of the struct are exact.
THEOREM CountersExact == Spec => []Bookkeeping
<1>1. IInv => Bookkeeping BY DEF IInv
<1> QED BY <1>1, Invariance, PTL

\* For every finite set of processes: a writer excludes everybody else.
THEOREM WriterExcludes == Spec => []MutualExclusion
<1>1. IInv => MutualExclusion BY DEF IInv, Bookkeeping, MutualExclusion
<1> QED BY <1>1, Invariance, PTL

\* For every finite set of processes: RUnlock and Unlock never panic.
THEOREM ChecksNeverFire == Spec => []NoPanic
<1>1. IInv => NoPanic BY DEF IInv
<1> QED BY <1>1, Invariance, PTL

\* A step keeps the wake-ups: a process parks only while the lock is taken, and
\* whoever frees the lock goes on to signal or to broadcast.
LEMMA NextWakeup == IInv /\ NoLostWakeup /\ [Next]_vars => NoLostWakeup'
<1> SUFFICES ASSUME IInv, NoLostWakeup, [Next]_vars PROVE NoLostWakeup' OBVIOUS
<1> USE DEF IInv, TypeOK, NoLostWakeup, ParkedOn, canWrite
<1>1. CASE UNCHANGED vars BY <1>1 DEF vars, Pending
<1>2. ASSUME NEW p \in Procs, Internal(p) \/ Call(p) PROVE NoLostWakeup'
  <2>1. CASE RLock(p) \/ RLockWoken(p)
    BY <2>1 DEF RLock, RLockWoken, EnterRead, Goto, Pending
  <2>2. CASE RUnlock(p)
    <3>1. ~panicked' /\ readersActive \in Nat /\ readersActive > 0 /\ ~writerActive
      <4>1. p \in Reading BY <2>2 DEF RUnlock, Reading
      <4>2. readersActive > 0 /\ ~writerActive
        BY <4>1, ClassesFinite, Leave DEF Bookkeeping
      <4> QED BY <2>2, <4>2 DEF RUnlock, NoPanic
    <3>2. CASE LastReaderWakes
      <4>1. pc' = [pc EXCEPT ![p] = "signal"] /\ UNCHANGED writerActive
        BY <2>2, <3>1, <3>2 DEF RUnlock, Goto
      <4> QED BY <2>2, <4>1 DEF RUnlock, Pending
    <3>3. CASE ~LastReaderWakes
      <4>1. /\ pc' = [pc EXCEPT ![p] = "idle"] /\ UNCHANGED <<writerActive, pendingWriters>>
            /\ readersActive' = readersActive - 1
        BY <2>2, <3>1, <3>3 DEF RUnlock, Goto
      <4>2. readersActive' = 0 => Pending = {}
        BY <3>1, <3>3, <4>1, ClassesFinite, FS_EmptySet DEF LastReaderWakes, Bookkeeping
      <4>3. ParkedOn("writerParked")' \subseteq Pending BY <4>1 DEF Pending
      <4> QED BY <2>2, <4>1, <4>2, <4>3 DEF RUnlock, Pending
    <3> QED BY <3>2, <3>3
  <2>3. CASE Lock(p) BY <2>3 DEF Lock, EnterWrite, Goto, Pending
  <2>4. CASE LockWoken(p) BY <2>4 DEF LockWoken, EnterWrite, Goto, Pending
  <2>5. CASE Unlock(p)
    <3>1. readersActive = 0
      <4>1. p \in Writing BY <2>5 DEF Unlock, Writing
      <4> QED BY <4>1, NoReaders DEF Bookkeeping
    <3>2. pendingWriters = 0 <=> Pending = {}
      BY ClassesFinite, FS_EmptySet DEF Bookkeeping
    <3>3. Pending' = Pending BY <2>5, <3>1 DEF Unlock, Goto, Pending
    <3>4. CASE pendingWriters = 0
      <4>1. pc' = [pc EXCEPT ![p] = "broadcast"] BY <2>5, <3>1, <3>4 DEF Unlock, Goto
      <4>2. ParkedOn("writerParked")' = {} BY <3>2, <3>3, <3>4 DEF Pending
      <4> QED BY <4>1, <4>2
    <3>5. CASE pendingWriters # 0
      <4>1. pc' = [pc EXCEPT ![p] = "signal"] BY <2>5, <3>1, <3>5 DEF Unlock, Goto
      <4> QED BY <3>2, <3>3, <3>5, <4>1
    <3> QED BY <3>4, <3>5
  <2>6. CASE Signal(p) BY <2>6 DEF Signal, Goto, Pending
  <2>7. CASE Broadcast(p) BY <2>7 DEF Broadcast, Pending
  <2> QED BY <1>2, <2>1, <2>2, <2>3, <2>4, <2>5, <2>6, <2>7 DEF Internal, Call
<1> QED BY <1>1, <1>2 DEF Next

\* For every finite set of processes: no wake-up is lost.
THEOREM WakeupsNotLost == Spec => []NoLostWakeup
<1>1. Init => NoLostWakeup BY DEF Init, NoLostWakeup, ParkedOn
<1> QED BY <1>1, NextWakeup, Invariance, PTL DEF Spec

\* Every step of the mutex is a step of RWLock or leaves the holders alone.
LEMMA StepRefines == IInv /\ [Next]_vars => [RW!Next]_(RW!lockVars)
<1> SUFFICES ASSUME IInv, [Next]_vars
             PROVE  RW!Next \/ (Reading' = Reading /\ Writing' = Writing)
  BY DEF RW!lockVars
<1> USE DEF IInv, TypeOK
<1>1. CASE UNCHANGED vars BY <1>1 DEF vars, Reading, Writing
<1>2. ASSUME NEW p \in Procs, Internal(p) \/ Call(p)
      PROVE  RW!Next \/ (Reading' = Reading /\ Writing' = Writing)
  <2>1. CASE RLock(p) \/ RLockWoken(p)
    <3>1. p \notin Reading /\ p \notin Writing
      BY <2>1 DEF RLock, RLockWoken, Reading, Writing
    <3>2. CASE writerActive
      <4>1. Goto(p, "readerParked") BY <2>1, <3>2 DEF RLock, RLockWoken, EnterRead
      <4> QED BY <3>1, <4>1, GotoClasses DEF Locations
    <3>3. CASE ~writerActive
      <4>1. Goto(p, "reading") BY <2>1, <3>3 DEF RLock, RLockWoken, EnterRead
      <4>2. Writing = {} BY <3>3 DEF Bookkeeping
      <4>3. RW!AcquireRead(p) BY <3>1, <4>1, <4>2, GotoClasses DEF Locations, RW!AcquireRead
      <4> QED BY <4>3 DEF RW!Next
    <3> QED BY <3>2, <3>3
  <2>2. CASE RUnlock(p)
    <3>1. p \in Reading /\ p \notin Writing BY <2>2 DEF RUnlock, Reading, Writing
    <3>3. CASE \E l \in {"signal", "idle"} : Goto(p, l)
      <4>1. RW!ReleaseRead(p) BY <3>1, <3>3, GotoClasses DEF Locations, RW!ReleaseRead
      <4> QED BY <4>1 DEF RW!Next
    <3>4. CASE UNCHANGED pc BY <3>4 DEF Reading, Writing
    <3> QED BY <2>2, <3>3, <3>4 DEF RUnlock
  <2>3. CASE Lock(p) \/ LockWoken(p)
    <3>1. p \notin Reading /\ p \notin Writing
      BY <2>3 DEF Lock, LockWoken, Reading, Writing
    <3>2. CASE ~canWrite
      <4>1. Goto(p, "writerParked") BY <2>3, <3>2 DEF Lock, LockWoken, EnterWrite
      <4> QED BY <3>1, <4>1, GotoClasses DEF Locations
    <3>3. CASE canWrite
      <4>1. Goto(p, "writing") BY <2>3, <3>3 DEF Lock, LockWoken, EnterWrite
      <4>2. Writing = {} /\ Reading = {}
        BY <3>3, NoReaders DEF canWrite, Bookkeeping
      <4>3. RW!AcquireWrite(p) BY <4>1, <4>2, GotoClasses DEF Locations, RW!AcquireWrite
      <4> QED BY <4>3 DEF RW!Next
    <3> QED BY <3>2, <3>3
  <2>4. CASE Unlock(p)
    <3>1. p \notin Reading /\ p \in Writing BY <2>4 DEF Unlock, Reading, Writing
    <3>2. CASE \E l \in {"signal", "broadcast"} : Goto(p, l)
      <4>1. RW!ReleaseWrite(p) BY <3>1, <3>2, GotoClasses DEF Locations, RW!ReleaseWrite
      <4> QED BY <4>1 DEF RW!Next
    <3>3. CASE UNCHANGED pc BY <3>3 DEF Reading, Writing
    <3> QED BY <2>4, <3>2, <3>3 DEF Unlock
  <2>5. CASE Signal(p) \/ Broadcast(p)
    BY <2>5 DEF Signal, Broadcast, Goto, ParkedOn, Locations, Reading, Writing
  <2> QED BY <1>2, <2>1, <2>2, <2>3, <2>4, <2>5 DEF Internal, Call
<1> QED BY <1>1, <1>2 DEF Next

\* For every finite set of processes: the mutex is a reader/writer lock.
THEOREM Refinement == Spec => ImplementsRWLock
<1>1. Init => RW!Init BY DEF Init, RW!Init, Reading, Writing
<1> QED BY <1>1, StepRefines, Invariance, PTL DEF Spec, ImplementsRWLock, RW!Spec
=============================================================================
