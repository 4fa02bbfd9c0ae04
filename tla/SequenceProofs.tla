--------------------------- MODULE SequenceProofs ---------------------------
(***************************************************************************)
(* Proofs about Sequence, for every width and every set of intervals, as   *)
(* long as no lease runs past the width and Release follows a Next.        *)
(***************************************************************************)
EXTENDS Sequence, TLAPS

\* Where a lease that starts now begins.
Start == IF stored = None THEN 0 ELSE stored

\* What an object holds agrees with the store: an object that holds a lease has handed out only
\* numbers before next, and the lease ends at the stored number.
Lease ==
    /\ pc # "closed" => interval \in Intervals
    /\ pc \in {"idle", "update"} /\ reserved # 0 => stored = reserved
    /\ pc = "idle" /\ reserved # 0 => issued < next /\ next <= reserved
    /\ pc = "update" => next = Start
    /\ pc = "return" => issued < next /\ next < stored /\ reserved = stored
    /\ pc = "release" => issued < next /\ next <= reserved /\ stored = next /\ reserved # 0

\* While no lease was abandoned, the number that follows the last one issued is the next one of
\* the object that holds a lease, and the first one of a new lease otherwise.
Contiguous ==
    clean => issued + 1 =
        (IF pc \in {"update", "return", "release"} \/ (pc = "idle" /\ reserved # 0) THEN next ELSE Start)

IInv == TypeOK /\ StoreAhead /\ Lease /\ Contiguous

\* The conditions of use: they restrict the calls the model makes, see Release and WriteStore.
ProperUse == ~ Wraps /\ ~ FreshRelease

\* The invariant holds before the first object is created.
LEMMA InitInv == Init => IInv
BY SequenceAssumption DEF Init, IInv, TypeOK, StoreAhead, Lease, Contiguous, Start, Numbers, None

\* Every step keeps the types; the width matters where a number is computed.
LEMMA TypeStep == ASSUME ProperUse, IInv, [Next]_vars PROVE TypeOK'
<1> USE SequenceAssumption DEF ProperUse, IInv, TypeOK, Numbers, None
<1>1. CASE NewSequence BY <1>1 DEF NewSequence
<1>2. CASE Drop BY <1>2 DEF Drop
<1>3. CASE NextFromMemory BY <1>3 DEF NextFromMemory
<1>4. CASE ReadStore BY <1>4 DEF ReadStore
<1>5. CASE WriteStore
  <2>1. next + interval \in Numbers BY <1>5 DEF WriteStore
  <2>2. (next + interval) % Modulus = next + interval BY <2>1
  <2> QED BY <1>5, <2>1, <2>2 DEF WriteStore
<1>6. CASE NextReturns
  <2>1. next + 1 \in Numbers BY <1>6 DEF NextReturns, Lease
  <2>2. (next + 1) % Modulus = next + 1 BY <2>1
  <2> QED BY <1>6, <2>1, <2>2 DEF NextReturns
<1>7. CASE Release BY <1>7 DEF Release
<1>8. CASE ReleaseReturns BY <1>8 DEF ReleaseReturns
<1>9. CASE UNCHANGED vars BY <1>9 DEF vars
<1> QED BY <1>1, <1>2, <1>3, <1>4, <1>5, <1>6, <1>7, <1>8, <1>9 DEF Next

\* Every step keeps the store ahead, the lease consistent and the numbers contiguous.
LEMMA LeaseStep == ASSUME ProperUse, IInv, [Next]_vars PROVE StoreAhead' /\ Lease' /\ Contiguous'
<1> USE SequenceAssumption DEF ProperUse, IInv, TypeOK, Numbers, None, Start, StoreAhead, Lease, Contiguous
<1>1. CASE NewSequence BY <1>1 DEF NewSequence
<1>2. CASE Drop BY <1>2 DEF Drop
<1>3. CASE NextFromMemory BY <1>3 DEF NextFromMemory
<1>4. CASE ReadStore BY <1>4 DEF ReadStore
<1>5. CASE WriteStore
  <2>1. next + interval \in Numbers BY <1>5 DEF WriteStore
  <2>2. (next + interval) % Modulus = next + interval BY <2>1
  <2>3. interval > 0 /\ issued < next /\ next = Start BY <1>5 DEF WriteStore
  <2>4. UNCHANGED <<next, interval, issued, clean>> BY <1>5 DEF WriteStore
  <2>5. CASE stored' = next + interval /\ reserved' = next + interval /\ pc' = "return"
    BY <1>5, <2>1, <2>3, <2>4, <2>5 DEF WriteStore
  <2>6. CASE UNCHANGED <<stored, reserved>> /\ pc' = "idle"
    BY <1>5, <2>3, <2>4, <2>6 DEF WriteStore
  <2> QED BY <1>5, <2>2, <2>5, <2>6 DEF WriteStore
<1>6. CASE NextReturns
  <2>1. next + 1 \in Numbers BY <1>6 DEF NextReturns
  <2>2. (next + 1) % Modulus = next + 1 BY <2>1
  <2> QED BY <1>6, <2>1, <2>2 DEF NextReturns
<1>7. CASE Release
  <2>1. reserved # 0 /\ pc = "idle" /\ UNCHANGED <<next, reserved, interval, issued, clean>> BY <1>7 DEF Release
  <2>2. CASE stored' = next /\ pc' = "release" BY <2>1, <2>2
  <2>3. CASE UNCHANGED <<stored, pc>> BY <2>1, <2>3
  <2> QED BY <1>7, <2>2, <2>3 DEF Release
<1>8. CASE ReleaseReturns BY <1>8 DEF ReleaseReturns
<1>9. CASE UNCHANGED vars BY <1>9 DEF vars
<1> QED BY <1>1, <1>2, <1>3, <1>4, <1>5, <1>6, <1>7, <1>8, <1>9 DEF Next

\* The invariant holds in every state of an execution with proper use.
THEOREM Invariance == ASSUME ProperUse PROVE Spec => []IInv
<1>1. IInv /\ [Next]_vars => IInv' BY TypeStep, LeaseStep DEF IInv
<1> QED BY <1>1, InitInv, PTL DEF Spec

\* At every moment, a crash included, the store is ahead of every number that Next returned: the
\* write of update happens before the lease is used, and Release gives back only unused numbers.
THEOREM CrashSafe == ASSUME ProperUse PROVE Spec => []StoreAhead
<1>1. IInv => StoreAhead BY DEF IInv
<1> QED BY <1>1, Invariance, PTL

\* Next returns ever larger numbers, across all objects ever created for the key.
THEOREM NumbersIncrease == ASSUME ProperUse PROVE Spec => Increasing
<1>1. ASSUME IInv, [Next]_vars, NextFromMemory \/ NextReturns PROVE issued' > issued
  <2> USE SequenceAssumption DEF IInv, TypeOK, Numbers, None
  <2>1. issued < next BY <1>1 DEF NextFromMemory, NextReturns, Lease
  <2>2. issued' = next BY <1>1 DEF NextFromMemory, NextReturns
  <2> QED BY <2>1, <2>2, <1>1
<1>2. IInv /\ [Next]_vars => [NextFromMemory \/ NextReturns => issued' > issued]_vars BY <1>1
<1> QED BY <1>2, Invariance, PTL DEF Spec, Increasing

\* Next skips no number as long as every object was released before it was dropped.
THEOREM NothingWasted == ASSUME ProperUse PROVE Spec => NoWaste
<1>1. ASSUME IInv, [Next]_vars, NextFromMemory \/ NextReturns, clean PROVE issued' = issued + 1
  <2>1. issued' = next BY <1>1 DEF NextFromMemory, NextReturns
  <2>2. pc = "return" \/ (pc = "idle" /\ reserved # 0)
    <3>1. next \in Numbers /\ reserved \in Numbers BY <1>1 DEF IInv, TypeOK
    <3>2. next < reserved => reserved # 0 BY <3>1, SequenceAssumption DEF Numbers
    <3> QED BY <1>1, <3>2 DEF NextFromMemory, NextReturns
  <2>3. issued + 1 = next BY <1>1, <2>2 DEF IInv, Contiguous
  <2> QED BY <2>1, <2>3
<1>2. IInv /\ [Next]_vars => [(NextFromMemory \/ NextReturns) /\ clean => issued' = issued + 1]_vars BY <1>1
<1> QED BY <1>2, Invariance, PTL DEF Spec, NoWaste
============================================================================
