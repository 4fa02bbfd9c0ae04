----------------------- MODULE ReactiveVariableProofs -----------------------
(***************************************************************************)
(* Every property of ReactiveVariable that is not about liveness, for any  *)
(* sets of writers, subscribers and values and any transformation.         *)
(***************************************************************************)
EXTENDS ReactiveVariable, FiniteSetTheorems, TLAPS

\* The writer in Compute is alone, and only it leaves callbacks to trigger.
OneWriter ==
    /\ \A w, u \in Writing : w = u
    /\ toTrigger # {} => \E w \in Writers : writer[w] \in {"notify", "invoke"}

\* Who is registered, and who holds an execution lock.
Locks ==
    \A s \in Subscribers :
        /\ s \in registeredCallbacks <=> subscriber[s] \in {"initial", "subscribed"}
        /\ s \in toTrigger => subscriber[s] # "new" /\ lastUpdate[s] # uniqueUpdateID
        /\ subscriber[s] = "new" => executionMutex[s] = Free /\ seen[s] = Zero
        /\ executionMutex[s] = s <=> subscriber[s] = "initial"
        /\ executionMutex[s] \in Subscribers => executionMutex[s] = s
        /\ executionMutex[s] \in Writers =>
            /\ writer[executionMutex[s]] = "invoke" /\ s \notin toTrigger
            /\ subscriber[s] \in {"subscribed", "removed"}
            /\ \A t \in Subscribers : executionMutex[t] = executionMutex[s] => t = s

\* The update of the current writer has still to reach s.
Due(s) == s \in toTrigger \/ executionMutex[s] \in Writers

\* What a callback has seen, or is about to see first, is one update behind if the
\* current one is still due, and not behind otherwise.
Sync ==
    \A s \in Subscribers :
        /\ subscriber[s] = "initial" => currentValue[s] = IF Due(s) THEN previousValue ELSE value
        /\ subscriber[s] = "subscribed" => seen[s] = IF Due(s) THEN previousValue ELSE value
        /\ subscriber[s] = "removed" /\ Due(s) => seen[s] = previousValue

\* What is set up is for the value seen, except in the middle of an invocation.
Setups ==
    \A s \in Subscribers :
        /\ active[s] = {} \/ \E v \in Value : active[s] = {v}
        /\ subscriber[s] = "subscribed" /\ executionMutex[s] = Free => active[s] = Setup(seen[s])
        /\ subscriber[s] = "unsubscribed" => active[s] = {}

IInv == TypeOK /\ OneWriter /\ Locks /\ Sync /\ Setups

-----------------------------------------------------------------------------
\* The properties follow from the invariant.
LEMMA Consequences == IInv => GapFree /\ UpToDate /\ TornDown /\ NoCallAfterUnsubscribe
<1> SUFFICES ASSUME IInv PROVE GapFree /\ UpToDate /\ TornDown /\ NoCallAfterUnsubscribe
  OBVIOUS
<1> USE DEF IInv
<1>1. GapFree
  BY DEF GapFree, Locks, Sync, Due
<1>2. UpToDate
  <2> SUFFICES ASSUME Writing = {}, NEW s \in Subscribers, subscriber[s] = "subscribed"
               PROVE  seen[s] = value /\ active[s] = Setup(value)
    BY DEF UpToDate
  <2>1. \A w \in Writers : writer[w] \in {"idle", "done"}
    BY DEF Writing
  <2>2. toTrigger = {} /\ executionMutex[s] \notin Writers
    BY <2>1 DEF OneWriter, Locks
  <2>3. executionMutex[s] = Free
    BY <2>2 DEF TypeOK, Locks
  <2> QED
    BY <2>2, <2>3 DEF Sync, Setups, Due
<1>3. TornDown
  <2> SUFFICES ASSUME NEW s \in Subscribers
               PROVE  /\ Cardinality(active[s]) <= 1
                      /\ subscriber[s] = "unsubscribed" => active[s] = {}
    BY DEF TornDown
  <2>1. CASE active[s] = {}
    <3>1. Cardinality({}) = 0
      BY FS_EmptySet
    <3> QED
      BY <2>1, <3>1
  <2>2. CASE \E v \in Value : active[s] = {v}
    <3>1. \A v \in Value : Cardinality({v}) = 1
      BY FS_Singleton
    <3> QED
      BY <2>2, <3>1 DEF Setups
  <2> QED
    BY <2>1, <2>2 DEF Setups
<1>4. NoCallAfterUnsubscribe
  BY DEF NoCallAfterUnsubscribe, Unsubscribed, Locks, TypeOK
<1> QED
  BY <1>1, <1>2, <1>3, <1>4

\* A new variable without subscribers satisfies the invariant.
LEMMA InitInv == Init => IInv
BY ValueAssumption, ProcessAssumption
   DEF Init, IInv, TypeOK, OneWriter, Locks, Sync, Setups, Due, Writing, Free

-----------------------------------------------------------------------------
\* The steps of a writer keep the invariant.
LEMMA ComputeInv == ASSUME IInv, NEW w \in Writers, Compute(w) PROVE IInv'
<1> USE DEF IInv, Compute, varVars, subVars, callVars
<1>1. TypeOK'
  BY DEF TypeOK
<1>2. OneWriter'
  BY DEF OneWriter, Writing, TypeOK
<1>3. Locks'
  BY DEF Locks, TypeOK
<1>4. Sync' /\ Setups'
  BY DEF Sync, Setups, Due
<1> QED
  BY <1>1, <1>2, <1>3, <1>4

\* updateValue keeps it: the value and the snapshot of callbacks change together.
LEMMA UpdateInv == ASSUME IInv, NEW w \in Writers, updateValue(w) PROVE IInv'
<1> USE DEF IInv, updateValue, subVars, callVars
<1>1. \A u \in Writers \ {w} : writer[u] \in {"idle", "done"}
  BY DEF OneWriter, Writing, TypeOK
<1>2. toTrigger = {} /\ \A s \in Subscribers : executionMutex[s] \notin Writers
  BY <1>1 DEF OneWriter, Locks
<1>3. TypeOK'
  BY ValueAssumption DEF TypeOK
<1>4. OneWriter'
  BY <1>1 DEF OneWriter, Writing, TypeOK
<1>5. Locks'
  BY <1>2 DEF Locks, TypeOK
<1>6. Sync'
  BY <1>2 DEF Sync, Due, Locks
<1>7. Setups'
  BY DEF Setups
<1> QED
  BY <1>3, <1>4, <1>5, <1>6, <1>7

\* Calling the next callback of the snapshot (or finding it unsubscribed) keeps it.
LEMMA InvokeInv ==
    ASSUME IInv, NEW w \in Writers, NEW s \in Subscribers, Invoke(w, s) PROVE IInv'
<1> USE DEF IInv, Invoke, varVars, subVars, callVars
<1>1. \A u \in Writers \ {w} : writer[u] \in {"idle", "done"}
  BY DEF OneWriter, Writing, TypeOK
<1>2. \A t \in Subscribers : executionMutex[t] \notin Writers
  BY <1>1 DEF Locks
<1>3. CASE Refuses(s)
  <2> USE <1>3
  <2>1. Unsubscribed(s)
    BY DEF Refuses, Locks
  <2>2. TypeOK'
    BY DEF TypeOK
  <2>3. OneWriter'
    BY DEF OneWriter, Writing
  <2>4. Locks'
    BY DEF Locks
  <2>5. Sync'
    BY <2>1 DEF Sync, Due, Unsubscribed
  <2>6. Setups'
    BY DEF Setups
  <2> QED
    BY <2>2, <2>3, <2>4, <2>5, <2>6
<1>4. CASE ~Refuses(s)
  <2> USE <1>4
  <2>1. subscriber[s] \in {"subscribed", "removed"}
    BY ProcessAssumption DEF Refuses, Unsubscribed, Locks, TypeOK, Free
  <2>2. TypeOK'
    BY DEF TypeOK
  <2>3. OneWriter'
    BY <1>1 DEF OneWriter, Writing, TypeOK
  <2>4. Locks'
    BY <1>2, <2>1, ProcessAssumption DEF Locks, TypeOK
  <2>5. Sync'
    BY <1>2, <2>1 DEF Sync, Due, TypeOK
  <2>6. Setups'
    BY <2>1, ProcessAssumption DEF Setups, TypeOK, Free
  <2> QED
    BY <2>2, <2>3, <2>4, <2>5, <2>6
<1> QED
  BY <1>3, <1>4

\* Releasing the execution lock of the callback just called keeps it.
LEMMA UnlockInv ==
    ASSUME IInv, NEW w \in Writers, NEW s \in Subscribers, UnlockExecution(w, s) PROVE IInv'
<1> USE DEF IInv, UnlockExecution, varVars, subVars
<1>1. \A u \in Writers \ {w} : writer[u] \in {"idle", "done"}
  BY DEF OneWriter, Writing, TypeOK
<1>2. \A t \in Subscribers \ {s} : executionMutex[t] \notin Writers
  BY <1>1 DEF Locks
<1>3. subscriber[s] \in {"subscribed", "removed"} /\ s \notin toTrigger
  BY DEF Locks
<1>4. TypeOK'
  BY DEF TypeOK, Setup
<1>5. OneWriter'
  BY <1>1 DEF OneWriter, Writing, TypeOK
<1>6. Locks'
  BY <1>2, <1>3, ProcessAssumption DEF Locks, TypeOK, Free
<1>7. Sync'
  BY <1>2, <1>3, ProcessAssumption DEF Sync, Due, TypeOK, Free
<1>8. Setups'
  BY <1>3 DEF Setups, Setup, TypeOK
<1> QED
  BY <1>4, <1>5, <1>6, <1>7, <1>8

\* Compute returns only after the whole snapshot was served, which keeps it.
LEMMA ReturnsInv == ASSUME IInv, NEW w \in Writers, ComputeReturns(w) PROVE IInv'
<1> USE DEF IInv, ComputeReturns, varVars, subVars, callVars
<1>1. TypeOK' /\ OneWriter'
  BY DEF TypeOK, OneWriter, Writing
<1>2. Locks'
  BY DEF Locks, TypeOK
<1>3. Sync' /\ Setups'
  BY DEF Sync, Setups, Due
<1> QED
  BY <1>1, <1>2, <1>3

-----------------------------------------------------------------------------
\* The steps of a subscriber keep the invariant.
LEMMA OnUpdateInv == ASSUME IInv, NEW s \in Subscribers, OnUpdate(s) PROVE IInv'
<1> USE DEF IInv, OnUpdate, writeVars
<1>1. TypeOK'
  BY DEF TypeOK
<1>2. OneWriter'
  BY DEF OneWriter, Writing
<1>3. Locks'
  BY ProcessAssumption DEF Locks, TypeOK
<1>4. Sync'
  BY ProcessAssumption DEF Sync, Due, Locks, TypeOK
<1>5. Setups'
  BY DEF Setups, TypeOK
<1> QED
  BY <1>1, <1>2, <1>3, <1>4, <1>5

\* The first call of OnUpdate, made under the execution lock, keeps it.
LEMMA InitialInv == ASSUME IInv, NEW s \in Subscribers, InitialInvoke(s) PROVE IInv'
<1> USE DEF IInv, InitialInvoke, varVars, writeVars
<1>1. executionMutex[s] = s
  BY DEF Locks
<1>2. TypeOK'
  BY DEF TypeOK, Setup
<1>3. OneWriter'
  BY DEF OneWriter, Writing
<1>4. Locks'
  BY <1>1, ProcessAssumption DEF Locks, TypeOK, Free
<1>5. Sync'
  BY <1>1, ProcessAssumption DEF Sync, Due, TypeOK, Free
<1>6. Setups'
  BY DEF Setups, Setup, TypeOK
<1> QED
  BY <1>2, <1>3, <1>4, <1>5, <1>6

\* Removing the callback from the list and marking it unsubscribed keep it.
LEMMA UnsubscribeInv ==
    ASSUME IInv, NEW s \in Subscribers, RemoveCallback(s) \/ MarkUnsubscribed(s) \/ Teardown(s)
    PROVE  IInv'
<1> USE DEF IInv, RemoveCallback, MarkUnsubscribed, Teardown, varVars, writeVars, callVars
<1>1. TypeOK'
  BY DEF TypeOK
<1>2. OneWriter'
  BY DEF OneWriter, Writing
<1>3. Locks'
  BY ProcessAssumption DEF Locks, TypeOK, Free
<1>4. Sync'
  BY DEF Sync, Due, TypeOK
<1>5. Setups'
  BY DEF Setups, TypeOK
<1> QED
  BY <1>1, <1>2, <1>3, <1>4, <1>5

-----------------------------------------------------------------------------
\* In every reachable state of a variable, at most one writer is in Compute, and
\* each subscriber is exactly as far behind as the notification under way.
THEOREM Invariance == Spec => []IInv
<1>1. IInv /\ [Next]_vars => IInv'
  <2> SUFFICES ASSUME IInv, [Next]_vars PROVE IInv'
    OBVIOUS
  <2>1. CASE UNCHANGED vars
    BY <2>1 DEF vars, varVars, writeVars, subVars, callVars, IInv, TypeOK, OneWriter, Locks, Sync, Setups, Due, Writing
  <2>2. ASSUME NEW w \in Writers, Compute(w) \/ WriterStep(w) PROVE IInv'
    BY <2>2, ComputeInv, UpdateInv, InvokeInv, UnlockInv, ReturnsInv DEF WriterStep
  <2>3. ASSUME NEW s \in Subscribers, OnUpdate(s) \/ RemoveCallback(s) \/ SubscriberStep(s) PROVE IInv'
    BY <2>3, OnUpdateInv, InitialInv, UnsubscribeInv DEF SubscriberStep
  <2> QED
    BY <2>1, <2>2, <2>3 DEF Next
<1> QED
  BY <1>1, InitInv, PTL DEF Spec

\* Callbacks see a chain of updates: the previousValue passed to a callback is the
\* value it was called with before, whoever writes and whoever else subscribes.
THEOREM Chain == Spec => []GapFree
BY Invariance, Consequences, PTL

\* Between writes every subscriber has been told the current value, and has set up
\* what belongs to that value and nothing else.
THEOREM Notified == Spec => []UpToDate
BY Invariance, Consequences, PTL

\* Setups never pile up, and unsubscribing leaves none behind.
THEOREM NothingLeftSetUp == Spec => []TornDown
BY Invariance, Consequences, PTL

\* Once MarkUnsubscribed has returned, the callback is not executing.
THEOREM SilentAfterUnsubscribe == Spec => []NoCallAfterUnsubscribe
BY Invariance, Consequences, PTL
=============================================================================
