------------------------------ MODULE Debounce ------------------------------
(***************************************************************************)
(* WorkerPool.DebounceFunc (runtime/workerpool/workerpool.go:99-130): each *)
(* call of the debounced function takes the next invocation number and     *)
(* submits a task; any number of workers execute the tasks concurrently.   *)
(***************************************************************************)
EXTENDS Naturals, Sequences, FiniteSets, TLAPS

CONSTANT Calls      \* the calls of the debounced function, from any goroutine

VARIABLES
    lastInvocation, execMutex,  \* captured by the closure
    invocation,     \* per call: currentInvocation
    pc,             \* per call: where its task is
    executed        \* history: invocation numbers whose workerFunc was entered
vars == <<lastInvocation, execMutex, invocation, pc, executed>>

Init == /\ lastInvocation = 0 /\ execMutex = "free" /\ executed = <<>>
        /\ invocation = [c \in Calls |-> 0] /\ pc = [c \in Calls |-> "new"]

Goto(c, from, to) == pc[c] = from /\ pc' = [pc EXCEPT ![c] = to]
Superseded(c) == invocation[c] # lastInvocation

\* Mutant: the number is read before the increment.
InvokeMutant(c) ==
    /\ Goto(c, "new", "submitted")
    /\ lastInvocation' = lastInvocation + 1
    /\ invocation' = [invocation EXCEPT ![c] = lastInvocation]
    /\ UNCHANGED <<execMutex, executed>>
\* lastInvocation.Add(1), then w.Submit.
Invoke(c) ==
    /\ Goto(c, "new", "submitted")
    /\ lastInvocation' = lastInvocation + 1
    /\ invocation' = [invocation EXCEPT ![c] = lastInvocation + 1]
    /\ UNCHANGED <<execMutex, executed>>

FirstCheck(c) ==
    /\ Goto(c, "submitted", IF Superseded(c) THEN "done" ELSE "lock")
    /\ UNCHANGED <<lastInvocation, execMutex, invocation, executed>>

LockExec(c) ==
    /\ Goto(c, "lock", "second") /\ execMutex = "free" /\ execMutex' = "held"
    /\ UNCHANGED <<lastInvocation, invocation, executed>>

SecondCheck(c) ==
    /\ Goto(c, "second", IF Superseded(c) THEN "unlock" ELSE "running")
    /\ executed' = IF Superseded(c) THEN executed ELSE Append(executed, invocation[c])
    /\ UNCHANGED <<lastInvocation, invocation, execMutex>>

Execute(c) ==
    Goto(c, "running", "unlock") /\ UNCHANGED <<lastInvocation, execMutex, invocation, executed>>
UnlockExec(c) ==
    /\ Goto(c, "unlock", "done") /\ execMutex' = "free"
    /\ UNCHANGED <<lastInvocation, invocation, executed>>

RunTask(c) == \/ FirstCheck(c) \/ LockExec(c) \/ SecondCheck(c) \/ Execute(c) \/ UnlockExec(c)
Next == \E c \in Calls : Invoke(c) \/ RunTask(c)
Spec == Init /\ [][Next]_vars
-----------------------------------------------------------------------------

\* The newest invocation is never dropped: when no task is left, it was the
\* last one to execute.
LastOneRuns ==
    lastInvocation > 0 /\ (\A c \in Calls : pc[c] \in {"new", "done"}) =>
        executed # <<>> /\ executed[Len(executed)] = lastInvocation
\* workerFunc is executed for one call at a time, and never for an older invocation after a
\* newer one or twice for the same.
InCriticalSection(c) == pc[c] \in {"second", "running", "unlock"}
InOrder == /\ \A c, d \in Calls : InCriticalSection(c) /\ InCriticalSection(d) => c = d
           /\ \A j, k \in DOMAIN executed : j < k => executed[j] < executed[k]
-----------------------------------------------------------------------------
TypeOK == /\ lastInvocation \in Nat /\ execMutex \in {"free", "held"} /\ executed \in Seq(Nat)
          /\ invocation \in [Calls -> Nat]
          /\ pc \in [Calls -> {"new", "submitted", "lock", "second", "running", "unlock", "done"}]

\* The newest number belongs to a call that was made, and that call has executed once it is
\* past the second check.
Newest ==
    /\ lastInvocation > 0 => \E c \in Calls : invocation[c] = lastInvocation /\ pc[c] # "new"
    /\ \A c \in Calls : /\ invocation[c] <= lastInvocation
                        /\ pc[c] = "new" <=> invocation[c] = 0
                        /\ invocation[c] = lastInvocation /\ pc[c] \in {"running", "unlock", "done"} =>
                              executed # <<>> /\ executed[Len(executed)] = lastInvocation

\* Every call has a number of its own.  What was executed has a call that is past the second
\* check; the holder of execMutex is alone.
Ordered ==
    /\ InOrder
    /\ \A c, d \in Calls : invocation[c] = invocation[d] /\ invocation[c] > 0 => c = d
    /\ \A c \in Calls : InCriticalSection(c) => execMutex = "held"
    /\ \A j \in DOMAIN executed :
          /\ executed[j] > 0 /\ executed[j] <= lastInvocation
          /\ \A c \in Calls : invocation[c] = executed[j] => pc[c] \in {"running", "unlock", "done"}

IInv == TypeOK /\ Newest /\ Ordered

\* At first nothing was called.
LEMMA InitInv == Init => IInv
BY DEF Init, IInv, TypeOK, Newest, Ordered, InOrder, InCriticalSection

\* Only the newest call passes the second check, and a newer one starts before the checks.
LEMMA StepInv == IInv /\ [Next]_vars => IInv'
<1> SUFFICES ASSUME IInv, [Next]_vars PROVE IInv'
  OBVIOUS
<1> USE DEF IInv, TypeOK, Newest, Ordered, InOrder, InCriticalSection, Goto, Superseded
<1>1. ASSUME NEW c \in Calls, Invoke(c) PROVE IInv' BY <1>1 DEF Invoke
<1>2. ASSUME NEW c \in Calls, FirstCheck(c) PROVE IInv' BY <1>2 DEF FirstCheck
<1>3. ASSUME NEW c \in Calls, LockExec(c) PROVE IInv' BY <1>3 DEF LockExec
<1>4. ASSUME NEW c \in Calls, SecondCheck(c) PROVE IInv'
  <2>1. CASE invocation[c] # lastInvocation BY <1>4, <2>1 DEF SecondCheck
  <2>2. CASE invocation[c] = lastInvocation
    <3>1. /\ executed' = Append(executed, lastInvocation) /\ pc' = [pc EXCEPT ![c] = "running"]
          /\ pc[c] = "second" /\ UNCHANGED <<lastInvocation, invocation, execMutex>>
      BY <1>4, <2>2 DEF SecondCheck
    <3>2. /\ Len(executed') = Len(executed) + 1 /\ executed'[Len(executed')] = lastInvocation
          /\ \A j \in DOMAIN executed' : j < Len(executed') => j \in DOMAIN executed /\ executed'[j] = executed[j]
          /\ executed' \in Seq(Nat) /\ executed' # <<>>
      BY <3>1
    <3>3. ASSUME NEW j \in DOMAIN executed PROVE executed[j] < lastInvocation
      <4>1. executed[j] # invocation[c] BY <3>1
      <4>2. executed[j] \in Nat /\ executed[j] <= lastInvocation BY <3>1
      <4> QED BY <4>1, <4>2, <2>2
    <3>4. TypeOK' BY <3>1, <3>2
    <3>5. Newest' BY <3>1, <3>2
    <3>6. InOrder' BY <3>1, <3>2, <3>3
    <3>7. (\A d, e \in Calls : invocation[d] = invocation[e] /\ invocation[d] > 0 => d = e)' BY <3>1
    <3>8. (\A d \in Calls : InCriticalSection(d) => execMutex = "held")' BY <3>1
    <3>9. ASSUME NEW j \in DOMAIN executed' PROVE
              /\ executed'[j] > 0 /\ executed'[j] <= lastInvocation'
              /\ \A d \in Calls : invocation'[d] = executed'[j] => pc'[d] \in {"running", "unlock", "done"}
      <4>1. CASE j < Len(executed') BY <4>1, <3>1, <3>2
      <4>2. CASE j = Len(executed') BY <4>2, <3>1, <3>2, <2>2
      <4>3. j \in 1 .. Len(executed') BY <3>2
      <4> QED BY <4>1, <4>2, <4>3, <3>2
    <3> QED BY <3>4, <3>5, <3>6, <3>7, <3>8, <3>9
  <2> QED BY <2>1, <2>2
<1>5. ASSUME NEW c \in Calls, Execute(c) PROVE IInv' BY <1>5 DEF Execute
<1>6. ASSUME NEW c \in Calls, UnlockExec(c) PROVE IInv' BY <1>6 DEF UnlockExec
<1>7. CASE UNCHANGED vars BY <1>7 DEF vars
<1> QED BY <1>1, <1>2, <1>3, <1>4, <1>5, <1>6, <1>7 DEF Next, RunTask

\* For any set of calls, the newest invocation is never dropped, and workerFunc is executed for
\* one call at a time, in the order of the invocations.
THEOREM NewestRuns == Spec => [](LastOneRuns /\ InOrder)
<1>1. IInv => LastOneRuns /\ InOrder BY DEF IInv, TypeOK, Newest, Ordered, LastOneRuns
<1> QED BY <1>1, InitInv, StepInv, PTL DEF Spec
=============================================================================
