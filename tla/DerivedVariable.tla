--------------------------- MODULE DerivedVariable ---------------------------
(***************************************************************************)
(* ds/reactive: NewDerivedVariable, 2 and 3 (variable.go), a variable that *)
(* is computed from N others.  The creator subscribes to the inputs one    *)
(* after the other while their writers are at work.  A callback of input i *)
(* gets the new value of i and reads the other inputs with Get, inside the *)
(* Compute of the derived variable, whose updateOrderMutex it holds.       *)
(* ReactiveVariable shows what a variable does for its subscribers; here   *)
(* the writes of an input and the calls they cause are one process.  The   *)
(* computed value is kept as the tuple of the arguments of compute.        *)
(***************************************************************************)
EXTENDS Naturals

CONSTANTS N, Value, Zero, MaxWrites
Inputs == 1 .. N
Creator == 0
Processes == {Creator} \cup Inputs
DerivedAssumption == N \in Nat \ {0} /\ Zero \in Value

Free == N + 1

VARIABLES
    input, writes,      \* value of every input; writes so far
    subscribed,         \* inputs the callback is registered with
    executionMutex,     \* per input: the process executing its callback, or Free
    derived, mutex,     \* the derived variable, as a tuple; its updateOrderMutex
    pc, current,        \* per process: location; the input whose callback it runs
    args, next          \* per process: arguments collected for compute; next to read
vars == <<input, writes, subscribed, executionMutex, derived, mutex, pc, current, args, next>>
inVars == <<input, writes, subscribed>>

AllZero == [i \in Inputs |-> Zero]
Init ==
    /\ input \in [Inputs -> Value] /\ writes = [i \in Inputs |-> 0] /\ subscribed = {}
    /\ executionMutex = [i \in Inputs |-> Free] /\ derived = AllZero /\ mutex = Free
    /\ pc = [p \in Processes |-> IF p = Creator THEN "subscribe" ELSE "idle"]
    /\ current = [p \in Processes |-> IF p = Creator THEN 1 ELSE p]
    /\ args = [p \in Processes |-> AllZero] /\ next = [p \in Processes |-> 1]

\* A write of input i; its callbacks are collected under the same lock.
Set(i) ==
    /\ pc[i] = "idle" /\ writes[i] < MaxWrites
    /\ \E v \in Value \ {input[i]} : input' = [input EXCEPT ![i] = v]
    /\ writes' = [writes EXCEPT ![i] = @ + 1]
    /\ pc' = [pc EXCEPT ![i] = IF i \in subscribed THEN "callback" ELSE "idle"]
    /\ UNCHANGED <<subscribed, executionMutex, derived, mutex, current, args, next>>

\* LockExecution of the callback, which is invoked with the new value.
Callback(i) ==
    /\ pc[i] = "callback" /\ executionMutex[i] = Free
    /\ executionMutex' = [executionMutex EXCEPT ![i] = i]
    /\ args' = [args EXCEPT ![i][i] = input[i]] /\ pc' = [pc EXCEPT ![i] = "compute"]
    /\ UNCHANGED <<inVars, derived, mutex, current, next>>

\* OnUpdate by the creator: it invokes the callback with the value it read.
\* Mutant: the execution lock is not held from before the value was read.
SubscribeMutant ==
    LET i == current[Creator] IN
    /\ pc[Creator] = "subscribe" /\ pc' = [pc EXCEPT ![Creator] = "compute"]
    /\ subscribed' = subscribed \cup {i}
    /\ args' = [args EXCEPT ![Creator][i] = input[i]]
    /\ UNCHANGED <<input, writes, executionMutex, derived, mutex, current, next>>
Subscribe ==
    LET i == current[Creator] IN
    /\ pc[Creator] = "subscribe" /\ pc' = [pc EXCEPT ![Creator] = "compute"]
    /\ subscribed' = subscribed \cup {i}
    /\ executionMutex' = [executionMutex EXCEPT ![i] = Creator]
    /\ args' = [args EXCEPT ![Creator][i] = input[i]]
    /\ UNCHANGED <<input, writes, derived, mutex, current, next>>

\* d.Compute: take the lock; read the other inputs in the order of the arguments.
Compute(p) ==
    /\ pc[p] = "compute" /\ mutex = Free /\ mutex' = p
    /\ pc' = [pc EXCEPT ![p] = "read"] /\ next' = [next EXCEPT ![p] = 1]
    /\ UNCHANGED <<inVars, executionMutex, derived, current, args>>

Read(p) ==
    /\ pc[p] = "read" /\ next[p] <= N /\ next' = [next EXCEPT ![p] = @ + 1]
    /\ args' = IF next[p] = current[p] THEN args
               ELSE [args EXCEPT ![p][next[p]] = input[next[p]]]
    /\ UNCHANGED <<inVars, executionMutex, derived, mutex, pc, current>>

\* The value is stored, the locks are released; the creator goes on to the next input.
Assign(p) ==
    /\ pc[p] = "read" /\ next[p] = N + 1 /\ derived' = args[p] /\ mutex' = Free
    /\ executionMutex' = [executionMutex EXCEPT ![current[p]] = Free]
    /\ pc' = [pc EXCEPT ![p] = IF p # Creator THEN "idle"
                               ELSE IF current[p] = N THEN "created" ELSE "subscribe"]
    /\ current' = [current EXCEPT ![p] = IF p = Creator /\ @ < N THEN @ + 1 ELSE @]
    /\ UNCHANGED <<inVars, args, next>>

Step(p) == Compute(p) \/ Read(p) \/ Assign(p)
GoOn == Subscribe \/ (\E i \in Inputs : Callback(i)) \/ \E p \in Processes : Step(p)
Next == GoOn \/ \E i \in Inputs : Set(i)
Spec == Init /\ [][Next]_vars

\* When nothing that is under way can go on, the variable has been created and is
\* computed from the current values of all its inputs: no update is lost in
\* whatever order the writes arrive, and the locks of the variables involved do
\* not block one another.
Consistent == ~ENABLED GoOn => pc[Creator] = "created" /\ derived = input
=============================================================================
