---------------------------- MODULE OrderedDaemon ----------------------------
(***************************************************************************)
(* app/daemon/daemon.go.  An element of Workers is one call of             *)
(* BackgroundWorker and the goroutine it leads to; several may use the     *)
(* same name.  Every section under d.lock is one step; the atomics are     *)
(* read outside of it, as in the code.  shutdownOrderWorker is the set of  *)
(* names it lists, taken in descending order of shutdownOrder, equal ones  *)
(* in any order (sort.Slice is not stable).  A WaitGroup of                *)
(* wgPerSameShutdownOrder is at zero when no handler of its order runs.    *)
(***************************************************************************)
EXTENDS Integers, FiniteSets

CONSTANTS
    Workers, Name, Order,  \* Name, Order: functions on Workers
    SelfEnding,            \* workers whose handler may return before it is told to
    LateCalls  \* FALSE: no BackgroundWorker or Start is under way when the shutdown begins
Names == {Name[w] : w \in Workers}
None == "none"
LateCallsAssumption == LateCalls \in BOOLEAN

VARIABLES
    running, stopped,
    workers,    \* the map: per name the worker object or None
    cleared,    \* clear() has set the maps to nil
    pc,         \* per worker: where its BackgroundWorker call or its goroutine is
    flag,       \* per worker: worker.running
    canceled,   \* per worker: its context is canceled
    start, run, runOrders, \* callers of Start and of Run; the orders Run waits for
    shutdown, snap, prevPriority  \* progress of the shutdown, its copy of the workers

daemonVars == <<running, stopped, workers, cleared>>
callVars == <<start, run, runOrders>>
stopVars == <<shutdown, snap, prevPriority>>
vars == <<daemonVars, pc, flag, canceled, callVars, stopVars>>

Init ==
    /\ running = FALSE /\ stopped = FALSE /\ cleared = FALSE
    /\ workers = [n \in Names |-> None]
    /\ pc = [w \in Workers |-> "new"]
    /\ flag = [w \in Workers |-> FALSE] /\ canceled = [w \in Workers |-> FALSE]
    /\ start = "idle" /\ run = "idle" /\ runOrders = {}
    /\ shutdown = "idle" /\ snap = {} /\ prevPriority = 0

Registered == {workers[n] : n \in Names} \ {None}
WaitGroupDone(o) == \A w \in Workers : Order[w] = o => pc[w] # "handler"
CallUnderWay == start = "admitted" \/ \E w \in Workers : pc[w] = "admitted"

\* --------------------------------------------------------- BackgroundWorker
\* The IsStopped check comes before the lock.
BackgroundWorker(w) ==
    /\ pc[w] = "new"
    /\ pc' = [pc EXCEPT ![w] = IF stopped THEN "rejected" ELSE "admitted"]
    /\ UNCHANGED <<daemonVars, flag, canceled, callVars, stopVars>>

NameTaken(w) == LET ex == workers[Name[w]] IN ex # None /\ (~running \/ flag[ex])

\* Under the lock.  Writing to a nil map panics.
AddWorker(w) ==
    /\ pc[w] = "admitted"
    /\ IF cleared \/ NameTaken(w)
       THEN /\ pc' = [pc EXCEPT ![w] = IF cleared THEN "panicked" ELSE "rejected"]
            /\ UNCHANGED <<workers, flag>>
       ELSE /\ workers' = [workers EXCEPT ![Name[w]] = w]
            /\ pc' = [pc EXCEPT ![w] = IF running THEN "handler" ELSE "registered"]
            /\ flag' = [flag EXCEPT ![w] = running]
    /\ UNCHANGED <<running, stopped, cleared, canceled, callVars, stopVars>>

\* -------------------------------------------------------------- Start, Run
\* Run begins with Start; its stop check, too, comes before the lock.
Start ==
    /\ start = "idle" /\ start' = IF stopped THEN "returned" ELSE "admitted"
    /\ UNCHANGED <<daemonVars, pc, flag, canceled, run, runOrders, stopVars>>

StartWorkers ==
    /\ start = "admitted" /\ start' = "returned"
    /\ IF running THEN UNCHANGED <<running, pc, flag>>
       ELSE /\ running' = TRUE
            /\ pc' = [w \in Workers |-> IF w \in Registered THEN "handler" ELSE pc[w]]
            /\ flag' = [w \in Workers |-> flag[w] \/ w \in Registered]
    /\ UNCHANGED <<stopped, workers, cleared, canceled, run, runOrders, stopVars>>

\* The keys of wgPerSameShutdownOrder: every order added so far.
Orders == IF cleared THEN {} ELSE
    {Order[w] : w \in {v \in Workers : pc[v] \notin {"new", "rejected", "panicked", "admitted"}}}

\* waitGroupsForAllShutdownOrders copies the wait groups; Run waits for one
\* after the other, in the order of a map.
RunCopy ==
    /\ start = "returned" /\ run = "idle" /\ run' = "waiting" /\ runOrders' = Orders
    /\ UNCHANGED <<daemonVars, pc, flag, canceled, start, stopVars>>
Run ==
    /\ run = "waiting"
    /\ IF runOrders = {} THEN run' = "returned" /\ UNCHANGED runOrders
       ELSE \E o \in runOrders : WaitGroupDone(o) /\ runOrders' = runOrders \ {o} /\ UNCHANGED run
    /\ UNCHANGED <<daemonVars, pc, flag, canceled, start, stopVars>>

\* -------------------------------------------------------- worker goroutines
\* The handler returns, and shutdownOrderWaitGroup.Done().
HandlerReturns(w) ==
    /\ pc[w] = "handler" /\ (canceled[w] \/ w \in SelfEnding)
    /\ pc' = [pc EXCEPT ![w] = "returned"]
    /\ UNCHANGED <<daemonVars, flag, canceled, callVars, stopVars>>

cleanupWorker(w) ==
    /\ pc[w] = "returned" /\ pc' = [pc EXCEPT ![w] = "cleaned"]
    /\ workers' = IF stopped THEN workers ELSE [workers EXCEPT ![Name[w]] = None]
    /\ UNCHANGED <<running, stopped, cleared, flag, canceled, callVars, stopVars>>

UnsetRunning(w) ==
    /\ pc[w] = "cleaned" /\ pc' = [pc EXCEPT ![w] = "finished"]
    /\ flag' = [flag EXCEPT ![w] = FALSE]
    /\ UNCHANGED <<daemonVars, canceled, callVars, stopVars>>

\* ----------------------------------------------------- shutdown (stopOnce)
Shutdown ==
    /\ shutdown = "idle" /\ (LateCalls \/ ~CallUnderWay)
    /\ stopped' = TRUE /\ shutdown' = "stopped"
    /\ UNCHANGED <<running, workers, cleared, pc, flag, canceled, callVars, snap, prevPriority>>

CheckRunning ==
    /\ shutdown = "stopped" /\ shutdown' = IF running THEN "copy" ELSE "done"
    /\ UNCHANGED <<daemonVars, pc, flag, canceled, callVars, snap, prevPriority>>

First(S) == {w \in S : \A v \in S : Order[v] <= Order[w]}

getWorkersAndShutdownOrder ==
    /\ shutdown = "copy" /\ snap' = Registered
    /\ shutdown' = IF Registered = {} THEN "unset" ELSE "stopping"
    /\ prevPriority' = IF Registered = {} THEN 0
                       ELSE Order[CHOOSE w \in First(Registered) : TRUE]
    /\ UNCHANGED <<daemonVars, pc, flag, canceled, callVars>>

\* Mutant: the workers are told in order, but not waited for.
PreviousDoneMutant(w) == TRUE
\* Mutant: it is its own priority that is waited for.
PreviousDoneOwn(w) == Order[w] < prevPriority => WaitGroupDone(Order[w])
\* "wait for every worker in the previous shutdown priority to terminate"
PreviousDone(w) == Order[w] < prevPriority => WaitGroupDone(prevPriority)

\* One iteration of the loop of stopWorkers.
stopWorker(w) ==
    /\ shutdown = "stopping" /\ w \in First(snap)
    /\ IF flag[w] THEN PreviousDone(w) /\ prevPriority' = Order[w]
       ELSE UNCHANGED prevPriority
    /\ canceled' = [canceled EXCEPT ![w] = TRUE]
    /\ snap' = snap \ {w}
    /\ UNCHANGED <<daemonVars, pc, flag, callVars, shutdown>>

\* Mutant: the last priority is not waited for.
WaitLastMutant ==
    /\ shutdown = "stopping" /\ snap = {} /\ shutdown' = "unset"
    /\ UNCHANGED <<daemonVars, pc, flag, canceled, callVars, snap, prevPriority>>
WaitLast ==
    /\ shutdown = "stopping" /\ snap = {} /\ WaitGroupDone(prevPriority)
    /\ shutdown' = "unset"
    /\ UNCHANGED <<daemonVars, pc, flag, canceled, callVars, snap, prevPriority>>

Unset ==
    /\ shutdown = "unset" /\ running' = FALSE /\ shutdown' = "clear"
    /\ UNCHANGED <<stopped, workers, cleared, pc, flag, canceled, callVars, snap, prevPriority>>
clear ==
    /\ shutdown = "clear" /\ shutdown' = "done"
    /\ cleared' = TRUE /\ workers' = [n \in Names |-> None]
    /\ UNCHANGED <<running, stopped, pc, flag, canceled, callVars, snap, prevPriority>>

Stopping == \/ CheckRunning \/ getWorkersAndShutdownOrder \/ WaitLast \/ Unset \/ clear
            \/ \E w \in Workers : stopWorker(w)
Goroutine(w) == cleanupWorker(w) \/ UnsetRunning(w)
Next == \/ Start \/ StartWorkers \/ RunCopy \/ Run \/ Shutdown \/ Stopping
        \/ \E w \in Workers : \/ BackgroundWorker(w) \/ AddWorker(w)
                              \/ HandlerReturns(w) \/ Goroutine(w)

Spec == Init /\ [][Next]_vars
\* Goroutines run; a handler returns when its context is canceled (WorkerFunc's contract).
FairSpec == /\ Spec /\ WF_vars(Stopping)
            /\ \A w \in Workers : WF_vars(Goroutine(w)) /\ WF_vars(canceled[w] /\ HandlerReturns(w))
-----------------------------------------------------------------------------

\* A worker is told to stop only when no worker of a higher order runs any
\* more: "higher = earlier" (daemon.go:183), also for workers that end on
\* their own or are added while the daemon runs.
ShutdownOrderKept == \A v, w \in Workers :
    canceled[w] /\ pc[w] = "handler" /\ Order[v] > Order[w] => pc[v] # "handler"

\* "signals all background worker of the daemon to shut down and then waits for
\* their termination" (daemon.go:396).
NoneLeftRunning == shutdown = "done" => \A w \in Workers : pc[w] # "handler"

\* The shutdown terminates, and never waits for a worker it did not tell to stop.
ShutdownTerminates == shutdown = "stopped" ~> shutdown = "done"
=============================================================================
