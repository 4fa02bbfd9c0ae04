------------------------------ MODULE MCRuntime ------------------------------
(***************************************************************************)
(* The components with goroutines that must come to an end, in one run     *)
(* with fairness.  A behaviour uses one of them, its subject; the          *)
(* variables of the others keep their initial values.                      *)
(*  - StarvingMutex: this module extends it, its proofs are about it.      *)
(*  - WorkerPool: two workers, three tasks, one Start and one Shutdown.    *)
(*  - OrderedDaemon: four workers of three orders; two share a name.       *)
(*  - App: three components, one disabled, one with the shutdown handler.  *)
(***************************************************************************)
EXTENDS StarvingMutex

CONSTANTS PoolWorkers, Tasks, MaxStarts, MaxShutdowns,
          optCancelPendingTasksOnShutdown, SubmitDuringShutdown,
          Handlers, SelfEnding, LateCalls,
          Disabled, Handler, HasWorker, Racing
VARIABLES subject,
    isRunning, mutex, toSend, starts, shutdowns, dispatcherChan, closed, shutdownSignal, pending,
    submit, outcome, queue, dispatcher, inHand, worker, task, pushed, received,
    running, stopped, workers, cleared, daemonPc, flag, canceled, start, run, runOrders,
    shutdown, snap, prevPriority,
    main, loaded, hooks, pool, handler, gracefulStop, critical,
    appRunning, appStopped, appWorkers, alive, appCanceled, process

HandlerName == [w \in Handlers |-> IF w = "b2" THEN "b" ELSE w]
HandlerOrder == [w \in Handlers |-> CASE w = "a" -> 2 [] w = "b2" -> 0 [] OTHER -> 1]

WP == INSTANCE WorkerPool WITH Workers <- PoolWorkers
OD == INSTANCE OrderedDaemon WITH Workers <- Handlers, Name <- HandlerName, Order <- HandlerOrder,
                                  pc <- daemonPc
AP == INSTANCE App WITH Components <- <<"a", "s", "b">>, running <- appRunning,
                        stopped <- appStopped, workers <- appWorkers, canceled <- appCanceled
ASSUME Assumptions == WP!OptionsAssumption /\ OD!LateCallsAssumption

wpVars == <<isRunning, mutex, toSend, starts, shutdowns, dispatcherChan, closed, shutdownSignal,
            pending, submit, outcome, queue, dispatcher, inHand, worker, task, pushed, received>>
odVars == <<running, stopped, workers, cleared, daemonPc, flag, canceled, start, run, runOrders,
            shutdown, snap, prevPriority>>
apVars == <<main, loaded, hooks, pool, handler, gracefulStop, critical,
            appRunning, appStopped, appWorkers, alive, appCanceled, process>>
allVars == <<vars, subject, wpVars, odVars, apVars>>

RuntimeInit ==
    /\ subject \in {"StarvingMutex", "WorkerPool", "OrderedDaemon", "App"}
    /\ Init /\ WP!Init /\ OD!Init /\ AP!Init
RuntimeNext ==
    /\ \/ subject = "StarvingMutex" /\ Next /\ UNCHANGED <<wpVars, odVars, apVars>>
       \/ subject = "WorkerPool" /\ WP!Next /\ UNCHANGED <<vars, odVars, apVars>>
       \/ subject = "OrderedDaemon" /\ OD!Next /\ UNCHANGED <<vars, wpVars, apVars>>
       \/ subject = "App" /\ AP!Next /\ UNCHANGED <<vars, wpVars, odVars>>
    /\ UNCHANGED subject

\* The fairness of each component, as its FairSpec states it.
MutexFairness == \A p \in Procs : WF_vars(subject = "StarvingMutex" /\ ~panicked /\ Internal(p))
PoolStep(A) == subject = "WorkerPool" /\ A
PoolFairness ==
    /\ WF_wpVars(PoolStep(WP!Dispatch)) /\ WF_wpVars(PoolStep(WP!CallGoesOn))
    /\ \A t \in Tasks : WF_wpVars(PoolStep(WP!SubmitGoesOn(t)))
    /\ \A w \in PoolWorkers : WF_wpVars(PoolStep(WP!Work(w)))
DaemonStep(A) == subject = "OrderedDaemon" /\ A
DaemonFairness ==
    /\ WF_odVars(DaemonStep(OD!Stopping))
    /\ \A w \in Handlers : /\ WF_odVars(DaemonStep(OD!Goroutine(w)))
                           /\ WF_odVars(DaemonStep(canceled[w] /\ OD!HandlerReturns(w)))
AppStep(A) == subject = "App" /\ A
AppFairness ==
    /\ WF_apVars(AppStep(AP!Main)) /\ WF_apVars(AppStep(AP!Goroutines))
    /\ \A c \in HasWorker : WF_apVars(AppStep(AP!WorkerEnds(c)))
RuntimeSpec ==
    /\ RuntimeInit /\ [][RuntimeNext]_allVars
    /\ MutexFairness /\ PoolFairness /\ DaemonFairness /\ AppFairness

\* WorkerPool: tasks are taken in the order of Push, and none is left when the workers are gone.
DrainedOnShutdown == WP!DispatchInOrder /\ WP!DrainedOnShutdown
\* OrderedDaemon: a worker is told to stop only when those of higher orders have ended, and none
\* runs when the shutdown is done.
ShutdownOrderKept == OD!ShutdownOrderKept /\ OD!NoneLeftRunning
\* App: the hooks of a stage follow all those of the stage before, and nothing is left at the end.
CleanExit == AP!CleanExit
\* WorkerPool: a submitted task finishes, before or after a Shutdown.
SubmittedFinishes == WP!SubmittedFinishes
\* OrderedDaemon and App: a shutdown that has begun ends.
ShutdownTerminates == OD!ShutdownTerminates /\ AP!ProcessEnds
=============================================================================
