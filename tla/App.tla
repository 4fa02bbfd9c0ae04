-------------------------------- MODULE App --------------------------------
(***************************************************************************)
(* app: the life of an application.  The main goroutine takes the          *)
(* components through the stages of initializeApp, runs the daemon until   *)
(* its workers have ended, shuts the pools of the components down and      *)
(* returns.  The ShutdownHandler, started in the provide stage, waits for  *)
(* a signal or a call of SelfShutdown and then shuts the daemon down; a    *)
(* timer ends the process when that takes too long.                        *)
(*                                                                         *)
(* The daemon is the one of module OrderedDaemon, reduced to the calls the *)
(* application makes: its workers are told to end all at once.  Racing     *)
(* allows a shutdown to begin while Start is between its look at stopped   *)
(* and the lock (the LateCalls of OrderedDaemon).                          *)
(***************************************************************************)
EXTENDS Naturals, Sequences, SequencesExt

CONSTANTS Components,    \* options.components, a sequence
          Disabled,      \* components whose IsEnabled answers false
          Handler,       \* the component that runs the ShutdownHandler
          HasWorker,     \* components that start a background worker when they run
          Racing
VARIABLES main,          \* the stage of the main goroutine and the component it is at
          loaded,        \* App.components
          hooks,         \* <<stage, component>> of the hooks that were called (history)
          pool,          \* the worker pool of each component
          handler,       \* the goroutine of the ShutdownHandler
          gracefulStop,  \* a signal is in the channel
          critical,      \* of the request the handler accepted
          running, stopped, workers, alive, canceled,   \* the daemon
          process
vars == <<main, loaded, hooks, pool, handler, gracefulStop, critical,
          running, stopped, workers, alive, canceled, process>>
daemonVars == <<running, stopped, workers, alive, canceled>>
handlerVars == <<handler, gracefulStop, critical>>

All == ToSet(Components)
Stages == <<"initConfig", "addComponents", "provide", "invoke", "configure", "run">>
At(stage) == [stage |-> stage, next |-> 1]
TypeOK == /\ main.stage \in ToSet(Stages) \cup {"start", "starts", "waits", "pools", "returned"}
          /\ ToSet(loaded) \subseteq All /\ pool \in [All -> {"none", "new", "running", "shut down"}]
          /\ handler \in {"none", "started", "selects", "stops", "checks", "cancels", "waits", "done"}
          /\ alive \subseteq All /\ workers \subseteq All /\ canceled \subseteq All
          /\ process \in {"up", "returned", "panicked", "exit 1", "forced"}

Init == /\ main = At("initConfig") /\ loaded = <<>> /\ hooks = {}
        /\ pool = [c \in All |-> "none"]
        /\ handler = "none" /\ gracefulStop = FALSE /\ critical = FALSE
        /\ running = FALSE /\ stopped = FALSE /\ workers = {} /\ alive = {} /\ canceled = {}
        /\ process = "up"

\* forEachComponent goes over the options until addComponents, ForEachComponent over the loaded.
Visits(stage) == IF stage \in {"initConfig", "addComponents"} THEN Components ELSE loaded

\* A stage is done.
NextStage ==
    LET k == CHOOSE j \in DOMAIN Stages : Stages[j] = main.stage
    IN /\ process = "up" /\ main.stage \in ToSet(Stages) /\ main.next > Len(Visits(main.stage))
       /\ main' = At(IF k = Len(Stages) THEN "start" ELSE Stages[k + 1])
       /\ UNCHANGED <<loaded, hooks, pool, handlerVars, daemonVars, process>>

\* The component the stage is at; its hook returns without an error.
Visit(stage, c) ==
    /\ process = "up" /\ main.stage = stage
    /\ main.next <= Len(Visits(stage)) /\ c = Visits(stage)[main.next]
    /\ main' = [main EXCEPT !.next = @ + 1]

\* initConfig, invoke and configure.
CallHook(stage, c) ==
    /\ Visit(stage, c) /\ hooks' = hooks \cup {<<stage, c>>}
    /\ UNCHANGED <<loaded, pool, handlerVars, daemonVars, process>>

\* preProvide and addComponents: the enabled components are loaded, with a pool each.
addComponents(c) ==
    /\ Visit("addComponents", c)
    /\ IF c \in Disabled
       THEN UNCHANGED <<loaded, pool>>
       ELSE loaded' = Append(loaded, c) /\ pool' = [pool EXCEPT ![c] = "new"]
    /\ UNCHANGED <<hooks, handlerVars, daemonVars, process>>

\* provide; the component of the ShutdownHandler creates and runs it.
provide(c) ==
    /\ Visit("provide", c) /\ hooks' = hooks \cup {<<"provide", c>>}
    /\ handler' = IF c = Handler THEN "started" ELSE handler
    /\ UNCHANGED <<loaded, pool, gracefulStop, critical, daemonVars, process>>

\* run: the pool, and the Run hook with its background worker, which a stopped daemon refuses.
run(c) ==
    /\ Visit("run", c) /\ hooks' = hooks \cup {<<"run", c>>}
    /\ pool' = [pool EXCEPT ![c] = "running"]
    /\ workers' = IF c \in HasWorker /\ ~stopped THEN workers \cup {c} ELSE workers
    /\ UNCHANGED <<loaded, handlerVars, running, stopped, alive, canceled, process>>

\* A hook returns an error, or the Run hook does because the daemon refused its worker.
Panic(stage, c) ==
    /\ Visit(stage, c) /\ stage # "addComponents" /\ process' = "panicked"
    /\ UNCHANGED <<loaded, hooks, pool, handlerVars, daemonVars>>

\* Daemon.Run: Start looks at stopped,
Start == /\ process = "up" /\ main.stage = "start"
         /\ main' = At(IF stopped THEN "waits" ELSE "starts")
         /\ UNCHANGED <<loaded, hooks, pool, handlerVars, daemonVars, process>>
\* takes the lock and starts the workers,
StartWorkers ==
    /\ process = "up" /\ main.stage = "starts" /\ main' = At("waits")
    /\ running' = TRUE /\ alive' = workers
    /\ UNCHANGED <<loaded, hooks, pool, handlerVars, stopped, workers, canceled, process>>
WaitedMutant == /\ process = "up" /\ main.stage = "waits" /\ main' = At("pools")
                /\ UNCHANGED <<loaded, hooks, pool, handlerVars, daemonVars, process>>
\* and Run waits for the wait groups of all orders.
Waited == /\ process = "up" /\ main.stage = "waits" /\ alive = {} /\ main' = At("pools")
          /\ UNCHANGED <<loaded, hooks, pool, handlerVars, daemonVars, process>>

\* App.Run shuts the pools down one after the other
ShutdownPool(c) ==
    /\ process = "up" /\ main.stage = "pools" /\ main.next <= Len(loaded) /\ c = loaded[main.next]
    /\ main' = [main EXCEPT !.next = @ + 1]
    /\ pool' = [pool EXCEPT ![c] = "shut down"]
    /\ UNCHANGED <<loaded, hooks, handlerVars, daemonVars, process>>
\* and returns, which ends the process.
Return == /\ process = "up" /\ main.stage = "pools" /\ main.next > Len(loaded)
          /\ main' = At("returned") /\ process' = "returned"
          /\ UNCHANGED <<loaded, hooks, pool, handlerVars, daemonVars>>
-----------------------------------------------------------------------------
\* ShutdownHandler.Run: the goroutine reaches its select.
Select == /\ process = "up" /\ handler = "started" /\ handler' = "selects"
          /\ UNCHANGED <<main, loaded, hooks, pool, gracefulStop, critical, daemonVars, process>>

\* The process gets a signal; the channel keeps one.
Signal == /\ process = "up" /\ handler # "none" /\ ~gracefulStop /\ gracefulStop' = TRUE
          /\ UNCHANGED <<main, loaded, hooks, pool, handler, critical, daemonVars, process>>

ReceiveSignal ==
    /\ process = "up" /\ handler = "selects" /\ gracefulStop
    /\ handler' = "stops" /\ gracefulStop' = FALSE
    /\ UNCHANGED <<main, loaded, hooks, pool, critical, daemonVars, process>>

\* SelfShutdown while the handler selects; at any other time the request is dropped.
SelfShutdown(isCritical) ==
    /\ process = "up" /\ handler = "selects"
    /\ handler' = "stops" /\ critical' = isCritical
    /\ UNCHANGED <<main, loaded, hooks, pool, gracefulStop, daemonVars, process>>

\* Daemon.ShutdownAndWait: stopped,
Stop == /\ process = "up" /\ handler = "stops" /\ (Racing \/ main.stage # "starts")
        /\ stopped' = TRUE /\ handler' = "checks"
        /\ UNCHANGED <<main, loaded, hooks, pool, gracefulStop, critical,
                       running, workers, alive, canceled, process>>
CheckRunningMutant ==
    /\ process = "up" /\ handler = "checks" /\ handler' = "done"
    /\ UNCHANGED <<main, loaded, hooks, pool, gracefulStop, critical, daemonVars, process>>
\* nothing more if the daemon does not run,
CheckRunning ==
    /\ process = "up" /\ handler = "checks" /\ handler' = IF running THEN "cancels" ELSE "done"
    /\ UNCHANGED <<main, loaded, hooks, pool, gracefulStop, critical, daemonVars, process>>
\* or the workers are told to end
Cancel == /\ process = "up" /\ handler = "cancels" /\ handler' = "waits" /\ canceled' = workers
          /\ UNCHANGED <<main, loaded, hooks, pool, gracefulStop, critical,
                         running, stopped, workers, alive, process>>
\* and waited for.
Ended == /\ process = "up" /\ handler = "waits" /\ alive = {}
         /\ handler' = "done" /\ running' = FALSE
         /\ UNCHANGED <<main, loaded, hooks, pool, gracefulStop, critical,
                        stopped, workers, alive, canceled, process>>

\* A background worker returns once its context is done.
WorkerEnds(c) ==
    /\ process = "up" /\ c \in alive \cap canceled /\ alive' = alive \ {c}
    /\ UNCHANGED <<main, loaded, hooks, pool, handlerVars, running, stopped, workers, canceled, process>>

\* The handler exits after a critical request, whatever main still has to do; the timer does
\* when the grace period is over.
Exit == /\ process = "up" /\ handler = "done" /\ critical /\ process' = "exit 1"
        /\ UNCHANGED <<main, loaded, hooks, pool, handlerVars, daemonVars>>
Force == /\ process = "up" /\ handler \notin {"none", "started", "selects"} /\ process' = "forced"
         /\ UNCHANGED <<main, loaded, hooks, pool, handlerVars, daemonVars>>

Main == \/ NextStage
        \/ \E c \in All : \/ \E stage \in {"initConfig", "invoke", "configure"} : CallHook(stage, c)
                          \/ addComponents(c) \/ provide(c) \/ run(c) \/ ShutdownPool(c)
        \/ Start \/ StartWorkers \/ Waited \/ Return
Goroutines == Select \/ ReceiveSignal \/ Stop \/ CheckRunning \/ Cancel \/ Ended \/ Exit
Environment == \/ Signal \/ \E isCritical \in BOOLEAN : SelfShutdown(isCritical)
               \/ Force \/ \E stage \in ToSet(Stages), c \in All : Panic(stage, c)
Next == Main \/ Goroutines \/ Environment \/ \E c \in All : WorkerEnds(c)
Spec == Init /\ [][Next]_vars
\* The goroutines run and the background workers obey; the timer is not relied on.
FairSpec == Spec /\ WF_vars(Main) /\ WF_vars(Goroutines) /\ \A c \in All : WF_vars(WorkerEnds(c))

\* A hook of a stage is called only when the hooks of the stage before were called for all
\* loaded components, and for loaded components only; and when main returns, no background
\* worker is left and the pools that were started are shut down.
CleanExit ==
    /\ \A k \in 4..Len(Stages), c \in All : <<Stages[k], c>> \in hooks =>
          /\ c \notin Disabled
          /\ \A d \in ToSet(loaded) : <<Stages[k - 1], d>> \in hooks
    /\ process = "returned" =>
          alive = {} /\ \A c \in All : pool[c] \notin {"new", "running"}

\* Whenever a signal arrives, during the start or later, and when a request to shut down is
\* accepted, the process ends, without the timer.
ProcessEnds == gracefulStop \/ handler = "stops" ~> process # "up"
=============================================================================
