----------------------------- MODULE WorkerPool -----------------------------
(***************************************************************************)
(* runtime/workerpool/workerpool.go with the syncutils.Stack it queues     *)
(* tasks in: the submitters (one per task), the dispatcher goroutine, the  *)
(* workers, and the callers of Start and Shutdown, which hold w.mutex      *)
(* while they wait.  Waiting on PendingTasksCounter is a guard here: see   *)
(* Counter, which shows that a waiter sees the zero.                       *)
(***************************************************************************)
EXTENDS Naturals, FiniteSets, SequencesExt

CONSTANTS
    Workers, Tasks,
    MaxStarts, MaxShutdowns,          \* bounds on the calls of Start and Shutdown
    optCancelPendingTasksOnShutdown,
    SubmitDuringShutdown  \* FALSE: Shutdown is called when no Submit is under way
OptionsAssumption ==
    {optCancelPendingTasksOnShutdown, SubmitDuringShutdown} \subseteq BOOLEAN

workerCount == Cardinality(Workers)
NoTask == "none"

VARIABLES
    isRunning, mutex,   \* mutex: "free", or which of Start and Shutdown holds it
    toSend,             \* tokens Shutdown still has to put into shutdownSignal
    starts, shutdowns,  \* calls so far
    dispatcherChan, closed, shutdownSignal,  \* the two channels (the second: a count)
    pending,            \* PendingTasksCounter
    submit, outcome,    \* per task: how far its Submit is; "open", "ran", "canceled"
    queue,              \* w.Queue: a FIFO, despite the name Stack
    dispatcher, inHand, \* the dispatcher: its location, the task it has popped
    worker, task,       \* per worker: location, the task it executes
    pushed, received    \* history: order of Push, order in which workers take tasks

poolVars == <<isRunning, mutex, toSend, starts, shutdowns>>
chanVars == <<dispatcherChan, closed, shutdownSignal>>
taskVars == <<pending, submit, outcome, pushed>>
dispVars == <<dispatcher, inHand, queue>>
workVars == <<worker, task, received>>
vars == <<poolVars, chanVars, taskVars, dispVars, workVars>>

Init ==
    /\ isRunning = FALSE /\ mutex = "free" /\ toSend = 0 /\ starts = 0 /\ shutdowns = 0
    /\ dispatcherChan = <<>> /\ closed = FALSE /\ shutdownSignal = 0
    /\ pending = 0 /\ queue = <<>> /\ pushed = <<>> /\ received = <<>>
    /\ submit = [t \in Tasks |-> "new"] /\ outcome = [t \in Tasks |-> "open"]
    /\ dispatcher = "none" /\ inHand = NoTask
    /\ worker = [w \in Workers |-> "done"] /\ task = [w \in Workers |-> NoTask]

ShutdownComplete == \A w \in Workers : worker[w] = "done"   \* the WaitGroup is at 0
CanRLock == mutex = "free"                                  \* IsRunning() does not block
\* PopOrWait holds the mutex of the queue while it asks IsRunning and until it parks.
QueueFree == dispatcher \notin {"check", "wait"}
Woken == IF dispatcher = "parked" THEN "pop" ELSE dispatcher  \* elementAdded.Broadcast()

\* ---------------------------------------------------------- Start, Shutdown
Start ==
    /\ mutex = "free" /\ ~isRunning /\ starts < MaxStarts
    /\ mutex' = "start" /\ starts' = starts + 1
    /\ UNCHANGED <<isRunning, toSend, shutdowns, chanVars, taskVars, dispVars, workVars>>

\* ShutdownComplete.Wait() returned, with w.mutex held all the while.
StartWorkers ==
    /\ mutex = "start" /\ ShutdownComplete
    /\ isRunning' = TRUE /\ mutex' = "free"
    /\ dispatcherChan' = <<>> /\ closed' = FALSE
    /\ dispatcher' = "loop"
    /\ worker' = [w \in Workers |-> "outer"]
    /\ UNCHANGED <<toSend, starts, shutdowns, shutdownSignal, taskVars, inHand, queue, task,
                   received>>

SubmitUnderWay(t) == submit[t] \in {"admitted", "counted", "broadcast"}

Shutdown ==
    /\ mutex = "free" /\ isRunning /\ shutdowns < MaxShutdowns
    /\ SubmitDuringShutdown \/ \A t \in Tasks : ~SubmitUnderWay(t)
    /\ isRunning' = FALSE /\ mutex' = "shutdown" /\ toSend' = workerCount
    /\ shutdowns' = shutdowns + 1
    /\ UNCHANGED <<starts, chanVars, taskVars, dispVars, workVars>>

ShutdownSend ==
    /\ mutex = "shutdown" /\ toSend > 0 /\ shutdownSignal < workerCount
    /\ shutdownSignal' = shutdownSignal + 1 /\ toSend' = toSend - 1
    /\ UNCHANGED <<isRunning, mutex, starts, shutdowns, dispatcherChan, closed, taskVars,
                   dispVars, workVars>>

\* Queue.SignalShutdown broadcasts without the mutex of the queue.
ShutdownBroadcast ==
    /\ mutex = "shutdown" /\ toSend = 0
    /\ mutex' = "free" /\ dispatcher' = Woken
    /\ UNCHANGED <<isRunning, toSend, starts, shutdowns, chanVars, taskVars, inHand, queue,
                   workVars>>

\* ------------------------------------------------------------------- Submit
SubmitCheck(t) ==
    /\ submit[t] = "new" /\ CanRLock
    /\ submit' = [submit EXCEPT ![t] = IF isRunning THEN "admitted" ELSE "rejected"]
    /\ UNCHANGED <<poolVars, chanVars, pending, outcome, pushed, dispVars, workVars>>

SubmitCount(t) ==
    /\ submit[t] = "admitted"
    /\ pending' = pending + 1
    /\ submit' = [submit EXCEPT ![t] = "counted"]
    /\ UNCHANGED <<poolVars, chanVars, outcome, pushed, dispVars, workVars>>

SubmitPush(t) ==
    /\ submit[t] = "counted" /\ QueueFree
    /\ queue' = Append(queue, t) /\ pushed' = Append(pushed, t)
    /\ submit' = [submit EXCEPT ![t] = "broadcast"]
    /\ UNCHANGED <<poolVars, chanVars, pending, outcome, dispatcher, inHand, workVars>>

SubmitBroadcast(t) ==
    /\ submit[t] = "broadcast"
    /\ submit' = [submit EXCEPT ![t] = "returned"] /\ dispatcher' = Woken
    /\ UNCHANGED <<poolVars, chanVars, pending, outcome, pushed, inHand, queue, workVars>>

\* --------------------------------------------------------------- dispatcher
DispatchTo(from, to) == dispatcher = from /\ dispatcher' = to

\* Mutant: the dispatcher leaves when the pool stops, whatever is queued.
DispatchSizeMutant == DispatchTo("size", "drained")
                      /\ UNCHANGED <<poolVars, chanVars, taskVars, inHand, queue, workVars>>
\* for w.IsRunning() || w.Queue.Size() > 0
DispatchLoop ==
    /\ CanRLock /\ DispatchTo("loop", IF isRunning THEN "pop" ELSE "size")
    /\ UNCHANGED <<poolVars, chanVars, taskVars, inHand, queue, workVars>>
DispatchSize ==
    /\ DispatchTo("size", IF queue # <<>> THEN "pop" ELSE "drained")
    /\ UNCHANGED <<poolVars, chanVars, taskVars, inHand, queue, workVars>>

\* Mutant: the queue is LIFO.
DispatchPopMutant ==
    /\ IF queue = <<>> THEN DispatchTo("pop", "check") /\ UNCHANGED <<inHand, queue>>
       ELSE DispatchTo("pop", "send") /\ inHand' = Last(queue) /\ queue' = Front(queue)
    /\ UNCHANGED <<poolVars, chanVars, taskVars, workVars>>
\* PopOrWait: take the head, or ask IsRunning and park if it says so.
DispatchPop ==
    /\ IF queue = <<>> THEN DispatchTo("pop", "check") /\ UNCHANGED <<inHand, queue>>
       ELSE DispatchTo("pop", "send") /\ inHand' = Head(queue) /\ queue' = Tail(queue)
    /\ UNCHANGED <<poolVars, chanVars, taskVars, workVars>>
DispatchCheck ==
    /\ CanRLock /\ DispatchTo("check", IF isRunning THEN "wait" ELSE "loop")
    /\ UNCHANGED <<poolVars, chanVars, taskVars, inHand, queue, workVars>>
DispatchPark ==
    /\ DispatchTo("wait", "parked")
    /\ UNCHANGED <<poolVars, chanVars, taskVars, inHand, queue, workVars>>

DispatchSend ==
    /\ Len(dispatcherChan) < workerCount /\ DispatchTo("send", "loop")
    /\ dispatcherChan' = Append(dispatcherChan, inHand) /\ inHand' = NoTask
    /\ UNCHANGED <<poolVars, closed, shutdownSignal, taskVars, queue, workVars>>

\* PendingTasksCounter.WaitIsZero(), then close(w.dispatcherChan).
DispatchWaitIsZero ==
    /\ pending = 0 /\ DispatchTo("drained", "closing")
    /\ UNCHANGED <<poolVars, chanVars, taskVars, inHand, queue, workVars>>
DispatchClose ==
    /\ DispatchTo("closing", "none") /\ closed' = TRUE
    /\ UNCHANGED <<poolVars, dispatcherChan, shutdownSignal, taskVars, inHand, queue, workVars>>

Dispatch == \/ DispatchLoop \/ DispatchSize \/ DispatchPop \/ DispatchCheck
            \/ DispatchPark \/ DispatchSend \/ DispatchWaitIsZero \/ DispatchClose

\* ------------------------------------------------------------------ workers
WorkTo(w, from, to) == worker[w] = from /\ worker' = [worker EXCEPT ![w] = to]
ReceiveSignal(w, from) ==
    /\ shutdownSignal > 0 /\ WorkTo(w, from, "drain")
    /\ shutdownSignal' = shutdownSignal - 1
    /\ UNCHANGED <<poolVars, dispatcherChan, closed, taskVars, dispVars, task, received>>
ReceiveTask(w, from, to) ==
    /\ dispatcherChan # <<>> /\ WorkTo(w, from, to)
    /\ dispatcherChan' = Tail(dispatcherChan)
    /\ task' = [task EXCEPT ![w] = Head(dispatcherChan)]
    /\ received' = Append(received, Head(dispatcherChan))
    /\ UNCHANGED <<poolVars, closed, shutdownSignal, taskVars, dispVars>>
ReceiveClosed(w, from, to) ==
    /\ dispatcherChan = <<>> /\ closed /\ WorkTo(w, from, to)
    /\ UNCHANGED <<poolVars, chanVars, taskVars, dispVars, task, received>>

\* task.run() or, on shutdown with the option set, task.markDone() alone.
Finish(w, from, to, how) ==
    /\ WorkTo(w, from, to)
    /\ outcome' = [outcome EXCEPT ![task[w]] = how] /\ task' = [task EXCEPT ![w] = NoTask]
    /\ pending' = pending - 1
    /\ UNCHANGED <<poolVars, chanVars, submit, pushed, dispVars, received>>

\* workerReadLoop: the outer select prefers the signal, the inner one does not.
ReadOuter(w) ==
    \/ ReceiveSignal(w, "outer")
    \/ /\ shutdownSignal = 0 /\ WorkTo(w, "outer", "inner")
       /\ UNCHANGED <<poolVars, chanVars, taskVars, dispVars, task, received>>
ReadInner(w) ==
    \/ ReceiveSignal(w, "inner")
    \/ ReceiveTask(w, "inner", "run")
    \/ ReceiveClosed(w, "inner", "drain")
Run(w) == Finish(w, "run", "outer", "ran")

handleShutdown(w) ==
    \/ ReceiveTask(w, "drain", "drainTask")
    \/ ReceiveClosed(w, "drain", "done")

\* Mutant: the option is ignored.
DrainOutcomeMutant == "canceled"
DrainOutcome == IF optCancelPendingTasksOnShutdown THEN "canceled" ELSE "ran"
DrainTask(w) == Finish(w, "drainTask", "drain", DrainOutcome)

Work(w) == ReadOuter(w) \/ ReadInner(w) \/ Run(w) \/ handleShutdown(w) \/ DrainTask(w)

SubmitGoesOn(t) == SubmitCount(t) \/ SubmitPush(t) \/ SubmitBroadcast(t)
CallGoesOn == StartWorkers \/ ShutdownSend \/ ShutdownBroadcast
Next == \/ Start \/ Shutdown \/ CallGoesOn \/ Dispatch
        \/ \E t \in Tasks : SubmitCheck(t) \/ SubmitGoesOn(t)
        \/ \E w \in Workers : Work(w)

Spec == Init /\ [][Next]_vars
\* Go runs every goroutine that is not blocked; tasks return.
FairSpec == /\ Spec /\ WF_vars(Dispatch) /\ WF_vars(CallGoesOn)
            /\ \A t \in Tasks : WF_vars(SubmitGoesOn(t))
            /\ \A w \in Workers : WF_vars(Work(w))
-----------------------------------------------------------------------------

Pushed  == {t \in Tasks : submit[t] \in {"broadcast", "returned"}}

\* Workers take the tasks in the order of Push, restarts included.
DispatchInOrder == IsPrefix(received, pushed)

\* When the workers are gone, every task accepted before is finished; it ran
\* unless the option says otherwise.
DrainedOnShutdown ==
    ShutdownComplete /\ ~isRunning => \A t \in Pushed :
        outcome[t] = "ran" \/ (outcome[t] = "canceled" /\ optCancelPendingTasksOnShutdown)

\* Again and again no accepted task is open: a submitted task is finished eventually, before
\* or after a Shutdown.
SubmittedFinishes ==
    []<>(\A t \in Tasks : submit[t] \in {"counted", "broadcast", "returned"} => outcome[t] # "open")
=============================================================================
