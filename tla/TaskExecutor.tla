---------------------------- MODULE TaskExecutor ----------------------------
(***************************************************************************)
(* runtime/timed/taskexecutor.go: an Executor whose tasks carry an         *)
(* identifier.  ExecuteAt and Cancel hold queuedElementsMutex throughout;  *)
(* the function ExecuteAt schedules calls the callback and then takes the  *)
(* mutex to delete the identifier.                                         *)
(***************************************************************************)
EXTENDS TimedExecutor

CONSTANTS
    Identifier,  \* Identifier[e]: what the task of element e was registered under
    Overlap      \* FALSE: ExecuteAt is not called for an identifier a worker is busy with
OverlapAssumption == Overlap \in BOOLEAN /\ DOMAIN Identifier = Elements

Identifiers == Range(Identifier)

VARIABLES
    queuedElements,  \* identifier -> element, or Nothing
    mutex            \* Nothing, or the element whose ExecuteAt holds the mutex
taskVars == <<vars, queuedElements, mutex>>

TaskInit ==
    /\ Init /\ queuedElements = [i \in Identifiers |-> Nothing] /\ mutex = Nothing

Busy(i) == \E w \in Workers : held[w] # Nothing /\ Identifier[held[w]] = i

\* ExecuteAt: lock, and cancel the task registered under the identifier.
ExecuteAt(e) ==
    /\ mutex = Nothing /\ add[e] = "new" /\ (Overlap \/ ~Busy(Identifier[e]))
    /\ mutex' = e /\ UNCHANGED queuedElements
    /\ LET queuedElement == queuedElements[Identifier[e]]
       IN  IF queuedElement = Nothing THEN UNCHANGED vars ELSE Cancel(queuedElement)

\* ExecuteAt: Executor.ExecuteAt, which is Queue.Add ...
Schedule(e) ==
    /\ mutex = e /\ (AddChecks(e) \/ AddPushes(e) \/ AddSignals(e))
    /\ UNCHANGED <<queuedElements, mutex>>

\* ... then Set, if the element was not rejected, and unlock.
Register(e) ==
    /\ mutex = e /\ add[e] \in {"added", "rejected", "panicked"} /\ mutex' = Nothing
    /\ queuedElements' =
        IF add[e] = "added" THEN [queuedElements EXCEPT ![Identifier[e]] = e] ELSE queuedElements
    /\ UNCHANGED vars

\* The end of the scheduled function: lock, Delete(identifier).
Finish(w) ==
    /\ mutex = Nothing /\ Executed(w)
    /\ queuedElements' = [queuedElements EXCEPT ![Identifier[held[w]]] = Nothing]
    /\ UNCHANGED mutex

CancelTask(i) ==
    /\ mutex = Nothing /\ queuedElements[i] # Nothing
    /\ Cancel(queuedElements[i])
    /\ queuedElements' = [queuedElements EXCEPT ![i] = Nothing] /\ UNCHANGED mutex

\* What does not touch the registrations: polling, Shutdown, ScheduledTask.Cancel.
ExecutorStep ==
    /\ \/ Tick
       \/ \E e \in Elements : e # mutex /\ Cancel(e)
       \/ \E w \in Workers : PollHead(w) \/ PollCanceled(w) \/ PollDue(w) \/ PollShutdown(w)
       \/ \E c \in Callers : CallerStep(c) \/ \E flags \in FlagSets : Shutdown(c, flags)
    /\ UNCHANGED <<queuedElements, mutex>>

TaskNext ==
    \/ \E e \in Elements : ExecuteAt(e) \/ Schedule(e) \/ Register(e)
    \/ \E w \in Workers : Finish(w)
    \/ \E i \in Identifiers : CancelTask(i)
    \/ ExecutorStep
TaskSpec == TaskInit /\ [][TaskNext]_taskVars

\* TaskExecutor "allows to replace existing scheduled tasks and cancel them using
\* the same identifier": a task waiting in the queue is the one its identifier is
\* registered for, so there is one per identifier and ExecuteAt and Cancel find it.
PendingIsRegistered ==
    mutex = Nothing => \A e \in Range(heap) : queuedElements[Identifier[e]] = e
=============================================================================
