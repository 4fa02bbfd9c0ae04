--------------------------- MODULE TimedExecutor ---------------------------
(***************************************************************************)
(* runtime/timed: Queue (queue.go) and the Executor whose workers poll it  *)
(* (executor.go).  Each element is added by a goroutine of its own and may *)
(* be cancelled at any time after Add returned it; the heap is the slice   *)
(* of GeneralHeap; a clock moves at will.  A section under heapMutex is    *)
(* one step, and what Add and Shutdown do outside it is another.           *)
(***************************************************************************)
EXTENDS GeneralHeap, FiniteSets

CONSTANTS
    Elements, Times,  \* the elements; the times they can be scheduled for
    Workers, Callers, \* the goroutines that poll; the callers of Shutdown
    NonBlocking,      \* those of Workers that call Poll(false): they end on an empty queue
    FlagSets,         \* the sets of flags Shutdown may be given
    maxSize,          \* 0: no limit
    AddDuringShutdown \* FALSE: Shutdown is called when no Add is under way
SizeAssumption == maxSize \in Nat /\ AddDuringShutdown \in BOOLEAN
FlagsAssumption == FlagSets \subseteq SUBSET {"Cancel", "Ignore", "Panic", "DontWait"}

Nothing == "nothing"

VARIABLES
    now,
    heap, key,           \* the heap; scheduledTime of every element
    add, cancel,         \* per element: how far Add is; elements with a closed channel
    cut,                 \* history: elements removed by the size limit
    started,             \* elements handed to a worker for execution
    worker, held,        \* per worker: location in Poll, the element it has popped
    isShutdown, shutdownFlags, ctxDone,
    caller               \* per caller of Shutdown: location

elemVars == <<heap, key, add, cancel, cut>>
workVars == <<started, worker, held>>
downVars == <<isShutdown, shutdownFlags, ctxDone, caller>>
vars == <<now, elemVars, workVars, downVars>>

Init ==
    /\ now = 0 /\ heap = <<>> /\ key = [e \in Elements |-> 0]
    /\ add = [e \in Elements |-> "new"] /\ cancel = {} /\ cut = {} /\ started = {}
    /\ worker = [w \in Workers |-> "lock"] /\ held = [w \in Workers |-> Nothing]
    /\ isShutdown = FALSE /\ shutdownFlags = {} /\ ctxDone = FALSE
    /\ caller = [c \in Callers |-> "idle"]

Tick == \E t \in Times : now < t /\ now' = t /\ UNCHANGED <<elemVars, workVars, downVars>>

\* ----------------------------------------------------------------------- Add
AddChecks(e) ==
    /\ add[e] = "new"
    /\ add' = [add EXCEPT ![e] = IF ~isShutdown THEN "checked"
                                 ELSE IF "Panic" \in shutdownFlags THEN "panicked" ELSE "rejected"]
    /\ UNCHANGED <<now, heap, key, cancel, cut, workVars, downVars>>

\* The heap after an overfull one was cut: the last slot of the slice goes.
Cut(k, h) == IF maxSize > 0 /\ Len(h) > maxSize THEN HeapRemove(k, h, Len(h)) ELSE h

AddPushes(e) ==
    /\ add[e] = "checked" /\ add' = [add EXCEPT ![e] = "pushed"]
    /\ \E t \in Times : key' = [key EXCEPT ![e] = t]
    /\ heap' = Cut(key', HeapPush(key', heap, e))
    /\ cut' = cut \cup ((Range(heap) \cup {e}) \ Range(heap'))
    /\ UNCHANGED <<now, cancel, workVars, downVars>>

Parked == {w \in Workers : worker[w] = "parked"}

\* waitCond.Signal(), after heapMutex was released.  Mutant: no signal.
AddSignalsMutant(e) ==
    /\ add[e] = "pushed" /\ add' = [add EXCEPT ![e] = "added"]
    /\ UNCHANGED <<now, heap, key, cancel, cut, workVars, downVars>>
AddSignals(e) ==
    /\ add[e] = "pushed" /\ add' = [add EXCEPT ![e] = "added"]
    /\ IF Parked = {} THEN UNCHANGED worker
       ELSE \E w \in Parked : worker' = [worker EXCEPT ![w] = "lock"]
    /\ UNCHANGED <<now, heap, key, cancel, cut, started, held, downVars>>

\* QueueElement.Cancel: out of the heap if it is still in it; close the channel.
Cancel(e) ==
    /\ add[e] = "added" /\ cancel' = cancel \cup {e}
    /\ heap' = IF IndexOf(heap, e) = -1 THEN heap ELSE HeapRemove(key, heap, IndexOf(heap, e))
    /\ UNCHANGED <<now, key, add, cut, workVars, downVars>>

\* ---------------------------------------------------------------------- Poll
\* The loop under heapMutex: park (waitCond.Wait), return nothing (the worker
\* ends: shutdownWG.Done), or take the first element.
\* Mutant: the worker ends at Shutdown, with elements left.
PollHeadMutant(w) ==
    /\ worker[w] = "lock"
    /\ \/ /\ heap = <<>> \/ isShutdown
          /\ worker' = [worker EXCEPT ![w] = IF isShutdown \/ w \in NonBlocking THEN "ended" ELSE "parked"]
          /\ UNCHANGED <<heap, held>>
       \/ /\ heap # <<>> /\ ~isShutdown
          /\ worker' = [worker EXCEPT ![w] = "select"] /\ held' = [held EXCEPT ![w] = heap[1]]
          /\ heap' = HeapPop(key, heap)
    /\ UNCHANGED <<now, key, add, cancel, cut, started, downVars>>
PollHead(w) ==
    /\ worker[w] = "lock"
    /\ \/ /\ heap = <<>>
          /\ worker' = [worker EXCEPT ![w] = IF isShutdown \/ w \in NonBlocking THEN "ended" ELSE "parked"]
          /\ UNCHANGED <<heap, held>>
       \/ /\ heap # <<>>
          /\ worker' = [worker EXCEPT ![w] = "select"] /\ held' = [held EXCEPT ![w] = heap[1]]
          /\ heap' = HeapPop(key, heap)
    /\ UNCHANGED <<now, key, add, cancel, cut, started, downVars>>

Return(w) ==  \* Poll returns the element and the worker calls it
    /\ worker' = [worker EXCEPT ![w] = "execute"] /\ started' = started \cup {held[w]}
    /\ UNCHANGED held
Drop(w, to) ==  \* the element is given up, or done
    /\ worker' = [worker EXCEPT ![w] = to] /\ held' = [held EXCEPT ![w] = Nothing]
    /\ UNCHANGED started

\* The cases of both selects: the element was cancelled, or its timer fired.
PollCanceled(w) ==
    /\ worker[w] \in {"select", "drain"} /\ held[w] \in cancel
    /\ Drop(w, "lock") /\ UNCHANGED <<now, elemVars, downVars>>
PollDue(w) ==
    /\ worker[w] \in {"select", "drain"} /\ now >= key[held[w]]
    /\ Return(w) /\ UNCHANGED <<now, elemVars, downVars>>

\* The case of the first select that sees the context cancelled.
PollShutdown(w) ==
    /\ worker[w] = "select" /\ ctxDone
    /\ IF "Cancel" \in shutdownFlags THEN Drop(w, "ended")
       ELSE IF "Ignore" \in shutdownFlags THEN Return(w)
       ELSE worker' = [worker EXCEPT ![w] = "drain"] /\ UNCHANGED <<held, started>>
    /\ UNCHANGED <<now, elemVars, downVars>>

Executed(w) ==
    /\ worker[w] = "execute" /\ Drop(w, "lock")
    /\ UNCHANGED <<now, elemVars, downVars>>

\* ------------------------------------------------------------------ Shutdown
AddUnderWay == \E e \in Elements : add[e] \in {"checked", "pushed"}
Shutdown(c, flags) ==
    /\ caller[c] = "idle" /\ (AddDuringShutdown \/ ~AddUnderWay)
    /\ isShutdown' = TRUE
    /\ IF isShutdown
       THEN /\ caller' = [caller EXCEPT ![c] = IF "Panic" \in shutdownFlags THEN "panicked"
                                               ELSE IF "DontWait" \in flags THEN "left" ELSE "wait"]
            /\ UNCHANGED shutdownFlags
       ELSE shutdownFlags' = flags /\ caller' = [caller EXCEPT ![c] = "cancel"]
    /\ UNCHANGED <<now, elemVars, workVars, ctxDone>>

ctxCancel(c) ==
    /\ caller[c] = "cancel" /\ caller' = [caller EXCEPT ![c] = "empty"] /\ ctxDone' = TRUE
    /\ UNCHANGED <<now, elemVars, workVars, isShutdown, shutdownFlags>>

\* The section under heapMutex: an empty queue wakes all the pollers, another is
\* emptied if that was asked for.
ShutdownHeap(c) ==
    /\ caller[c] = "empty"
    /\ worker' = [w \in Workers |-> IF heap = <<>> /\ worker[w] = "parked" THEN "lock" ELSE worker[w]]
    /\ heap' = IF "Cancel" \in shutdownFlags THEN <<>> ELSE heap
    /\ caller' = [caller EXCEPT ![c] = IF "DontWait" \in shutdownFlags THEN "left" ELSE "wait"]
    /\ UNCHANGED <<now, key, add, cancel, cut, started, held, isShutdown, shutdownFlags, ctxDone>>

\* Executor.Shutdown: shutdownWG.Wait().
ShutdownReturns(c) ==
    /\ caller[c] = "wait" /\ \A w \in Workers \ NonBlocking : worker[w] = "ended"
    /\ caller' = [caller EXCEPT ![c] = "returned"]
    /\ UNCHANGED <<now, elemVars, workVars, isShutdown, shutdownFlags, ctxDone>>

AddStep(e) == AddChecks(e) \/ AddPushes(e) \/ AddSignals(e)
WorkerStep(w) == PollHead(w) \/ PollCanceled(w) \/ PollDue(w) \/ PollShutdown(w) \/ Executed(w)
CallerStep(c) == ctxCancel(c) \/ ShutdownHeap(c) \/ ShutdownReturns(c)
Next ==
    \/ Tick
    \/ \E e \in Elements : AddStep(e) \/ Cancel(e)
    \/ \E w \in Workers : WorkerStep(w)
    \/ \E c \in Callers : CallerStep(c) \/ \E flags \in FlagSets : Shutdown(c, flags)
Spec == Init /\ [][Next]_vars

\* Time passes, goroutines run and tasks return.
Fairness ==
    /\ WF_vars(Tick)
    /\ \A e \in Elements : WF_vars(AddPushes(e) \/ AddSignals(e))
    /\ \A w \in Workers : WF_vars(WorkerStep(w))
    /\ \A c \in Callers : WF_vars(CallerStep(c))
FairSpec == Spec /\ Fairness

\* ---------------------------------------------------------------- properties

Holders(e) == {w \in Workers : held[w] = e}

\* When Executor.Shutdown has waited and returned, every task that was added has
\* run, unless it was cancelled or the pending ones were to be dropped.
AllRunOnShutdown ==
    (\E c \in Callers : caller[c] = "returned") /\ "Cancel" \notin shutdownFlags
        => \A e \in Elements : add[e] \in {"pushed", "added"} /\ e \notin cancel \cup cut
                                => e \in started /\ Holders(e) = {}

\* No wake-up is lost: while an element waits in the heap some worker is on its way
\* to it, or the Signal of an Add is still to come.
WaitingIsPolled ==
    heap # <<>> /\ "Cancel" \notin shutdownFlags
        => \/ \E w \in Workers : worker[w] \notin {"parked", "ended"}
           \/ \E e \in Elements : add[e] = "pushed"

\* Executor.Shutdown "waits until the executor has shutdown gracefully", so it
\* returns: every worker leaves Poll.
ShutdownTerminates == \A c \in Callers : caller[c] = "wait" ~> caller[c] = "returned"
=============================================================================
