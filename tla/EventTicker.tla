----------------------------- MODULE EventTicker -----------------------------
(***************************************************************************)
(* core/eventticker.EventTicker, with core/memstorage.IndexedStorage: an   *)
(* id that is started ticks again and again until it is stopped, evicted   *)
(* or has ticked too often.  Every tick schedules the next one with a      *)
(* timed.Executor of one worker (see TimedExecutor); an entry per id holds *)
(* the scheduled task.  The calls hold evictionMutex for reading and so    *)
(* interleave with each other and with the worker, EvictUntil holds it for *)
(* writing.  A task is scheduled an interval ahead and does not run before *)
(* the call that scheduled it has ended.                                   *)
(***************************************************************************)
EXTENDS Integers, FiniteSets

CONSTANTS
    Callers, Ids,
    Index(_),               \* of an id, greater than 0
    MaxRequestThreshold,
    MaxTasks,               \* bound on the tasks ever scheduled, and on scheduledTickerCount
    Overlap,                \* may two calls for the same id overlap?
    DuringTick              \* may an id be started during its tick, or stopped during reSchedule?
EventTickerAssumption == \A id \in Ids : Index(id) \in Nat \ {0}

NoTask == 0
NoId == "none"
Worker == "worker"

VARIABLES
    pending,                \* tasks the executor holds: [id, n, count]
    tasks,                  \* tasks scheduled so far
    entry,                  \* scheduledTickers: per id the number of a task, or NoTask
    scheduledTickerCount, lastEvictedIndex,
    pc, id, task,           \* per caller, and for the worker: location; id; task
    count,                  \* of the task the worker runs
    shutdown
vars == <<pending, tasks, entry, scheduledTickerCount, lastEvictedIndex, pc, id, task, count, shutdown>>

Init ==
    /\ pending = {} /\ tasks = 0 /\ entry = [i \in Ids |-> NoTask] /\ scheduledTickerCount = 0
    /\ lastEvictedIndex = 0 /\ pc = [c \in Callers \cup {Worker} |-> "idle"]
    /\ id = [c \in Callers \cup {Worker} |-> NoId] /\ task = [c \in Callers \cup {Worker} |-> NoTask]
    /\ count = 0 /\ shutdown = FALSE

Goto(c, loc) == pc' = [pc EXCEPT ![c] = loc]
Busy(i) == \E c \in Callers : pc[c] # "idle" /\ id[c] = i
Call(c, i) ==
    /\ pc[c] = "idle" /\ (Overlap \/ ~ Busy(i))
    /\ id' = [id EXCEPT ![c] = i] /\ UNCHANGED <<pending, tasks, entry, scheduledTickerCount,
                                                 lastEvictedIndex, task, count, shutdown>>
Return(c) == Goto(c, "idle") /\ id' = [id EXCEPT ![c] = NoId] /\ task' = [task EXCEPT ![c] = NoTask]

\* ExecuteAfter: a new task, or nil after Shutdown.
ExecuteAfter(c, n) ==
    IF shutdown
    THEN task' = [task EXCEPT ![c] = NoTask] /\ UNCHANGED <<pending, tasks>>
    ELSE /\ tasks < MaxTasks /\ tasks' = tasks + 1 /\ task' = [task EXCEPT ![c] = tasks + 1]
         /\ pending' = pending \cup {[id |-> id[c], n |-> tasks + 1, count |-> n]}

-----------------------------------------------------------------------------
\* addTickerToQueue: the test, ...
StartTicker(c, i) ==
    /\ DuringTick \/ pc[Worker] = "idle" \/ id[Worker] # i
    /\ Call(c, i)
    /\ Goto(c, IF Index(i) > lastEvictedIndex /\ entry[i] = NoTask THEN "schedule" ELSE "return")

\* ... the task ...
Schedule(c) ==
    /\ pc[c] = "schedule" /\ scheduledTickerCount < MaxTasks
    /\ Goto(c, "set") /\ ExecuteAfter(c, 0)
    /\ UNCHANGED <<entry, scheduledTickerCount, lastEvictedIndex, id, count, shutdown>>

\* ... and the entry.
SetEntry(c) ==
    /\ pc[c] = "set" /\ Return(c) /\ scheduledTickerCount' = scheduledTickerCount + 1
    /\ entry' = (IF task[c] = NoTask THEN entry ELSE [entry EXCEPT ![id[c]] = task[c]])
    /\ UNCHANGED <<pending, tasks, lastEvictedIndex, count, shutdown>>

Leave(c) ==
    /\ pc[c] = "return" /\ Return(c)
    /\ UNCHANGED <<pending, tasks, entry, scheduledTickerCount, lastEvictedIndex, count, shutdown>>

\* stopTicker looks the task up, cancels it and deletes the entry.
StopTicker(c, i) ==
    /\ DuringTick \/ pc[Worker] # "set" \/ id[Worker] # i
    /\ Call(c, i) /\ Goto(c, IF entry[i] = NoTask THEN "return" ELSE "cancel")

Cancel(c) ==
    /\ pc[c] = "cancel" /\ Goto(c, "delete")
    /\ pending' = {t \in pending : t.n # entry[id[c]]}
    /\ UNCHANGED <<tasks, entry, scheduledTickerCount, lastEvictedIndex, id, task, count, shutdown>>
DeleteEntry(c) ==
    /\ pc[c] = "delete" /\ Return(c)
    /\ entry' = [entry EXCEPT ![id[c]] = NoTask] /\ scheduledTickerCount' = scheduledTickerCount - 1
    /\ UNCHANGED <<pending, tasks, lastEvictedIndex, count, shutdown>>

\* EvictUntil.  Mutant: the bound itself is left.
EvictUntilMutant(index) ==
    LET evicted == {i \in Ids : Index(i) < index /\ entry[i] # NoTask} IN
    /\ \A c \in Callers : pc[c] = "idle" /\ pc[Worker] \in {"idle", "tick"}
    /\ index > lastEvictedIndex /\ lastEvictedIndex' = index
    /\ entry' = [i \in Ids |-> IF i \in evicted THEN NoTask ELSE entry[i]]
    /\ pending' = {t \in pending : \A i \in evicted : t.n # entry[i]}
    /\ scheduledTickerCount' = scheduledTickerCount - Cardinality(evicted)
    /\ UNCHANGED <<tasks, pc, id, task, count, shutdown>>
EvictUntil(index) ==
    LET evicted == {i \in Ids : Index(i) <= index /\ entry[i] # NoTask} IN
    /\ \A c \in Callers : pc[c] = "idle" /\ pc[Worker] \in {"idle", "tick"}
    /\ index > lastEvictedIndex /\ lastEvictedIndex' = index
    /\ entry' = [i \in Ids |-> IF i \in evicted THEN NoTask ELSE entry[i]]
    /\ pending' = {t \in pending : \A i \in evicted : t.n # entry[i]}
    /\ scheduledTickerCount' = scheduledTickerCount - Cardinality(evicted)
    /\ UNCHANGED <<tasks, pc, id, task, count, shutdown>>

\* The executor drops what is pending and takes nothing more.
Shutdown ==
    /\ ~ shutdown /\ shutdown' = TRUE /\ pending' = {}
    /\ UNCHANGED <<tasks, entry, scheduledTickerCount, lastEvictedIndex, pc, id, task, count>>

-----------------------------------------------------------------------------
\* The worker takes a task that is due; the tick is triggered before the lock is taken.
Tick ==
    /\ pc[Worker] = "idle"
    /\ \E t \in pending :
        /\ \A c \in Callers : task[c] # t.n
        /\ pending' = pending \ {t} /\ id' = [id EXCEPT ![Worker] = t.id] /\ count' = t.count
    /\ Goto(Worker, "tick")
    /\ UNCHANGED <<tasks, entry, scheduledTickerCount, lastEvictedIndex, task, shutdown>>

\* reSchedule: the id was stopped in the meantime, ticked too often, or is scheduled again.
ReSchedule ==
    /\ pc[Worker] = "tick" /\ (DuringTick \/ ~ Busy(id[Worker]))
    /\ UNCHANGED <<lastEvictedIndex, shutdown>>
    /\ \/ /\ entry[id[Worker]] = NoTask
          /\ Return(Worker) /\ UNCHANGED <<pending, tasks, entry, scheduledTickerCount, count>>
       \/ /\ entry[id[Worker]] # NoTask /\ count >= MaxRequestThreshold
          /\ entry' = [entry EXCEPT ![id[Worker]] = NoTask]
          /\ scheduledTickerCount' = scheduledTickerCount - 1
          /\ Return(Worker) /\ UNCHANGED <<pending, tasks, count>>
       \/ /\ entry[id[Worker]] # NoTask /\ count < MaxRequestThreshold
          /\ count' = count + 1 /\ ExecuteAfter(Worker, count') /\ Goto(Worker, "set")
          /\ UNCHANGED <<entry, scheduledTickerCount, id>>

\* Mutant: the new task is not kept.
KeepTaskMutant ==
    /\ pc[Worker] = "set" /\ Return(Worker)
    /\ UNCHANGED <<entry, pending, tasks, scheduledTickerCount, lastEvictedIndex, count, shutdown>>
KeepTask ==
    /\ pc[Worker] = "set" /\ Return(Worker)
    /\ entry' = (IF task[Worker] = NoTask THEN entry ELSE [entry EXCEPT ![id[Worker]] = task[Worker]])
    /\ UNCHANGED <<pending, tasks, scheduledTickerCount, lastEvictedIndex, count, shutdown>>

Next ==
    \/ \E c \in Callers :
        \/ \E i \in Ids : StartTicker(c, i) \/ StopTicker(c, i)
        \/ Schedule(c) \/ SetEntry(c) \/ Leave(c) \/ Cancel(c) \/ DeleteEntry(c)
    \/ \E i \in Ids : EvictUntil(Index(i))
    \/ Shutdown \/ Tick \/ ReSchedule \/ KeepTask

Spec == Init /\ [][Next]_vars

-----------------------------------------------------------------------------
Quiet == \A c \in Callers \cup {Worker} : pc[c] = "idle"
TasksOf(i) == {t \in pending : t.id = i}

\* Between the calls an id with an entry has the task that the entry names, and an id without has
\* none: no ticker is dead while HasTicker reports it, and none ticks that was stopped.
EntryMatchesTask ==
    Quiet /\ ~ shutdown => \A i \in Ids : {t.n : t \in TasksOf(i)} = {entry[i]} \ {NoTask}

\* Nothing is left of an id whose index was evicted, and it does not come back.
EvictedIsGone ==
    \A i \in Ids : Index(i) <= lastEvictedIndex => entry[i] = NoTask /\ TasksOf(i) = {}
=============================================================================
