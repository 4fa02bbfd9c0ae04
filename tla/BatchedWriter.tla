---------------------------- MODULE BatchedWriter ----------------------------
(***************************************************************************)
(* kvstore.BatchedWriter and BatchCollector: objects are enqueued by their *)
(* users and written to the store in batches by one goroutine, which the   *)
(* first Enqueue starts and StopBatchWriter stops.  The content of an      *)
(* object is its version; BatchWrite takes the version the object has at   *)
(* that moment.  BatchWriteScheduled tests and sets a flag of the object.  *)
(* Errors of the store panic in the code and are left out.                 *)
(***************************************************************************)
EXTENDS Naturals, SequencesExt

CONSTANTS
    Callers, Objects,
    QueueSize, BatchSize,
    MaxChanges,             \* bound on the changes of the objects, all together
    Timeouts,               \* does the batch timeout ever pass?
    EarlyStop,              \* may Stop come before the goroutine has entered writeWg?
    Overlap                 \* may Stop come while an Enqueue is past its look at running?
BatchedWriterAssumption == QueueSize \in Nat \ {0} /\ BatchSize \in Nat \ {0}

Nobody == "nobody"

VARIABLES
    running, autoStart, writeWg, scheduledCount, queue, flushChan, \* the fields; autoStart: the Once is done
    scheduled, version, saved,      \* per object: flag; content; content in the store
    due,                            \* per object: newest content an Enqueue returned for (history)
    pc, object, content,            \* per caller of Enqueue: location; object; its content at the call
    wpc, after,                     \* writer: location; where it goes on after Add or Commit
    hand, batch, committed,         \* writer: object being added; the BatchCollector
    stop                            \* StopBatchWriter: "idle", "wait", "done"
vars == <<running, autoStart, writeWg, scheduledCount, queue, flushChan, scheduled, version, saved,
          due, pc, object, content, wpc, after, hand, batch, committed, stop>>
callVars == <<pc, object, content, due, version>>
writerVars == <<wpc, after, hand, batch, committed, writeWg, saved>>

Init ==
    /\ running = FALSE /\ autoStart = FALSE /\ writeWg = 0 /\ scheduledCount = 0
    /\ queue = <<>> /\ flushChan = FALSE /\ scheduled = [o \in Objects |-> FALSE]
    /\ version = [o \in Objects |-> 0] /\ saved = [o \in Objects |-> 0] /\ due = [o \in Objects |-> 0]
    /\ pc = [c \in Callers |-> "idle"] /\ object = [c \in Callers |-> Nobody]
    /\ content = [c \in Callers |-> 0]
    /\ wpc = "none" /\ after = "check" /\ hand = Nobody /\ batch = <<>> /\ committed = FALSE
    /\ stop = "idle"

-----------------------------------------------------------------------------
Goto(c, loc) == pc' = [pc EXCEPT ![c] = loc]
Returns(c) ==
    /\ Goto(c, "idle") /\ object' = [object EXCEPT ![c] = Nobody]
    /\ due' = [due EXCEPT ![object[c]] = IF @ < content[c] THEN content[c] ELSE @]

\* A user changes an object and calls Enqueue.
Enqueue(c, o) ==
    /\ pc[c] = "idle" /\ MapThenSumSet(LAMBDA x : version[x], Objects) < MaxChanges
    /\ version' = [version EXCEPT ![o] = @ + 1] /\ content' = [content EXCEPT ![c] = version'[o]]
    /\ object' = [object EXCEPT ![c] = o] /\ Goto(c, "start")
    /\ UNCHANGED <<running, autoStart, scheduledCount, queue, flushChan, scheduled, due, writerVars, stop>>

\* autoStartOnce; startBatchWriter is called nowhere else.
AutoStart(c) ==
    /\ pc[c] = "start" /\ Goto(c, "running") /\ autoStart' = TRUE
    /\ \/ autoStart /\ UNCHANGED <<running, wpc>>
       \/ ~ autoStart /\ running' = TRUE /\ wpc' = "start"
    /\ UNCHANGED <<writeWg, scheduledCount, queue, flushChan, scheduled, version, saved, due, object,
                   content, after, hand, batch, committed, stop>>

\* A stopped writer takes nothing any more.
CheckRunning(c) ==
    /\ pc[c] = "running"
    /\ \/ running /\ Goto(c, "scheduled") /\ UNCHANGED object
       \/ ~ running /\ Goto(c, "idle") /\ object' = [object EXCEPT ![c] = Nobody]
    /\ UNCHANGED <<running, autoStart, scheduledCount, queue, flushChan, scheduled, version, due, content,
                   writerVars, stop>>

CheckScheduled(c) ==
    /\ pc[c] = "scheduled"
    /\ \/ scheduled[object[c]] /\ Returns(c) /\ UNCHANGED scheduled
       \/ /\ ~ scheduled[object[c]] /\ scheduled' = [scheduled EXCEPT ![object[c]] = TRUE]
          /\ Goto(c, "count") /\ UNCHANGED <<object, due>>
    /\ UNCHANGED <<running, autoStart, scheduledCount, queue, flushChan, version, content, writerVars, stop>>

Count(c) ==
    /\ pc[c] = "count" /\ Goto(c, "send") /\ scheduledCount' = scheduledCount + 1
    /\ UNCHANGED <<running, autoStart, queue, flushChan, scheduled, object, content, due, version,
                   writerVars, stop>>

Send(c) ==
    /\ pc[c] = "send" /\ Len(queue) < QueueSize
    /\ queue' = Append(queue, object[c]) /\ Returns(c)
    /\ UNCHANGED <<running, autoStart, scheduledCount, flushChan, scheduled, version, content,
                   writerVars, stop>>

\* Flush; a signal that is already queued is enough.
Flush ==
    /\ running /\ flushChan' = TRUE
    /\ UNCHANGED <<running, autoStart, scheduledCount, queue, scheduled, callVars, writerVars, stop>>

\* StopBatchWriter, up to writeWg.Wait.
StopBatchWriter ==
    /\ stop = "idle" /\ running /\ running' = FALSE /\ stop' = "wait"
    /\ EarlyStop \/ wpc # "start"
    /\ Overlap \/ \A c \in Callers : pc[c] \notin {"scheduled", "count"}
    /\ UNCHANGED <<autoStart, scheduledCount, queue, flushChan, scheduled, callVars, writerVars>>
StopReturns ==
    /\ stop = "wait" /\ writeWg = 0 /\ stop' = "done"
    /\ UNCHANGED <<running, autoStart, scheduledCount, queue, flushChan, scheduled, callVars, writerVars>>

-----------------------------------------------------------------------------
\* runBatchWriter
EnterWriter ==
    /\ wpc = "start" /\ wpc' = "check" /\ writeWg' = 1
    /\ UNCHANGED <<running, autoStart, scheduledCount, queue, flushChan, scheduled, callVars, saved, after,
                   hand, batch, committed, stop>>

\* The head of the loop: a new BatchCollector, or the end.
\* Mutant: the end does not wait for the queue.
CheckMutant ==
    /\ wpc = "check"
    /\ \/ running /\ batch' = <<>> /\ committed' = FALSE /\ wpc' = "collect" /\ UNCHANGED writeWg
       \/ ~ running /\ writeWg' = 0 /\ wpc' = "exited" /\ UNCHANGED <<batch, committed>>
    /\ UNCHANGED <<running, autoStart, scheduledCount, queue, flushChan, scheduled, callVars, saved, after,
                   hand, stop>>
Check ==
    /\ wpc = "check"
    /\ \/ /\ running \/ scheduledCount # 0
          /\ batch' = <<>> /\ committed' = FALSE /\ wpc' = "collect" /\ UNCHANGED writeWg
       \/ /\ ~ running /\ scheduledCount = 0
          /\ writeWg' = 0 /\ wpc' = "exited" /\ UNCHANGED <<batch, committed>>
    /\ UNCHANGED <<running, autoStart, scheduledCount, queue, flushChan, scheduled, callVars, saved, after,
                   hand, stop>>

\* collectValues and FlushValues take the next element, and Add it in two steps.
Receive ==
    /\ wpc \in {"collect", "flush"} /\ queue # <<>>
    /\ hand' = Head(queue) /\ queue' = Tail(queue) /\ after' = wpc /\ wpc' = "reset"
    /\ UNCHANGED <<running, autoStart, scheduledCount, flushChan, scheduled, callVars, writeWg, saved,
                   batch, committed, stop>>

\* Mutant: the flag of the object is not reset.
ResetScheduledMutant ==
    /\ wpc = "reset" /\ wpc' = "write"
    /\ UNCHANGED <<running, autoStart, scheduledCount, queue, flushChan, scheduled, callVars, writeWg, saved,
                   after, hand, batch, committed, stop>>
ResetScheduled ==
    /\ wpc = "reset" /\ wpc' = "write" /\ scheduled' = [scheduled EXCEPT ![hand] = FALSE]
    /\ UNCHANGED <<running, autoStart, scheduledCount, queue, flushChan, callVars, writeWg, saved,
                   after, hand, batch, committed, stop>>

\* The element enters the batch, which is committed when it is full.
BatchWrite ==
    /\ wpc = "write" /\ batch' = Append(batch, [object |-> hand, content |-> version[hand]])
    /\ scheduledCount' = scheduledCount - 1 /\ hand' = Nobody
    /\ wpc' = (IF Len(batch') >= BatchSize THEN "commit" ELSE after)
    /\ UNCHANGED <<running, autoStart, queue, flushChan, scheduled, callVars, writeWg, saved, after,
                   committed, stop>>

\* The flush signal; the batch timeout; FlushValues finds the queue empty.
FlushSignal ==
    /\ wpc = "collect" /\ flushChan /\ flushChan' = FALSE /\ wpc' = "flush"
    /\ UNCHANGED <<running, autoStart, scheduledCount, queue, scheduled, callVars, writeWg, saved, after,
                   hand, batch, committed, stop>>
Collected ==
    /\ \/ wpc = "collect" /\ Timeouts
       \/ wpc = "flush" /\ queue = <<>>
    /\ wpc' = "commit" /\ after' = "collect"
    /\ UNCHANGED <<running, autoStart, scheduledCount, queue, flushChan, scheduled, callVars, writeWg, saved,
                   hand, batch, committed, stop>>

\* Commit.  FlushValues goes on with a new collector after a full batch.
Commit ==
    /\ wpc = "commit"
    /\ saved' = [o \in Objects |->
                    LET of == SelectSeq(batch, LAMBDA b : b.object = o) IN
                    IF of = <<>> THEN saved[o] ELSE Last(of).content]
    /\ \/ after = "flush" /\ wpc' = "flush" /\ batch' = <<>> /\ committed' = FALSE
       \/ after # "flush" /\ wpc' = "check" /\ committed' = TRUE /\ UNCHANGED batch
    /\ UNCHANGED <<running, autoStart, scheduledCount, queue, flushChan, scheduled, callVars, writeWg, after,
                   hand, stop>>

Writer ==
    \/ EnterWriter \/ Check \/ Receive \/ ResetScheduled \/ BatchWrite
    \/ FlushSignal \/ Collected \/ Commit
InEnqueue(c) == AutoStart(c) \/ CheckRunning(c) \/ CheckScheduled(c) \/ Count(c) \/ Send(c)

Next ==
    \/ \E c \in Callers : InEnqueue(c) \/ \E o \in Objects : Enqueue(c, o)
    \/ Writer \/ Flush \/ StopBatchWriter \/ StopReturns

Spec == Init /\ [][Next]_vars
\* Goroutines that can go on do; select chooses every ready case again and again, and a channel
\* serves its senders in turn.
FairSpec ==
    /\ Spec /\ WF_vars(Writer) /\ SF_vars(Receive) /\ WF_vars(StopReturns)
    /\ \A c \in Callers : WF_vars(InEnqueue(c)) /\ SF_vars(Send(c))

-----------------------------------------------------------------------------

\* No change is lost: a content that Enqueue returned for is in the store, or somebody holds the
\* object and will still write it, although Enqueue drops an object that is already scheduled
\* while the writer is about to take it.
NoLostUpdate ==
    \A o \in Objects :
        \/ due[o] <= saved[o]
        \/ o \in ToSet(queue) \/ hand = o
        \/ \E c \in Callers : object[c] = o /\ pc[c] \in {"count", "send"}
        \/ ~ committed /\ \E b \in ToSet(batch) : b.object = o /\ b.content >= due[o]

\* "StopBatchWriter stops the batch writer and waits until all enqueued objects are written".
WrittenOnStop ==
    stop = "done" /\ (\A c \in Callers : pc[c] = "idle") => \A o \in Objects : due[o] <= saved[o]

\* An enqueued content reaches the store, or a newer one does: again and again the store has
\* caught up with the contents Enqueue returned for.
EnqueuedIsWritten ==
    []<>(\A o \in Objects : due[o] <= saved[o])
=============================================================================
