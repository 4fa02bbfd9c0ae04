------------------------------- MODULE MCSync -------------------------------
(***************************************************************************)
(* Objects that goroutines share, in one run: runtime/syncutils, the       *)
(* counters of runtime/workerpool, ds.Set, runtime/event, promise and      *)
(* valuenotifier.  A behaviour uses one of them, its subject.              *)
(*  - DAGMutex: two entities; RLock takes both, in either order.           *)
(*  - Counter: a root group with a pool and a subgroup of two pools.       *)
(*  - Debounce: a function that is called a few times.                     *)
(*  - Set: three calls; DeleteAll apart from the calls that lock.          *)
(*  - Event: an event linked to one of two others while they trigger.      *)
(*  - promise.Event: two triggers, three subscribers.                      *)
(*  - Notifier: three listeners, two notifiers, one value.                 *)
(***************************************************************************)
EXTENDS Naturals, FiniteSets, TLC

CONSTANTS A, B, Procs, Ids, ReadLists, Addrs,
          Pools, Groups, Root, Parent, Waiters, Target, MaxTasks,
          Calls,
          Processes, ElementType,
          Targets, Linked, Callbacks, MaxTriggerCount, Threads, Linkers, MaxTriggers,
          Triggers, Subscribers, Nil,
          Listeners, Notifiers, Values
VARIABLES subject,
    consumerCounter, mutexes, readers, writers, dagPc, ids, todo, panicked,
    value, valueMutex, counterPc, path, up, waiter,
    lastInvocation, execMutex, invocation, debouncePc, executed,
    elements, writer, rlocks, call, before, reported,
    hooked, hook, triggerCount, link, linkMutex, linker, thread, triggers, executions,
    callbacks, callsLeft, subscriber, called,
    listeners, channels, closed, listener, notify, notified

DM == INSTANCE DAGMutex WITH pc <- dagPc
CT == INSTANCE Counter WITH pc <- counterPc
DB == INSTANCE Debounce WITH pc <- debouncePc
Arguments == SUBSET ElementType \ {{}}
SW == INSTANCE Set WITH Operations <- {"AddAll", "Apply", "Compute", "Replace"}
SR == INSTANCE Set WITH Operations <- {"AddAll", "DeleteAll"}
EV == INSTANCE Events WITH executed <- executions, todo <- callsLeft
VN == INSTANCE ValueNotifier WITH Reuse <- FALSE, Outside <- FALSE
ASSUME Assumptions ==
    DM!AddrsAssumption /\ CT!TreeAssumption /\ SW!SetAssumption /\ SR!SetAssumption

dagVars == <<consumerCounter, mutexes, readers, writers, dagPc, ids, todo, panicked>>
counterVars == <<value, valueMutex, counterPc, path, up, waiter>>
debounceVars == <<lastInvocation, execMutex, invocation, debouncePc, executed>>
setVars == <<elements, writer, rlocks, call, before, reported>>
eventVars == <<hooked, hook, triggerCount, link, linkMutex, linker, thread, triggers, executions>>
promiseVars == <<callbacks, callsLeft, subscriber, called>>
notifierVars == <<listeners, channels, closed, listener, notify, notified>>
groupVars == <<dagVars, counterVars, debounceVars>>
otherVars == <<setVars, eventVars, promiseVars, notifierVars>>

Init == /\ subject \in {"DAGMutex", "Counter", "Debounce", "Set", "Set, DeleteAll", "Event",
                        "promise.Event", "Notifier"}
        /\ DM!Init /\ CT!Init /\ DB!Init /\ SW!Init /\ EV!EventInit /\ EV!PromiseInit /\ VN!Init
GroupNext ==
    /\ \/ subject = "DAGMutex" /\ DM!Next /\ UNCHANGED <<counterVars, debounceVars>>
       \/ subject = "Counter" /\ CT!Next /\ UNCHANGED <<dagVars, debounceVars>>
       \/ subject = "Debounce" /\ DB!Next /\ UNCHANGED <<dagVars, counterVars>>
    /\ UNCHANGED otherVars
OtherNext ==
    /\ \/ subject = "Set" /\ SW!Next /\ UNCHANGED <<eventVars, promiseVars, notifierVars>>
       \/ subject = "Set, DeleteAll" /\ SR!Next /\ UNCHANGED <<eventVars, promiseVars, notifierVars>>
       \/ subject = "Event" /\ EV!EventNext /\ UNCHANGED <<setVars, promiseVars, notifierVars>>
       \/ subject = "promise.Event" /\ EV!PromiseNext /\ UNCHANGED <<setVars, eventVars, notifierVars>>
       \/ subject = "Notifier" /\ VN!Next /\ UNCHANGED <<setVars, eventVars, promiseVars>>
    /\ UNCHANGED groupVars
Next == (GroupNext \/ OtherNext) /\ UNCHANGED subject
Spec == Init /\ [][Next]_<<subject, groupVars, otherVars>>

\* DAGMutex: a writer of an entity excludes every other holder of it.
EntityExclusion == subject = "DAGMutex" => DM!EntityExclusion
\* DAGMutex and Set: calls that wait are never all waiting for each other.
NoDeadlock == /\ subject = "DAGMutex" => DM!NoDeadlock
              /\ subject = "Set" => SW!NeverStuck
              /\ subject = "Set, DeleteAll" => SR!NeverStuck
\* Counter: a group counts its pending children exactly, and nobody stays parked in WaitIsZero
\* on a counter that is zero.
GroupCountExact == subject = "Counter" => CT!GroupCountExact /\ CT!NoLostWakeup
\* DebounceFunc: the newest invocation is the last one to execute, and they execute in order,
\* one at a time.
LastOneRuns == subject = "Debounce" => DB!LastOneRuns /\ DB!InOrder
\* Set: the mutations of a call under the lock are applied, and reported, as one.
AppliedAtomically == subject = "Set" => SW!AppliedAtomically
\* Event: a callback is executed once for each trigger of the target its event is linked to.
\* promise.Event: a subscriber is called once, whether it comes before or after the trigger.
CalledOnce == /\ subject = "Event" => EV!TriggeredOnce
              /\ subject = "promise.Event" => EV!CalledOnce
\* Notifier: Wait returns without an error only after a Notify, and Notify reaches every listener.
WokenByNotify == subject = "Notifier" => VN!WokenByNotify /\ VN!Reachable

BothOrders == {<<A, B>>, <<B, A>>}
MCParent == [n \in {"a", "b", "c", "sub"} |-> IF n \in {"a", "b"} THEN "sub" ELSE "root"]
MCTarget == [w \in Waiters |-> IF w = "w1" THEN "root" ELSE "a"]
MCMaxTriggerCount == [x \in Callbacks \cup {Linked} |->
                         CASE x = "c1" -> 1 [] x = Linked -> 2 [] OTHER -> 0]
Symmetry == Permutations(Procs)
=============================================================================
