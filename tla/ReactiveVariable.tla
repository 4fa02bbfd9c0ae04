-------------------------- MODULE ReactiveVariable --------------------------
(***************************************************************************)
(* ds/reactive: a variable (variable_impl.go) and its callbacks            *)
(* (utils.go).  Writers call Set, Compute or DefaultTo; subscribers call   *)
(* OnUpdateWithContext, as WithNonEmptyValue does, and unsubscribe later.  *)
(* A section under valueMutex is one step.  updateOrderMutex is held by    *)
(* the writer that is not idle or done; executionMutex[s] is held through  *)
(* an invocation of the callback of s.                                     *)
(***************************************************************************)
EXTENDS Naturals, FiniteSets

CONSTANTS
    Writers, Subscribers,
    Value, Zero,      \* values of the variable; the zero value of their type
    Transform(_, _)   \* transformationFunc(currentValue, newValue)
ASSUME ValueAssumption == Zero \in Value /\ \A v, u \in Value : Transform(v, u) \in Value
ASSUME ProcessAssumption == Writers \cap Subscribers = {} /\ "free" \notin Writers \cup Subscribers

Free == "free"

VARIABLES
    value, uniqueUpdateID, registeredCallbacks,
    writer,                   \* per writer: location
    previousValue, toTrigger, \* of the writer holding updateOrderMutex
    subscriber, currentValue, \* per subscriber: location; what OnUpdate read
    executionMutex, lastUpdate,
    seen,                     \* history: the value the callback was last called with
    active                    \* values whose setup was done and not torn down

varVars == <<value, uniqueUpdateID, registeredCallbacks>>
writeVars == <<writer, previousValue, toTrigger>>
subVars == <<subscriber, currentValue>>
callVars == <<executionMutex, lastUpdate, seen, active>>
vars == <<varVars, writeVars, subVars, callVars>>

Init ==
    /\ value = Zero /\ uniqueUpdateID = 0 /\ registeredCallbacks = {}
    /\ writer = [w \in Writers |-> "idle"] /\ previousValue = Zero /\ toTrigger = {}
    /\ subscriber = [s \in Subscribers |-> "new"]
    /\ currentValue = [s \in Subscribers |-> Zero]
    /\ executionMutex = [s \in Subscribers |-> Free]
    /\ lastUpdate = [s \in Subscribers |-> 0]
    /\ seen = [s \in Subscribers |-> Zero] /\ active = [s \in Subscribers |-> {}]

\* ------------------------------------------------------------------- Compute
Writing == {w \in Writers : writer[w] \notin {"idle", "done"}}

Compute(w) ==  \* updateOrderMutex.Lock()
    /\ writer[w] = "idle" /\ Writing = {}
    /\ writer' = [writer EXCEPT ![w] = "update"]
    /\ UNCHANGED <<varVars, previousValue, toTrigger, subVars, callVars>>

\* v is what computeFunc returns: anything, for Compute; the argument, for Set;
\* the argument or the current value, for DefaultTo.
updateValue(w) ==
    /\ writer[w] = "update" /\ writer' = [writer EXCEPT ![w] = "notify"]
    /\ \E v \in Value : value' = Transform(value, v)
    /\ previousValue' = value
    /\ IF value' = value THEN UNCHANGED uniqueUpdateID /\ toTrigger' = {}
       ELSE uniqueUpdateID' = uniqueUpdateID + 1 /\ toTrigger' = registeredCallbacks
    /\ UNCHANGED <<registeredCallbacks, subVars, callVars>>

Unsubscribed(s) == subscriber[s] \in {"marked", "unsubscribed"}

\* LockExecution refuses an unsubscribed callback and an update it has seen.
\* Mutant: the update the callback was registered after is taken as new.
RefusesLateMutant(s) == Unsubscribed(s) \/ lastUpdate[s] + 1 = uniqueUpdateID
Refuses(s) == Unsubscribed(s) \/ lastUpdate[s] = uniqueUpdateID

\* The loop over the callbacks (in the order of the list: here in any order):
\* LockExecution, and the first half of Invoke, which tears the previous value down.
Invoke(w, s) ==
    /\ writer[w] = "notify" /\ s \in toTrigger /\ executionMutex[s] = Free
    /\ toTrigger' = toTrigger \ {s}
    /\ IF Refuses(s) THEN UNCHANGED <<writer, callVars>>
       ELSE /\ writer' = [writer EXCEPT ![w] = "invoke"]
            /\ executionMutex' = [executionMutex EXCEPT ![s] = w]
            /\ lastUpdate' = [lastUpdate EXCEPT ![s] = uniqueUpdateID]
            /\ active' = [active EXCEPT ![s] = {}] /\ UNCHANGED seen
    /\ UNCHANGED <<varVars, previousValue, subVars>>

\* WithNonEmptyValue calls setup if the new value is not the zero value.
Setup(v) == IF v = Zero THEN {} ELSE {v}

\* Mutant: the lock is kept.
UnlockExecutionMutant(w, s) ==
    /\ writer[w] = "invoke" /\ executionMutex[s] = w
    /\ seen' = [seen EXCEPT ![s] = value] /\ active' = [active EXCEPT ![s] = Setup(value)]
    /\ writer' = [writer EXCEPT ![w] = "notify"]
    /\ UNCHANGED <<varVars, previousValue, toTrigger, subVars, lastUpdate, executionMutex>>
UnlockExecution(w, s) ==  \* the rest of Invoke(previousValue, newValue)
    /\ writer[w] = "invoke" /\ executionMutex[s] = w
    /\ seen' = [seen EXCEPT ![s] = value] /\ active' = [active EXCEPT ![s] = Setup(value)]
    /\ executionMutex' = [executionMutex EXCEPT ![s] = Free]
    /\ writer' = [writer EXCEPT ![w] = "notify"]
    /\ UNCHANGED <<varVars, previousValue, toTrigger, subVars, lastUpdate>>

ComputeReturns(w) ==
    /\ writer[w] = "notify" /\ toTrigger = {}
    /\ writer' = [writer EXCEPT ![w] = "done"]
    /\ UNCHANGED <<varVars, previousValue, toTrigger, subVars, callVars>>

\* ------------------------------------------------- OnUpdate and unsubscribing
\* Mutant: the execution lock is not taken before valueMutex is released.
OnUpdateMutant(s) ==
    /\ subscriber[s] = "new" /\ subscriber' = [subscriber EXCEPT ![s] = "initial"]
    /\ currentValue' = [currentValue EXCEPT ![s] = value]
    /\ registeredCallbacks' = registeredCallbacks \cup {s}
    /\ lastUpdate' = [lastUpdate EXCEPT ![s] = uniqueUpdateID]
    /\ UNCHANGED <<value, uniqueUpdateID, writeVars, executionMutex, seen, active>>
OnUpdate(s) ==
    /\ subscriber[s] = "new" /\ subscriber' = [subscriber EXCEPT ![s] = "initial"]
    /\ currentValue' = [currentValue EXCEPT ![s] = value]
    /\ registeredCallbacks' = registeredCallbacks \cup {s}
    /\ executionMutex' = [executionMutex EXCEPT ![s] = s]
    /\ lastUpdate' = [lastUpdate EXCEPT ![s] = uniqueUpdateID]
    /\ UNCHANGED <<value, uniqueUpdateID, writeVars, seen, active>>

\* Invoke(emptyValue, currentValue): a call with the zero value changes nothing here.
InitialInvoke(s) ==
    /\ subscriber[s] = "initial" /\ subscriber' = [subscriber EXCEPT ![s] = "subscribed"]
    /\ seen' = [seen EXCEPT ![s] = currentValue[s]]
    /\ active' = [active EXCEPT ![s] = Setup(currentValue[s])]
    /\ executionMutex' = [executionMutex EXCEPT ![s] = Free]
    /\ UNCHANGED <<varVars, writeVars, currentValue, lastUpdate>>

RemoveCallback(s) ==
    /\ subscriber[s] = "subscribed" /\ subscriber' = [subscriber EXCEPT ![s] = "removed"]
    /\ registeredCallbacks' = registeredCallbacks \ {s}
    /\ UNCHANGED <<value, uniqueUpdateID, writeVars, currentValue, callVars>>

\* Mutant: the flag is set without the execution lock.
MarkUnsubscribedMutant(s) ==
    /\ subscriber[s] = "removed"
    /\ subscriber' = [subscriber EXCEPT ![s] = "marked"]
    /\ UNCHANGED <<varVars, writeVars, currentValue, callVars>>
MarkUnsubscribed(s) ==
    /\ subscriber[s] = "removed" /\ executionMutex[s] = Free
    /\ subscriber' = [subscriber EXCEPT ![s] = "marked"]
    /\ UNCHANGED <<varVars, writeVars, currentValue, callVars>>

\* OnUpdateWithContext's unsubscribe: previousUnsubscribedEvent.Trigger().
Teardown(s) ==
    /\ subscriber[s] = "marked" /\ subscriber' = [subscriber EXCEPT ![s] = "unsubscribed"]
    /\ active' = [active EXCEPT ![s] = {}]
    /\ UNCHANGED <<varVars, writeVars, currentValue, executionMutex, lastUpdate, seen>>

WriterStep(w) ==
    \/ updateValue(w) \/ ComputeReturns(w)
    \/ \E s \in Subscribers : Invoke(w, s) \/ UnlockExecution(w, s)
SubscriberStep(s) == InitialInvoke(s) \/ MarkUnsubscribed(s) \/ Teardown(s)
Next ==
    \/ \E w \in Writers : Compute(w) \/ WriterStep(w)
    \/ \E s \in Subscribers : OnUpdate(s) \/ RemoveCallback(s) \/ SubscriberStep(s)
Spec == Init /\ [][Next]_vars

\* Calls under way go on and callbacks return.  Strong fairness of MarkUnsubscribed:
\* executionMutex is a sync.Mutex, which does not starve a waiter.
FairSpec ==
    /\ Spec
    /\ \A w \in Writers : WF_vars(WriterStep(w))
    /\ \A s \in Subscribers : WF_vars(InitialInvoke(s)) /\ SF_vars(MarkUnsubscribed(s)) /\ WF_vars(Teardown(s))

\* ---------------------------------------------------------------- properties
TypeOK ==
    /\ value \in Value /\ uniqueUpdateID \in Nat /\ registeredCallbacks \subseteq Subscribers
    /\ writer \in [Writers -> {"idle", "update", "notify", "invoke", "done"}]
    /\ previousValue \in Value /\ toTrigger \subseteq Subscribers
    /\ subscriber \in [Subscribers -> {"new", "initial", "subscribed", "removed", "marked", "unsubscribed"}]
    /\ currentValue \in [Subscribers -> Value]
    /\ executionMutex \in [Subscribers -> {Free} \cup Writers \cup Subscribers]
    /\ lastUpdate \in [Subscribers -> 0 .. uniqueUpdateID]
    /\ seen \in [Subscribers -> Value] /\ active \in [Subscribers -> SUBSET Value]

\* Callbacks see a chain of updates with no gap, repetition or reordering: the
\* previousValue an invocation passes is the newValue of the one before.
GapFree ==
    \A w \in Writers, s \in Subscribers : executionMutex[s] = w => seen[s] = previousValue

\* "all subscribers are notified before the next write operation is executed": with
\* no write under way, every subscriber has been called with the current value,
\* and what it set up for that value, and nothing else, is active.
UpToDate ==
    Writing = {} => \A s \in Subscribers :
        subscriber[s] = "subscribed" => seen[s] = value /\ active[s] = Setup(value)

\* At most one setup is active per subscriber; none once unsubscribe has returned.
TornDown ==
    \A s \in Subscribers :
        /\ Cardinality(active[s]) <= 1
        /\ subscriber[s] = "unsubscribed" => active[s] = {}

\* No invocation is under way, and so none starts, once the callback is marked.
NoCallAfterUnsubscribe ==
    \A s \in Subscribers : Unsubscribed(s) => executionMutex[s] = Free

\* Writes and unsubscribing terminate: the locks taken in OnUpdate, Compute and
\* MarkUnsubscribed do not wait for one another in a circle.
CallsReturn ==
    /\ \A w \in Writers : writer[w] = "update" ~> writer[w] = "done"
    /\ \A s \in Subscribers : subscriber[s] = "removed" ~> subscriber[s] = "unsubscribed"
=============================================================================
