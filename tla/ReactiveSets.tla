---------------------------- MODULE ReactiveSets ----------------------------
(***************************************************************************)
(* ds/reactive: sets and what follows them (set_impl.go), with the counts  *)
(* of ds.SetArithmetic.  A derived set inherits from the sources, a        *)
(* difference set holds the elements of the first source that are in none  *)
(* of the others (SubtractReactive), and WithElements keeps something set  *)
(* up for each element of the derived set.                                 *)
(*                                                                         *)
(* A source is written by one call at a time (set.mutex), which applies    *)
(* its mutations in one section (readableSet.mutex) and then invokes the   *)
(* callbacks of the list it read there.  The list and the update have the  *)
(* same section, so that no callback of the list has seen the update: what *)
(* LockExecution refuses is a callback that was unsubscribed meanwhile.    *)
(***************************************************************************)
EXTENDS Integers, FiniteSets, FiniteSetsExt

CONSTANTS
    Sources, First,   \* the sets that are followed; the minuend of the difference
    ElementType,
    Overlap,          \* whether Replace may be given elements the set already has
    MaxCalls          \* bound: calls that change a source
ReactiveSetsAssumption == First \in Sources /\ Overlap \in BOOLEAN /\ MaxCalls \in Nat

\* Who calls: a writer of a source, the one who calls InheritFrom for it.
Actors == {"write", "inherit"} \X Sources
NoOne == <<"no one", First>>

NoMutations == [added |-> {}, deleted |-> {}]

VARIABLES
    value,            \* per source: its elements
    calls,            \* number of calls that changed a source
    pc, mutations,    \* per actor: where it is, what it passes on
    listed,           \* per source: the list a writer read has the derived set's callback
    subscription,     \* per source: the derived set's callback
    executionMutex,   \* per source: who executes the derived set's callback
    sourceElements,   \* per source: what the derived set has of it
    counts, derived, derivedMutex,  \* derivedSet: setArithmetic, value, mutex
    minuend, difference,            \* SubtractReactive: setArithmetic, value
    active            \* elements for which setup was called and teardown was not

sourceVars == <<value, calls>>
derivedVars == <<counts, derived, active>>
differenceVars == <<minuend, difference>>
vars == <<sourceVars, pc, mutations, listed, subscription, executionMutex, sourceElements,
          derivedVars, derivedMutex, differenceVars>>

TypeOK ==
    /\ value \in [Sources -> SUBSET ElementType] /\ sourceElements \in [Sources -> SUBSET ElementType]
    /\ subscription \in [Sources -> {"new", "subscribed", "removed", "unsubscribed"}]
    /\ executionMutex \in [Sources -> Actors \cup {NoOne}] /\ derivedMutex \in Actors \cup {NoOne}
    /\ counts \in [ElementType -> Int] /\ minuend \in [ElementType -> Int]

\* The difference set subscribes to all sources before anything is written.
Init ==
    /\ value = [s \in Sources |-> {}] /\ calls = 0
    /\ pc = [a \in Actors |-> "idle"] /\ mutations = [a \in Actors |-> NoMutations]
    /\ listed = [s \in Sources |-> FALSE]
    /\ subscription = [s \in Sources |-> "new"] /\ executionMutex = [s \in Sources |-> NoOne]
    /\ sourceElements = [s \in Sources |-> {}]
    /\ counts = [e \in ElementType |-> 0] /\ derived = {} /\ derivedMutex = NoOne
    /\ minuend = [e \in ElementType |-> 0] /\ difference = {} /\ active = {}

\* ------------------------------------------------- ds.Set and ds.SetArithmetic
\* Set.Apply: adds, then deletes, and returns what was really changed.
Applied(s, m) ==
    LET more == s \cup m.added IN
    [set |-> more \ m.deleted, mutations |-> [added |-> m.added \ s, deleted |-> m.deleted \cap more]]

\* elementsCollector: one more (or less) of each element; those that reach the threshold 1
\* (fall below it) are collected, unless the opposing set of the same call has them.
\* Mutant: what the call already collected in the opposing set is not looked at.
CollectMutant(c, m, elements, increase) ==
    LET new == [e \in ElementType |-> IF e \in elements THEN c[e] + increase ELSE c[e]]
        passed == {e \in elements : new[e] = (IF increase = 1 THEN 1 ELSE 0)}
        target == IF increase = 1 THEN "added" ELSE "deleted"
    IN [counts |-> new, mutations |-> [m EXCEPT ![target] = @ \cup passed]]
Collect(c, m, elements, increase) ==
    LET new == [e \in ElementType |-> IF e \in elements THEN c[e] + increase ELSE c[e]]
        passed == {e \in elements : new[e] = (IF increase = 1 THEN 1 ELSE 0)}
        target == IF increase = 1 THEN "added" ELSE "deleted"
        opposing == IF increase = 1 THEN "deleted" ELSE "added"
    IN [counts |-> new,
        mutations |-> [m EXCEPT ![target] = @ \cup (passed \ m[opposing]), ![opposing] = @ \ passed]]

\* Add: the added elements count up, the deleted ones down; Subtract: the other way round.
Arithmetic(c, m, sign) ==
    LET first == Collect(c, NoMutations, m.added, sign)
    IN Collect(first.counts, first.mutations, m.deleted, -sign)

\* ---------------------------------------------------------- writing a source
\* Add, AddAll, Delete, DeleteAll and Apply call the followers if something changed,
\* Compute and Replace in any case; Replace reports all new elements as added and all
\* previous ones as deleted.
Write(s, new, applied) ==
    LET a == <<"write", s>> IN
    /\ pc[a] = "idle" /\ calls < MaxCalls /\ calls' = calls + 1
    /\ value' = [value EXCEPT ![s] = new]
    /\ pc' = [pc EXCEPT ![a] = "difference"] /\ mutations' = [mutations EXCEPT ![a] = applied]
    /\ listed' = [listed EXCEPT ![s] = subscription[s] = "subscribed"]
    /\ UNCHANGED <<subscription, executionMutex, sourceElements, derivedVars, derivedMutex, differenceVars>>

Apply(s) ==
    \E added, deleted \in SUBSET ElementType :
        LET r == Applied(value[s], [added |-> added, deleted |-> deleted]) IN
        r.mutations # NoMutations /\ Write(s, r.set, r.mutations)
Replace(s) ==
    \E elements \in SUBSET ElementType :
        /\ Overlap \/ elements \cap value[s] = {}
        /\ Write(s, elements, [added |-> elements, deleted |-> value[s]])

\* The callback of SubtractReactive, the first of the list: one section of the
\* difference set's mutex.
UpdateDifference(s) ==
    LET a == <<"write", s>>
        r == Arithmetic(minuend, mutations[a], IF s = First THEN 1 ELSE -1)
    IN /\ pc[a] = "difference"
       /\ pc' = [pc EXCEPT ![a] = IF listed[s] THEN "derived" ELSE "idle"]
       /\ mutations' = [mutations EXCEPT ![a] = IF listed[s] THEN @ ELSE NoMutations]
       /\ minuend' = r.counts /\ difference' = Applied(difference, r.mutations).set
       /\ UNCHANGED <<sourceVars, listed, subscription, executionMutex, sourceElements,
                      derivedVars, derivedMutex>>

\* The callback of InheritFrom: LockExecution, sourceElements.Apply ...
LockExecution(s) ==
    LET a == <<"write", s>>
        r == Applied(sourceElements[s], mutations[a])
    IN /\ pc[a] = "derived" /\ executionMutex[s] = NoOne
       /\ IF subscription[s] = "unsubscribed"
          THEN /\ pc' = [pc EXCEPT ![a] = "idle"]
               /\ mutations' = [mutations EXCEPT ![a] = NoMutations]
               /\ UNCHANGED <<executionMutex, sourceElements>>
          ELSE /\ pc' = [pc EXCEPT ![a] = "inherit"]
               /\ executionMutex' = [executionMutex EXCEPT ![s] = a]
               /\ sourceElements' = [sourceElements EXCEPT ![s] = r.set]
               /\ mutations' = [mutations EXCEPT ![a] = r.mutations]
       /\ UNCHANGED <<sourceVars, listed, subscription, derivedVars, derivedMutex, differenceVars>>

\* ... and inheritMutations, which locks the derived set, counts, applies what results
Inherit(a) ==
    LET net == Arithmetic(counts, mutations[a], 1)
        r == Applied(derived, net.mutations)
    IN /\ pc[a] = "inherit" /\ derivedMutex = NoOne /\ derivedMutex' = a
       /\ counts' = net.counts /\ derived' = r.set
       /\ mutations' = [mutations EXCEPT ![a] = r.mutations]
       /\ pc' = [pc EXCEPT ![a] = "elements"]
       /\ UNCHANGED <<sourceVars, listed, subscription, executionMutex, sourceElements, active,
                      differenceVars>>

\* and calls the followers of the derived set, here WithElements.
WithElements(a) ==
    /\ pc[a] = "elements" /\ pc' = [pc EXCEPT ![a] = "idle"]
    /\ mutations' = [mutations EXCEPT ![a] = NoMutations]
    /\ active' = (active \cup mutations[a].added) \ mutations[a].deleted
    /\ derivedMutex' = NoOne
    /\ executionMutex' = [s \in Sources |-> IF executionMutex[s] = a THEN NoOne ELSE executionMutex[s]]
    /\ UNCHANGED <<sourceVars, listed, subscription, sourceElements, counts, derived, differenceVars>>

\* ----------------------------------------------- InheritFrom and unsubscribing
\* OnUpdate: the elements and the registration in one section, under which the callback's
\* execution is locked; then the callback is called with the elements, if there are any.
\* Mutant: the elements are read before the section that registers the callback.
OnUpdateMutant(s) ==
    LET a == <<"inherit", s>> IN
    /\ subscription[s] = "new"
    /\ \/ /\ pc[a] = "idle" /\ pc' = [pc EXCEPT ![a] = "clone"]
          /\ mutations' = [mutations EXCEPT ![a] = [added |-> value[s], deleted |-> {}]]
          /\ UNCHANGED <<subscription, executionMutex, sourceElements>>
       \/ /\ pc[a] = "clone" /\ pc' = [pc EXCEPT ![a] = "inherit"]
          /\ subscription' = [subscription EXCEPT ![s] = "subscribed"]
          /\ executionMutex' = [executionMutex EXCEPT ![s] = a]
          /\ sourceElements' = [sourceElements EXCEPT ![s] = mutations[a].added]
          /\ UNCHANGED mutations
    /\ UNCHANGED <<sourceVars, listed, derivedVars, derivedMutex, differenceVars>>
OnUpdate(s) ==
    LET a == <<"inherit", s>> IN
    /\ subscription[s] = "new" /\ subscription' = [subscription EXCEPT ![s] = "subscribed"]
    /\ mutations' = [mutations EXCEPT ![a] = [added |-> value[s], deleted |-> {}]]
    /\ sourceElements' = [sourceElements EXCEPT ![s] = value[s]]
    /\ IF value[s] = {} THEN UNCHANGED <<pc, executionMutex>>
       ELSE /\ pc' = [pc EXCEPT ![a] = "inherit"]
            /\ executionMutex' = [executionMutex EXCEPT ![s] = a]
    /\ UNCHANGED <<sourceVars, listed, derivedVars, derivedMutex, differenceVars>>

RemoveCallback(s) ==
    /\ subscription[s] = "subscribed" /\ pc[<<"inherit", s>>] = "idle"
    /\ subscription' = [subscription EXCEPT ![s] = "removed"]
    /\ UNCHANGED <<sourceVars, pc, mutations, listed, executionMutex, sourceElements, derivedVars,
                   derivedMutex, differenceVars>>

\* MarkUnsubscribed, and removeSourceElements.
\* Mutant: does not wait for a callback that is being executed.
MarkUnsubscribedMutant(s) ==
    LET a == <<"inherit", s>> IN
    /\ subscription[s] = "removed" /\ subscription' = [subscription EXCEPT ![s] = "unsubscribed"]
    /\ mutations' = [mutations EXCEPT ![a] = [added |-> {}, deleted |-> sourceElements[s]]]
    /\ pc' = [pc EXCEPT ![a] = "inherit"]
    /\ UNCHANGED <<sourceVars, listed, executionMutex, sourceElements, derivedVars, derivedMutex, differenceVars>>
MarkUnsubscribed(s) ==
    LET a == <<"inherit", s>> IN
    /\ subscription[s] = "removed" /\ executionMutex[s] = NoOne
    /\ subscription' = [subscription EXCEPT ![s] = "unsubscribed"]
    /\ mutations' = [mutations EXCEPT ![a] = [added |-> {}, deleted |-> sourceElements[s]]]
    /\ pc' = [pc EXCEPT ![a] = "inherit"]
    /\ UNCHANGED <<sourceVars, listed, executionMutex, sourceElements, derivedVars, derivedMutex,
                   differenceVars>>

Next ==
    \/ \E s \in Sources :
          \/ Apply(s) \/ Replace(s) \/ UpdateDifference(s) \/ LockExecution(s)
          \/ OnUpdate(s) \/ RemoveCallback(s) \/ MarkUnsubscribed(s)
    \/ \E a \in Actors : Inherit(a) \/ WithElements(a)

Spec == Init /\ [][Next]_vars

\* ------------------------------------------------------------------ property
Quiet == (\A a \in Actors : pc[a] = "idle") /\ \A s \in Sources : subscription[s] # "removed"
Followed == {s \in Sources : subscription[s] = "subscribed"}

\* Once no call is under way, and whatever was written, subscribed and unsubscribed
\* concurrently, a derived set holds the elements of the sources it inherits from,
\* exactly those are set up, and the difference set holds the elements of the first
\* source that are in none of the others.
FollowsSources ==
    Quiet =>
        /\ derived = UNION {value[s] : s \in Followed} /\ active = derived
        /\ difference = value[First] \ UNION {value[s] : s \in Sources \ {First}}
=============================================================================
