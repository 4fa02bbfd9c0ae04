------------------------------ MODULE SortedSet ------------------------------
(***************************************************************************)
(* ds/reactive: a set that keeps its elements sorted by weight, heaviest   *)
(* first (sorted_set_impl.go).  The weight of an element is a reactive     *)
(* variable; addSorted subscribes to it, deleteSorted unsubscribes.  One   *)
(* call at a time changes the set (the mutex of the embedded Set) and one  *)
(* at a time each weight (updateOrderMutex of the variable); mutex guards  *)
(* sortedElements, executionMutex[e] the callback of the weight of e.      *)
(*                                                                         *)
(* The callback takes mutex unless unsubscribeFromWeightUpdates is nil,    *)
(* which is meant for the initial call, under the mutex of addSorted, and  *)
(* is so until addSorted has stored what OnUpdate returned.                *)
(***************************************************************************)
EXTENDS Integers, Sequences, FiniteSets, SequencesExt

CONSTANTS
    ElementType,     \* elements: positive numbers, with their order as Less
    Weights,
    Lessable,        \* whether the elements have a Less method
    Concurrent,      \* whether a weight may change while its element is added or deleted
    MaxCalls         \* bound: calls that change the set or a weight
SortedSetAssumption ==
    /\ ElementType \subseteq Nat \ {0} /\ Weights \subseteq Nat /\ 0 \in Weights
    /\ {Lessable, Concurrent} \subseteq BOOLEAN /\ MaxCalls \in Nat

None == 0  \* the zero value of ElementType
Caller == -1  \* who changes the set; the one who changes the weight of e is e
Free == None

VARIABLES
    members, weightVariable, calls,
    call,              \* of the caller: where it is, the element, the weight OnUpdate read
    setter,            \* per element: where the one who changes its weight is
    mutex, executionMutex,
    subscribed,        \* elements whose callback is in the list of the weight
    assigned,          \* elements whose unsubscribeFromWeightUpdates is not nil
    sortedElements, weight,  \* the slice; per element: listElement.weight
    heaviestElement, lightestElement

lockVars == <<mutex, executionMutex>>
listVars == <<sortedElements, weight, heaviestElement, lightestElement>>
vars == <<members, weightVariable, calls, call, setter, lockVars, subscribed, assigned, listVars>>

Idle == [pc |-> "idle", element |-> None, weight |-> 0]

TypeOK ==
    /\ members \subseteq ElementType /\ weightVariable \in [ElementType -> Weights]
    /\ mutex \in ElementType \cup {Caller, Free}
    /\ executionMutex \in [ElementType -> ElementType \cup {Caller, Free}]
    /\ subscribed \cup assigned \cup ToSet(sortedElements) \subseteq ElementType
    /\ {heaviestElement, lightestElement} \subseteq ElementType \cup {None}

Init ==
    /\ members = {} /\ weightVariable = [e \in ElementType |-> 0] /\ calls = 0
    /\ call = Idle /\ setter = [e \in ElementType |-> "idle"]
    /\ mutex = Free /\ executionMutex = [e \in ElementType |-> Free]
    /\ subscribed = {} /\ assigned = {}
    /\ sortedElements = <<>> /\ weight = [e \in ElementType |-> 0]
    /\ heaviestElement = None /\ lightestElement = None

\* ------------------------------------------------------------- updatePosition
\* swap: whether the left of two neighbours has to change places with the right one.
\* Mutant: elements of the same weight are left alone.
SwapsMutant(w, left, right) == w[left] < w[right]
Swaps(w, left, right) ==
    w[left] < w[right] \/ (w[left] = w[right] /\ Lessable /\ left < right)

\* The element moves left as far as it can, or else right as far as it can.
NewIndex(s, w, e) ==
    LET i == CHOOSE n \in DOMAIN s : s[n] = e
        left == {n \in 1 .. i : \A m \in n .. (i - 1) : Swaps(w, s[m], e)}
        right == {n \in i .. Len(s) : \A m \in (i + 1) .. n : Swaps(w, e, s[m])}
        leftmost == CHOOSE n \in left : \A m \in left : n <= m
    IN IF leftmost < i THEN leftmost ELSE CHOOSE n \in right : \A m \in right : n >= m

updatePosition(s, w, e) ==
    LET from == CHOOSE n \in DOMAIN s : s[n] = e
        to == NewIndex(s, w, e)
        new == InsertAt(SelectSeq(s, LAMBDA f : f # e), to, e)
        moved == from # to
    IN /\ sortedElements' = new /\ weight' = w
       /\ heaviestElement' = IF moved /\ from = 1 THEN new[1] ELSE IF to = 1 THEN e ELSE heaviestElement
       /\ lightestElement' = IF moved /\ from = Len(s) THEN new[Len(s)]
                             ELSE IF to = Len(s) THEN e ELSE lightestElement

\* ------------------------------------------------------- Add, and addSorted
Busy(e) == call.pc # "idle" /\ call.element = e

Call(pc, e) ==  \* Set.Apply, which then calls the callback of newSortedSet
    /\ call.pc = "idle" /\ calls < MaxCalls /\ calls' = calls + 1
    /\ Concurrent \/ setter[e] = "idle"
    /\ (pc = "add") = (e \notin members)
    /\ members' = IF pc = "add" THEN members \cup {e} ELSE members \ {e}
    /\ call' = [pc |-> pc, element |-> e, weight |-> 0]
    /\ UNCHANGED <<weightVariable, setter, lockVars, subscribed, assigned, listVars>>

\* newSortedSetElement, and OnUpdate up to the initial call, which reads the weight.
addSorted ==
    LET e == call.element IN
    /\ call.pc = "add" /\ mutex = Free /\ mutex' = Caller
    /\ call' = [call EXCEPT !.pc = "initial", !.weight = weightVariable[e]]
    /\ sortedElements' = Append(sortedElements, e)
    /\ weight' = [weight EXCEPT ![e] = 0]
    /\ subscribed' = subscribed \cup {e} /\ executionMutex' = [executionMutex EXCEPT ![e] = Caller]
    /\ UNCHANGED <<members, weightVariable, calls, setter, assigned, heaviestElement, lightestElement>>

InitialUpdate ==
    LET e == call.element IN
    /\ call.pc = "initial" /\ call' = [call EXCEPT !.pc = "assign"]
    /\ updatePosition(sortedElements, [weight EXCEPT ![e] = call.weight], e)
    /\ executionMutex' = [executionMutex EXCEPT ![e] = Free]
    /\ UNCHANGED <<members, weightVariable, calls, setter, mutex, subscribed, assigned>>

addSortedReturns ==
    /\ call.pc = "assign" /\ call' = Idle /\ mutex' = Free
    /\ assigned' = assigned \cup {call.element}
    /\ UNCHANGED <<members, weightVariable, calls, setter, executionMutex, subscribed, listVars>>

\* ------------------------------------------------------ Delete, and deleteSorted
deleteSorted ==  \* takes mutex; the callback is removed from the list of the weight
    /\ call.pc = "delete" /\ mutex = Free /\ mutex' = Caller
    /\ call' = [call EXCEPT !.pc = "unsubscribe"] /\ subscribed' = subscribed \ {call.element}
    /\ UNCHANGED <<members, weightVariable, calls, setter, executionMutex, assigned, listVars>>

\* A setter that has the callback in its list is refused once it is unsubscribed.
MarkUnsubscribed ==
    LET e == call.element IN
    /\ call.pc = "unsubscribe" /\ executionMutex[e] = Free
    /\ call' = [call EXCEPT !.pc = "shift"] /\ assigned' = assigned \ {e}
    /\ setter' = [setter EXCEPT ![e] = IF @ = "notify" THEN "idle" ELSE @]
    /\ UNCHANGED <<members, weightVariable, calls, lockVars, subscribed, listVars>>

\* Mutant: the lightest element is only replaced when the heaviest is.
ShiftMutant ==
    LET e == call.element
        new == SelectSeq(sortedElements, LAMBDA f : f # e)
        end(i) == IF new = <<>> THEN None ELSE new[i]
    IN /\ call.pc = "shift" /\ call' = Idle /\ mutex' = Free
       /\ sortedElements' = new /\ UNCHANGED weight
       /\ heaviestElement' = IF sortedElements[1] = e THEN end(1) ELSE heaviestElement
       /\ lightestElement' = IF sortedElements[1] = e THEN end(Len(new)) ELSE lightestElement
       /\ UNCHANGED <<members, weightVariable, calls, setter, executionMutex, subscribed, assigned>>
Shift ==
    LET e == call.element
        new == SelectSeq(sortedElements, LAMBDA f : f # e)
        end(i) == IF new = <<>> THEN None ELSE new[i]
    IN /\ call.pc = "shift" /\ call' = Idle /\ mutex' = Free
       /\ sortedElements' = new /\ UNCHANGED weight
       /\ heaviestElement' = IF sortedElements[1] = e THEN end(1) ELSE heaviestElement
       /\ lightestElement' = IF Last(sortedElements) = e THEN end(Len(new)) ELSE lightestElement
       /\ UNCHANGED <<members, weightVariable, calls, setter, executionMutex, subscribed, assigned>>

\* --------------------------------------------------------- the weight changes
SetWeight(e, w) ==
    /\ setter[e] = "idle" /\ w # weightVariable[e] /\ calls < MaxCalls /\ calls' = calls + 1
    /\ Concurrent \/ ~Busy(e)
    /\ weightVariable' = [weightVariable EXCEPT ![e] = w]
    /\ setter' = [setter EXCEPT ![e] = IF e \in subscribed THEN "notify" ELSE "idle"]
    /\ UNCHANGED <<members, call, lockVars, subscribed, assigned, listVars>>

\* LockExecution, and whether the callback takes mutex.
LockExecution(e) ==
    /\ setter[e] = "notify" /\ executionMutex[e] = Free
    /\ executionMutex' = [executionMutex EXCEPT ![e] = e]
    /\ setter' = [setter EXCEPT ![e] = IF e \in assigned THEN "lock" ELSE "update"]
    /\ UNCHANGED <<members, weightVariable, calls, call, mutex, subscribed, assigned, listVars>>

Lock(e) ==
    /\ setter[e] = "lock" /\ mutex = Free /\ mutex' = e
    /\ setter' = [setter EXCEPT ![e] = "update"]
    /\ UNCHANGED <<members, weightVariable, calls, call, executionMutex, subscribed, assigned, listVars>>

UpdateWeight(e) ==
    /\ setter[e] = "update" /\ setter' = [setter EXCEPT ![e] = "idle"]
    /\ updatePosition(sortedElements, [weight EXCEPT ![e] = weightVariable[e]], e)
    /\ mutex' = (IF mutex = e THEN Free ELSE mutex)
    /\ executionMutex' = [executionMutex EXCEPT ![e] = Free]
    /\ UNCHANGED <<members, weightVariable, calls, call, subscribed, assigned>>

Next ==
    \/ addSorted \/ InitialUpdate \/ addSortedReturns \/ deleteSorted \/ MarkUnsubscribed \/ Shift
    \/ \E e \in ElementType :
          \/ Call("add", e) \/ Call("delete", e) \/ LockExecution(e) \/ Lock(e) \/ UpdateWeight(e)
          \/ \E w \in Weights : SetWeight(e, w)

Spec == Init /\ [][Next]_vars

\* ---------------------------------------------------------------- properties
Quiet == call.pc = "idle" /\ \A e \in ElementType : setter[e] = "idle"

\* Once no call is under way, sortedElements holds the elements of the set once each,
\* by descending weight and, if they can be compared, the greater of two equally heavy
\* ones first, and the heaviest and the lightest element are its ends, however the
\* changes of weights and of the set were interleaved.
SortedByWeight ==
    Quiet =>
        /\ ToSet(sortedElements) = members /\ Len(sortedElements) = Cardinality(members)
        /\ \A e \in members : weight[e] = weightVariable[e]
        /\ \A i \in 1 .. (Len(sortedElements) - 1) :
              LET e == sortedElements[i]
                  f == sortedElements[i + 1]
              IN weight[e] > weight[f] \/ (weight[e] = weight[f] /\ (Lessable => e > f))
        /\ IF members = {} THEN heaviestElement = None /\ lightestElement = None
           ELSE heaviestElement = sortedElements[1] /\ lightestElement = Last(sortedElements)

\* At most one call at a time is where sortedElements is changed: what the comment of
\* mutex says.
Synchronized ==
    LET inside == {e \in ElementType : setter[e] = "update"} \cup
                  (IF call.pc \in {"initial", "shift"} THEN {Caller} ELSE {})
    IN Cardinality(inside) <= 1

\* No call waits for a lock that is never released.
NeverStuck == Quiet \/ ENABLED Next
=============================================================================
