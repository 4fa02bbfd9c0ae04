------------------------- MODULE ReactiveWaitGroup -------------------------
(***************************************************************************)
(* ds/reactive/wait_group_impl.go: a set of pending elements next to an    *)
(* atomic counter of them, which Add raises before and Done lowers after   *)
(* the set is changed.  Each call is a goroutine of its own.               *)
(***************************************************************************)
EXTENDS Integers, FiniteSets, Sequences, Functions

CONSTANTS
    Adds, Dones,  \* the calls of Add and of Done
    Args          \* Args[c]: the elements given to call c, a sequence
ArgsAssumption == DOMAIN Args = Adds \cup Dones /\ Adds \cap Dones = {}
                  /\ \A c \in DOMAIN Args : Args[c] # <<>>

Calls == Adds \cup Dones
Elements == UNION {Range(Args[c]) : c \in Calls}

VARIABLES
    pendingElements, pendingElementsCounter, triggered,
    pc, next,  \* per call: location, position in its arguments
    removed    \* history: an element was marked as done
vars == <<pendingElements, pendingElementsCounter, triggered, pc, next, removed>>

Init ==
    /\ pendingElements = {} /\ pendingElementsCounter = 0 /\ triggered = FALSE /\ removed = FALSE
    /\ pc = [c \in Calls |-> "new"] /\ next = [c \in Calls |-> 1]

Goto(c, l) == pc' = [pc EXCEPT ![c] = l]
Element(c) == Args[c][next[c]]
Following(c) == IF next[c] = Len(Args[c]) THEN "done" ELSE "loop"

\* Mutant: the counter is not raised.
AddCountsMutant(c) ==
    /\ pc[c] = "new" /\ Goto(c, "loop")
    /\ UNCHANGED <<pendingElements, pendingElementsCounter, triggered, next, removed>>
AddCounts(c) ==
    /\ pc[c] = "new" /\ Goto(c, "loop")
    /\ pendingElementsCounter' = pendingElementsCounter + Len(Args[c])
    /\ UNCHANGED <<pendingElements, triggered, next, removed>>

AddElement(c) ==
    /\ pc[c] = "loop" /\ pendingElements' = pendingElements \cup {Element(c)}
    /\ IF Element(c) \in pendingElements THEN Goto(c, "correct") /\ UNCHANGED next
       ELSE Goto(c, Following(c)) /\ next' = [next EXCEPT ![c] = @ + 1]
    /\ UNCHANGED <<pendingElementsCounter, triggered, removed>>

AddCorrects(c) ==
    /\ pc[c] = "correct" /\ pendingElementsCounter' = pendingElementsCounter - 1
    /\ Goto(c, Following(c)) /\ next' = [next EXCEPT ![c] = @ + 1]
    /\ UNCHANGED <<pendingElements, triggered, removed>>

DoneDeletes(c) ==
    /\ pc[c] \in {"new", "loop"} /\ pendingElements' = pendingElements \ {Element(c)}
    /\ IF Element(c) \in pendingElements THEN Goto(c, "decrement") /\ removed' = TRUE /\ UNCHANGED next
       ELSE Goto(c, Following(c)) /\ next' = [next EXCEPT ![c] = @ + 1] /\ UNCHANGED removed
    /\ UNCHANGED <<pendingElementsCounter, triggered>>

\* Add(-1) == 0 decides; Trigger() is the next step.
\* Mutant: off by one.
DoneDecrementsMutant(c) ==
    /\ pc[c] = "decrement" /\ pendingElementsCounter' = pendingElementsCounter - 1
    /\ IF pendingElementsCounter' <= 1 THEN Goto(c, "trigger") /\ UNCHANGED next
       ELSE Goto(c, Following(c)) /\ next' = [next EXCEPT ![c] = @ + 1]
    /\ UNCHANGED <<pendingElements, triggered, removed>>
DoneDecrements(c) ==
    /\ pc[c] = "decrement" /\ pendingElementsCounter' = pendingElementsCounter - 1
    /\ IF pendingElementsCounter' = 0 THEN Goto(c, "trigger") /\ UNCHANGED next
       ELSE Goto(c, Following(c)) /\ next' = [next EXCEPT ![c] = @ + 1]
    /\ UNCHANGED <<pendingElements, triggered, removed>>

DoneTriggers(c) ==
    /\ pc[c] = "trigger" /\ triggered' = TRUE
    /\ Goto(c, Following(c)) /\ next' = [next EXCEPT ![c] = @ + 1]
    /\ UNCHANGED <<pendingElements, pendingElementsCounter, removed>>

Next ==
    \/ \E c \in Adds : AddCounts(c) \/ AddElement(c) \/ AddCorrects(c)
    \/ \E c \in Dones : DoneDeletes(c) \/ DoneDecrements(c) \/ DoneTriggers(c)
Spec == Init /\ [][Next]_vars

\* ---------------------------------------------------------------- properties
\* Elements the calls of Add have counted and not yet put into the set.
Announced(c) == IF pc[c] \in {"loop", "correct"} THEN Len(Args[c]) - next[c] + 1 ELSE 0

\* The group is not triggered while an element is pending, or announced, that was
\* so before the last decrement: the step that decides to trigger sees no element.
NeverEarly ==
    [][\A c \in Dones : pc[c] = "decrement" /\ pc'[c] = "trigger"
            => pendingElements = {} /\ \A a \in Adds : Announced(a) = 0]_vars

\* Done "triggers the wait group if all elements are done": with no call under way,
\* elements removed and none pending, the event was triggered.
AllDoneTriggers ==
    removed /\ pendingElements = {} /\ (\A c \in Calls : pc[c] \in {"new", "done"})
        => triggered
=============================================================================
