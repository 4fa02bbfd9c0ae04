--------------------------- MODULE PriorityQueue ---------------------------
(***************************************************************************)
(* ds/priorityqueue and the two orders timed.NewPriorityQueue gives it.    *)
(* Every method is one critical section of the mutex, so one step; the     *)
(* remove function that Push returns can be called at any later time.      *)
(***************************************************************************)
EXTENDS GeneralHeap, FiniteSets

CONSTANTS
    Elements,   \* each is pushed once
    Times,      \* the times of elements: a finite set of naturals
    Ascending   \* timeAscending or timeDescending as the priority
AscendingAssumption == Ascending \in BOOLEAN

VARIABLES
    heap, at,   \* the heap; the time of every element pushed
    pushed,     \* elements pushed so far
    result      \* what the last call returned: a sequence of elements
vars == <<heap, at, pushed, result>>

\* timeAscending.CompareTo is the order of times, timeDescending.CompareTo its
\* reverse: a priority is a number and CompareTo is the order of numbers.
Priority(t) == IF Ascending THEN t ELSE -t
key == [e \in Elements |-> Priority(at[e])]

Init == heap = <<>> /\ pushed = {} /\ result = <<>> /\ at = [e \in Elements |-> 0]

Push(e, t) ==
    /\ e \notin pushed
    /\ at' = [at EXCEPT ![e] = t]
    /\ heap' = HeapPush(key', heap, e) /\ pushed' = pushed \cup {e} /\ result' = <<>>

\* The function returned by Push: nothing happens if the element has left.
remove(e) ==
    /\ e \in pushed
    /\ heap' = IF IndexOf(heap, e) = -1 THEN heap ELSE HeapRemove(key, heap, IndexOf(heap, e))
    /\ result' = <<>> /\ UNCHANGED <<at, pushed>>

Pop ==
    /\ heap' = IF heap = <<>> THEN heap ELSE HeapPop(key, heap)
    /\ result' = IF heap = <<>> THEN <<>> ELSE <<heap[1]>>
    /\ UNCHANGED <<at, pushed>>

\* The loop of PopUntil: what is popped, followed by what is left.
RECURSIVE PopLoop(_, _, _)
PopLoop(h, p, out) ==
    IF h = <<>> \/ key[h[1]] > p THEN <<out, h>>
    ELSE PopLoop(HeapPop(key, h), p, Append(out, h[1]))
PopWhile(h, p) == PopLoop(h, p, <<>>)

PopUntil(t) ==
    /\ result' = PopWhile(heap, Priority(t))[1] /\ heap' = PopWhile(heap, Priority(t))[2]
    /\ UNCHANGED <<at, pushed>>

Highest == CHOOSE p \in {key[e] : e \in Elements} : \A e \in Elements : key[e] <= p
PopAll ==
    /\ result' = PopWhile(heap, Highest)[1] /\ heap' = <<>>
    /\ UNCHANGED <<at, pushed>>

Next ==
    \/ \E e \in Elements : remove(e) \/ \E t \in Times : Push(e, t)
    \/ Pop \/ PopAll \/ \E t \in Times : PopUntil(t)
Spec == Init /\ [][Next]_vars

\* A batch comes out in the order of the queue, oldest first in an ascending one
\* and newest first in a descending one, and nothing that is left in the queue
\* precedes what was taken, whatever was pushed, popped and removed before: the
\* indices by which the remove functions of Push find their elements stay right.
ServedInOrder ==
    /\ IsHeap(key, heap)
    /\ \A i \in 2 .. Len(result) :
        IF Ascending THEN at[result[i - 1]] <= at[result[i]] ELSE at[result[i - 1]] >= at[result[i]]
    /\ \A i \in DOMAIN result, j \in DOMAIN heap :
        IF Ascending THEN at[result[i]] <= at[heap[j]] ELSE at[result[i]] >= at[heap[j]]
=============================================================================
