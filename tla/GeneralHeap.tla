---------------------------- MODULE GeneralHeap ----------------------------
(***************************************************************************)
(* ds/generalheap, the slice behind timed.Queue and PriorityQueue, under   *)
(* the algorithms of Go's container/heap.  A heap is a sequence of         *)
(* elements; key[e] is the key of e.  Positions are 1-based, and the       *)
(* position of an element stands for its index field (-1: not in h).       *)
(***************************************************************************)
EXTENDS Integers, SequencesExt

\* Heap.Less and Heap.Swap.
Less(key, h, i, j) == key[h[i]] < key[h[j]]
Swap(h, i, j) == [h EXCEPT ![i] = h[j], ![j] = h[i]]

\* container/heap: move the element at j towards the root, at i towards the
\* leaves of the first n positions.
RECURSIVE Up(_, _, _)
Up(key, h, j) ==
    LET parent == j \div 2
    IN  IF j = 1 \/ ~Less(key, h, j, parent) THEN h ELSE Up(key, Swap(h, parent, j), parent)

RECURSIVE Down(_, _, _, _)
Down(key, h, i, n) ==
    LET left  == 2 * i
        child == IF left < n /\ Less(key, h, left + 1, left) THEN left + 1 ELSE left
    IN  IF left > n \/ ~Less(key, h, child, i) THEN h ELSE Down(key, Swap(h, i, child), child, n)

HeapPush(key, h, e) == Up(key, Append(h, e), Len(h) + 1)

\* heap.Pop returns the element at the root: this is the heap it leaves.
HeapPopMutant(key, h) == Front(Swap(h, 1, Len(h)))
HeapPop(key, h) == LET n == Len(h) IN Front(Down(key, Swap(h, 1, n), 1, n - 1))

HeapRemove(key, h, i) ==
    LET n    == Len(h)
        swapped == Swap(h, i, n)
        down == Down(key, swapped, i, n - 1)
    IN  IF i = n THEN Front(h)
        ELSE Front(IF down = swapped THEN Up(key, swapped, i) ELSE down)

IndexOf(h, e) == IF e \in Range(h) THEN CHOOSE i \in DOMAIN h : h[i] = e ELSE -1

\* The order every heap operation must leave: no element before its parent.
IsHeap(key, h) == \A i \in 2 .. Len(h) : ~Less(key, h, i, i \div 2)
=============================================================================
