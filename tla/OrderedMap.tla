----------------------------- MODULE OrderedMap -----------------------------
(***************************************************************************)
(* ds/orderedmap: a dictionary whose entries form a doubly linked list in  *)
(* the order of their insertion.  ForEach and ForEachReverse hold the      *)
(* mutex only while they go from one element to the next, so that other    *)
(* goroutines, or the consumer itself, change the map between two visits:  *)
(* an iterator may stand on an element that was deleted, and goes on along *)
(* the pointers that element was left with.                                *)
(*                                                                         *)
(* Elements are numbered in the order in which they are allocated; 0 is    *)
(* nil.  Delete looks the key up once before and once after it takes the   *)
(* mutex; the second lookup decides, so it is one step.                    *)
(***************************************************************************)
EXTENDS Integers, Sequences, FiniteSets, SequencesExt

CONSTANTS
    Keys, Values,
    Iterators,     \* calls of ForEach and ForEachReverse
    MaxElements    \* bound: number of elements allocated
OrderedMapAssumption == MaxElements \in Nat

Element == 1 .. MaxElements
nil == 0

VARIABLES
    head, tail, dictionary, size,
    heap,       \* the elements: key, value, next, prev
    allocated,
    iter,       \* per iterator: where it is
    order       \* reference: the entries <<key, value>> in their order

mapVars == <<head, tail, dictionary, size, heap, allocated, order>>
vars == <<mapVars, iter>>

Idle == [pc |-> "idle", at |-> nil, forward |-> TRUE, stayed |-> {}, visited |-> <<>>]

TypeOK ==
    /\ {head, tail} \subseteq Element \cup {nil} /\ allocated \in 0 .. MaxElements
    /\ DOMAIN dictionary \subseteq Keys /\ \A k \in DOMAIN dictionary : dictionary[k] \in Element
    /\ \A i \in Iterators : iter[i].pc \in {"idle", "consumer", "step", "done"}
                            /\ iter[i].at \in Element \cup {nil}

Init ==  \* New
    /\ head = nil /\ tail = nil /\ dictionary = <<>> /\ size = 0
    /\ heap = [e \in Element |-> [key |-> nil, value |-> nil, next |-> nil, prev |-> nil]]
    /\ allocated = 0 /\ order = <<>>
    /\ iter = [i \in Iterators |-> Idle]

\* ------------------------------------------------------------ the operations
Link(from, field, to) == [heap EXCEPT ![from] = [@ EXCEPT ![field] = to]]

Set(k, v) ==
    /\ UNCHANGED iter
    /\ IF k \in DOMAIN dictionary
       THEN /\ heap' = Link(dictionary[k], "value", v)
            /\ order' = [n \in DOMAIN order |-> IF order[n][1] = k THEN <<k, v>> ELSE order[n]]
            /\ UNCHANGED <<head, tail, dictionary, size, allocated>>
       ELSE LET new == allocated + 1 IN
            /\ new \in Element /\ allocated' = new
            /\ heap' = [e \in Element |->
                  IF e = new THEN [key |-> k, value |-> v, next |-> nil, prev |-> tail]
                  ELSE IF e = tail THEN [heap[e] EXCEPT !.next = new] ELSE heap[e]]
            /\ head' = IF head = nil THEN new ELSE head
            /\ tail' = new /\ size' = size + 1
            /\ dictionary' = [j \in DOMAIN dictionary \cup {k} |-> IF j = k THEN new ELSE dictionary[j]]
            /\ order' = Append(order, <<k, v>>)

\* An entry that is deleted no longer stays for the iterations that are under way.
Leaves(gone) == iter' = [i \in Iterators |-> [iter[i] EXCEPT !.stayed = @ \ gone]]

\* Mutant: an element that is deleted is detached as well.
UnlinkMutant(e) ==
    [n \in Element |->
        [heap[n] EXCEPT !.next = IF n = e THEN nil ELSE IF n = heap[e].prev THEN heap[e].next ELSE @,
                        !.prev = IF n = heap[e].next THEN heap[e].prev ELSE @]]
Unlink(e) ==
    [n \in Element |->
        [heap[n] EXCEPT !.next = IF n = heap[e].prev THEN heap[e].next ELSE @,
                        !.prev = IF n = heap[e].next THEN heap[e].prev ELSE @]]

Delete(k) ==
    /\ k \in DOMAIN dictionary
    /\ LET e == dictionary[k] IN
       /\ dictionary' = [j \in DOMAIN dictionary \ {k} |-> dictionary[j]] /\ size' = size - 1
       /\ heap' = Unlink(e)
       /\ head' = IF heap[e].prev = nil THEN heap[e].next ELSE head
       /\ tail' = IF heap[e].next = nil THEN heap[e].prev ELSE tail
       /\ Leaves({e})
    /\ order' = SelectSeq(order, LAMBDA entry : entry[1] # k)
    /\ UNCHANGED allocated

\* The elements keep their pointers.
Clear ==
    /\ head # nil
    /\ head' = nil /\ tail' = nil /\ size' = 0 /\ dictionary' = <<>>
    /\ Leaves(Element) /\ order' = <<>>
    /\ UNCHANGED <<heap, allocated>>

\* --------------------------------------------------------------- iterations
Present == {dictionary[k] : k \in DOMAIN dictionary}

\* Takes the first (the last) element; "stayed" is what is there from now on.
ForEach(i, forward) ==
    /\ iter[i].pc = "idle"
    /\ LET first == IF forward THEN head ELSE tail IN
       iter' = [iter EXCEPT ![i] = [pc |-> IF first = nil THEN "done" ELSE "consumer", at |-> first,
                                    forward |-> forward, stayed |-> Present, visited |-> <<>>]]
    /\ UNCHANGED mapVars

\* consumer(key, value), which does not abort the iteration.
Consume(i) ==
    /\ iter[i].pc = "consumer"
    /\ iter' = [iter EXCEPT ![i].pc = "step", ![i].visited = Append(@, iter[i].at)]
    /\ UNCHANGED mapVars

GoOn(i) ==
    /\ iter[i].pc = "step"
    /\ LET e == iter[i].at
           next == IF iter[i].forward THEN heap[e].next ELSE heap[e].prev
       IN iter' = [iter EXCEPT ![i].at = next, ![i].pc = IF next = nil THEN "done" ELSE "consumer"]
    /\ UNCHANGED mapVars

\* Clone, under one RLock: the entries in the order of the chain.
Chain[e \in Element \cup {nil}, forward \in BOOLEAN, fuel \in 0 .. MaxElements] ==
    IF e = nil \/ fuel = 0 THEN <<>>
    ELSE <<e>> \o Chain[IF forward THEN heap[e].next ELSE heap[e].prev, forward, fuel - 1]
Clone == [n \in DOMAIN Chain[head, TRUE, MaxElements] |->
             LET e == Chain[head, TRUE, MaxElements][n] IN <<heap[e].key, heap[e].value>>]

Next ==
    \/ \E k \in Keys : Delete(k) \/ \E v \in Values : Set(k, v)
    \/ Clear
    \/ \E i \in Iterators : \/ \E forward \in BOOLEAN : ForEach(i, forward)
                            \/ Consume(i) \/ GoOn(i)

Spec == Init /\ [][Next]_vars

\* ---------------------------------------------------------------- properties
\* Dictionary, chain and size are one ordered map: forwards and backwards the chain
\* holds the elements of the dictionary once each, in the order of their insertion,
\* with the values last set, and Size, Head and Tail tell the same.
MapAgrees ==
    /\ Clone = order
    /\ Chain[tail, FALSE, MaxElements] = Reverse(Chain[head, TRUE, MaxElements])
    /\ DOMAIN dictionary = {entry[1] : entry \in ToSet(order)}
    /\ \A k \in DOMAIN dictionary : heap[dictionary[k]].key = k
    /\ size = Len(order) /\ Cardinality(Present) = size

\* An iteration that is over has called the consumer exactly once with each entry that
\* was in the map from its start to its end, in the order of the map, whatever was
\* set, deleted or cleared meanwhile, the element it stood on included.
VisitsAll ==
    \A i \in Iterators :
        LET seen == SelectSeq(iter[i].visited, LAMBDA e : e \in iter[i].stayed) IN
        iter[i].pc = "done" =>
            /\ ToSet(seen) = iter[i].stayed /\ Len(seen) = Cardinality(iter[i].stayed)
            /\ \A m, n \in DOMAIN seen : m < n => (seen[m] < seen[n]) = iter[i].forward
=============================================================================
