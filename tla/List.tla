-------------------------------- MODULE List --------------------------------
(***************************************************************************)
(* ds.List: the doubly linked list with a sentinel.  Each operation is one *)
(* step; the wrapper that takes a lock around it is not modelled.          *)
(*                                                                         *)
(* The sentinel of a list is the list itself.  order is the reference: the *)
(* elements of each list as a sequence.  A caller may keep an element it   *)
(* removed and pass it again, but not one that Init dropped: Init leaves   *)
(* it marked as an element of the list.                                    *)
(***************************************************************************)
EXTENDS Integers, Sequences, SequencesExt

CONSTANTS Lists, Nodes, Values, Nil

VARIABLES heap,     \* next, prev and list of the elements, their value, and len of the lists
          order, dropped,
          last      \* the last call, if it moves one element relative to another

vars == <<heap, order, dropped, last>>

All == Lists \cup Nodes

TypeOK == /\ heap.next \in [All -> All \cup {Nil}] /\ heap.prev \in [All -> All \cup {Nil}]
          /\ heap.list \in [Nodes -> Lists \cup {Nil}]
          /\ heap.len \in [Lists -> 0 .. Cardinality(Nodes)]

Init == /\ heap = [next |-> [x \in All |-> IF x \in Lists THEN x ELSE Nil],
                   prev |-> [x \in All |-> IF x \in Lists THEN x ELSE Nil],
                   list |-> [n \in Nodes |-> Nil], value |-> [n \in Nodes |-> Nil],
                   len |-> [l \in Lists |-> 0]]
        /\ order = [l \in Lists |-> <<>>]
        /\ dropped = {}
        /\ last = Nil

Fresh(h) == {n \in Nodes : h.value[n] = Nil}

NewElement(h) == CHOOSE n \in Fresh(h) : TRUE

Held == {n \in Nodes : heap.value[n] # Nil} \ dropped


insert(h, e, at, l) ==
    LET after == h.next[at]
    IN  [h EXCEPT !.prev[e] = at, !.next[e] = after, !.next[at] = e, !.prev[after] = e,
                  !.list[e] = l, !.len[l] = @ + 1]

insertValue(h, e, v, at, l) == insert([h EXCEPT !.value[e] = v], e, at, l)

remove(h, e, l) ==
    [h EXCEPT !.next[h.prev[e]] = h.next[e], !.prev[h.next[e]] = h.prev[e],
              !.next[e] = Nil, !.prev[e] = Nil, !.list[e] = Nil, !.len[l] = @ - 1]

move(h, e, at) ==
    LET cut == [h EXCEPT !.next[h.prev[e]] = h.next[e], !.prev[h.next[e]] = h.prev[e]]
        after == cut.next[at]
    IN  IF e = at THEN h
        ELSE [cut EXCEPT !.prev[e] = at, !.next[e] = after, !.next[at] = e, !.prev[after] = e]

FrontOf(h, l) == IF h.len[l] = 0 THEN Nil ELSE h.next[l]

BackOf(h, l) == IF h.len[l] = 0 THEN Nil ELSE h.prev[l]

NextOf(h, e) == IF h.list[e] # Nil /\ h.next[e] # h.list[e] THEN h.next[e] ELSE Nil

PrevOf(h, e) == IF h.list[e] # Nil /\ h.prev[e] # h.list[e] THEN h.prev[e] ELSE Nil

(* Range and RangeReverse: the elements from one on, until there is none *)
Walk(from, step) ==
    FoldLeft(LAMBDA acc, i : IF acc.at = Nil THEN acc
                             ELSE [seen |-> Append(acc.seen, acc.at), at |-> step[acc.at]],
             [seen |-> <<>>, at |-> from], [i \in 1 .. Cardinality(Nodes) + 1 |-> i])

ElementsOf(l) == {order[l][i][1] : i \in DOMAIN order[l]}

Without(s, e) == SelectSeq(s, LAMBDA x : x[1] # e)

IndexIn(s, e) == CHOOSE i \in DOMAIN s : s[i][1] = e

Clear(l) ==
    /\ heap' = [heap EXCEPT !.next[l] = l, !.prev[l] = l, !.len[l] = 0]
    /\ order' = [order EXCEPT ![l] = <<>>]
    /\ dropped' = dropped \cup ElementsOf(l)
    /\ last' = Nil

PushFront(l, v) ==
    LET e == NewElement(heap)
    IN  /\ Fresh(heap) # {}
        /\ heap' = insertValue(heap, e, v, l, l)
        /\ order' = [order EXCEPT ![l] = <<<<e, v>>>> \o @]
        /\ last' = Nil /\ UNCHANGED dropped

PushBack(l, v) ==
    LET e == NewElement(heap)
    IN  /\ Fresh(heap) # {}
        /\ heap' = insertValue(heap, e, v, heap.prev[l], l)
        /\ order' = [order EXCEPT ![l] = Append(@, <<e, v>>)]
        /\ last' = Nil /\ UNCHANGED dropped

RemoveFrom(l, e) ==
    /\ e \in Held
    /\ heap' = IF heap.list[e] = l THEN remove(heap, e, l) ELSE heap
    /\ order' = [order EXCEPT ![l] = Without(@, e)]
    /\ last' = Nil /\ UNCHANGED dropped

(* an element that is not in the list is no position: nothing is inserted *)
InsertBefore(l, v, position) ==
    LET e == NewElement(heap)
    IN  /\ Fresh(heap) # {} /\ position \in Held
        /\ IF heap.list[position] # l THEN UNCHANGED <<heap, order>>
           ELSE /\ heap' = insertValue(heap, e, v, heap.prev[position], l)
                /\ order' = [order EXCEPT ![l] = InsertAt(@, IndexIn(@, position), <<e, v>>)]
        /\ last' = Nil /\ UNCHANGED dropped

InsertAfter(l, v, position) ==
    LET e == NewElement(heap)
    IN  /\ Fresh(heap) # {} /\ position \in Held
        /\ IF heap.list[position] # l THEN UNCHANGED <<heap, order>>
           ELSE /\ heap' = insertValue(heap, e, v, position, l)
                /\ order' = [order EXCEPT ![l] = InsertAt(@, IndexIn(@, position) + 1, <<e, v>>)]
        /\ last' = Nil /\ UNCHANGED dropped

MoveToFront(l, e) ==
    /\ e \in Held /\ heap.list[e] = l
    /\ heap' = IF heap.next[l] = e THEN heap ELSE move(heap, e, l)
    /\ order' = [order EXCEPT ![l] = <<<<e, heap.value[e]>>>> \o Without(@, e)]
    /\ last' = Nil /\ UNCHANGED dropped

MoveToBack(l, e) ==
    /\ e \in Held /\ heap.list[e] = l
    /\ heap' = IF heap.prev[l] = e THEN heap ELSE move(heap, e, heap.prev[l])
    /\ order' = [order EXCEPT ![l] = Append(Without(@, e), <<e, heap.value[e]>>)]
    /\ last' = Nil /\ UNCHANGED dropped

(* The position is taken from the element itself, not from the argument: the
   element is put back where it was. *)
MoveBefore(l, e, position) ==
    /\ {e, position} \subseteq Held /\ heap.list[e] = l /\ e # position
    /\ heap' = move(heap, e, heap.prev[e])
    /\ last' = [op |-> "before", e |-> e, position |-> position]
    /\ UNCHANGED <<order, dropped>>

MoveAfter(l, e, position) ==
    /\ {e, position} \subseteq Held /\ heap.list[e] = l /\ e # position
    /\ heap' = move(heap, e, e)
    /\ last' = [op |-> "after", e |-> e, position |-> position]
    /\ UNCHANGED <<order, dropped>>

(* The loop of PushBackList and, from the back, of PushFrontList: as many
   elements as the other list has when it starts, which may be this list. *)
CopyLoop(l, from, toBack, n) ==
    FoldLeft(LAMBDA acc, i :
               LET e == NewElement(acc.h)
               IN  [h |-> insertValue(acc.h, e, acc.h.value[acc.from],
                                      IF toBack THEN acc.h.prev[l] ELSE l, l),
                    from |-> IF toBack THEN NextOf(acc.h, acc.from) ELSE PrevOf(acc.h, acc.from), new |-> Append(acc.new, e)],
             [h |-> heap, from |-> from, new |-> <<>>], [i \in 1 .. n |-> i])

(* new elements with the values of another list *)
Copies(new, other) == [i \in DOMAIN new |-> <<new[i], order[other][i][2]>>]

PushBackList(l, other) ==
    LET loop == CopyLoop(l, FrontOf(heap, other), TRUE, heap.len[other])
    IN  /\ heap.len[other] <= Cardinality(Fresh(heap))
        /\ heap' = loop.h
        /\ order' = [order EXCEPT ![l] = @ \o Copies(loop.new, other)]
        /\ last' = Nil /\ UNCHANGED dropped

PushFrontList(l, other) ==
    LET loop == CopyLoop(l, BackOf(heap, other), FALSE, heap.len[other])
    IN  /\ heap.len[other] <= Cardinality(Fresh(heap))
        /\ heap' = loop.h
        /\ order' = [order EXCEPT ![l] = Copies(Reverse(loop.new), other) \o @]
        /\ last' = Nil /\ UNCHANGED dropped

Next == \E l \in Lists :
            \/ Clear(l)
            \/ \E v \in Values :
                 \/ PushFront(l, v) \/ PushBack(l, v)
                 \/ \E p \in Nodes : InsertBefore(l, v, p) \/ InsertAfter(l, v, p)
            \/ \E e \in Nodes : RemoveFrom(l, e) \/ MoveToFront(l, e) \/ MoveToBack(l, e)
            \/ \E e, p \in Nodes : MoveBefore(l, e, p) \/ MoveAfter(l, e, p)
            \/ \E other \in Lists : PushBackList(l, other) \/ PushFrontList(l, other)

Spec == Init /\ [][Next]_vars

(* Both directions of every list give its elements and values in order, Len
   counts them, and an element that was removed belongs to no list. *)
ListAgrees ==
    \A l \in Lists :
        LET seen == Walk(FrontOf(heap, l), [e \in Nodes |-> NextOf(heap, e)]).seen
        IN  /\ [i \in DOMAIN seen |-> <<seen[i], heap.value[seen[i]]>>] = order[l]
            /\ Walk(BackOf(heap, l), [e \in Nodes |-> PrevOf(heap, e)]).seen = Reverse(seen)
            /\ heap.len[l] = Len(order[l])
            /\ \A e \in Held : heap.list[e] = l <=> e \in ElementsOf(l)

(* MoveBefore and MoveAfter move the element next to the position. *)
MovesNextToPosition ==
    last # Nil /\ heap.list[last.e] = heap.list[last.position] =>
        CASE last.op = "before" -> heap.next[last.e] = last.position
          [] last.op = "after" -> heap.next[last.position] = last.e
=============================================================================
