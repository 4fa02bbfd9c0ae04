----------------------------- MODULE Containers -----------------------------
(***************************************************************************)
(* ds and core/memstorage: the containers whose methods are one critical   *)
(* section each, side by side with a reference that says what they hold.   *)
(* A behaviour uses one container: c is its state, ref the reference, got  *)
(* what the last call returned and want what the reference returns.        *)
(***************************************************************************)
EXTENDS Integers, Sequences, FiniteSets, SequencesExt, FiniteSetsExt, Functions

CONSTANTS
    Kinds,          \* the containers a behaviour starts from
    Keys, Values, Nil,
    Capacity,       \* of Queue, RingBuffer and BytesFilter
    Ratio, Count,   \* thresholds of ShrinkingMap
    MaxDeleted,     \* bound: deletions a ShrinkingMap counts
    MaxEntries,     \* bound: entries of Walker and TimeHeap, storages of IndexedStorage
    MaxTime         \* bound: TimeHeap's clock
ContainersAssumption ==
    {Capacity, MaxDeleted, MaxEntries, MaxTime} \subseteq Nat /\ Capacity > 0 /\ {Ratio, Count} \subseteq Nat

VARIABLES c, ref, got, want
vars == <<c, ref, got, want>>

Empty == <<>>
Put(m, k, v) == [j \in DOMAIN m \cup {k} |-> IF j = k THEN v ELSE m[j]]
Drop(m, k) == Restrict(m, DOMAIN m \ {k})

Returns(new, newRef, result, expected) ==
    c' = new /\ ref' = newRef /\ got' = result /\ want' = expected

\* --------------------------------------------------------------- queue.Queue
NewQueue == [kind |-> "Queue", ring |-> [i \in 0 .. Capacity - 1 |-> Nil],
             read |-> 0, write |-> 0, size |-> 0]

\* Mutant: the write position is taken from the size.
putMutant(q, e) == [q EXCEPT !.ring[q.size] = e, !.write = (@ + 1) % Capacity, !.size = @ + 1]
put(q, e) == [q EXCEPT !.ring[q.write] = e, !.write = (@ + 1) % Capacity, !.size = @ + 1]
poll(q) ==
    IF q.size = 0 THEN q
    ELSE [q EXCEPT !.ring[q.read] = Nil, !.read = (@ + 1) % Capacity, !.size = @ - 1]
Polled(q) == IF q.size = 0 THEN Nil ELSE q.ring[q.read]
Oldest(s) == IF s = <<>> THEN Nil ELSE s[1]
Rest(s) == IF s = <<>> THEN <<>> ELSE Tail(s)

Offer(e) ==
    /\ c.kind = "Queue"
    /\ IF c.size = Capacity THEN Returns(c, ref, FALSE, Len(ref) < Capacity)
       ELSE Returns(put(c, e), Append(ref, e), TRUE, Len(ref) < Capacity)
ForceOffer(e) ==
    /\ c.kind = "Queue"
    /\ LET full == c.size = Capacity IN
       Returns(put(IF full THEN poll(c) ELSE c, e),
               Append(IF Len(ref) = Capacity THEN Tail(ref) ELSE ref, e),
               IF full THEN Polled(c) ELSE Nil, IF Len(ref) = Capacity THEN ref[1] ELSE Nil)
Poll == c.kind = "Queue" /\ Returns(poll(c), Rest(ref), Polled(c), Oldest(ref))

\* ------------------------------------------------------ ringbuffer.RingBuffer
NewRingBuffer == [kind |-> "RingBuffer", buffer |-> [i \in 0 .. Capacity - 1 |-> Nil],
                  pos |-> 0, size |-> 0]
ToSlice(r) == [j \in 1 .. r.size |-> r.buffer[(r.pos - j + Capacity) % Capacity]]

\* The reference keeps the last elements added, the newest first.
AddToBuffer(e) ==
    /\ c.kind = "RingBuffer"
    /\ LET new == [c EXCEPT !.buffer[c.pos] = e, !.pos = (@ + 1) % Capacity,
                            !.size = IF @ < Capacity THEN @ + 1 ELSE @]
           newRef == SubSeq(<<e>> \o ref, 1, Min({Capacity, Len(ref) + 1}))
       IN Returns(new, newRef, ToSlice(new), newRef)

\* ---------------------------------------------------- bytesfilter.BytesFilter
NewBytesFilter == [kind |-> "BytesFilter", known |-> {}, identifiers |-> <<>>]

\* The reference: the last Capacity identifiers that were added.
addIdentifier(k) ==
    /\ c.kind = "BytesFilter"
    /\ LET full == Len(c.identifiers) = Capacity
           ids == Append(IF full THEN Tail(c.identifiers) ELSE c.identifiers, k)
           newRef == Append(IF Len(ref) = Capacity THEN Tail(ref) ELSE ref, k)
       IN IF k \in c.known THEN Returns(c, ref, FALSE, k \notin ToSet(ref))
          ELSE Returns([c EXCEPT !.identifiers = ids,
                                 !.known = (@ \ (IF full THEN {c.identifiers[1]} ELSE {})) \cup {k}],
                       newRef, TRUE, k \notin ToSet(ref))

\* ------------------------------------------------------- randommap.RandomMap
\* An entry is the value and the position of the key in keys; positions from 0.
NewRandomMap == [kind |-> "RandomMap", rawMap |-> Empty, keys |-> <<>>]

SetInRandomMap(k, v) ==
    /\ c.kind = "RandomMap"
    /\ LET new == IF k \in DOMAIN c.rawMap THEN [c EXCEPT !.rawMap[k].value = v]
                  ELSE [c EXCEPT !.rawMap = Put(@, k, [value |-> v, keyIndex |-> Cardinality(DOMAIN @)]),
                                 !.keys = Append(@, k)]
       IN Returns(new, Put(ref, k, v), Nil, Nil)

\* The last key is moved to the place of the deleted one.
\* Mutant: the entry of the moved key keeps its position.
MovedMutant(r, old) ==
    [r EXCEPT !.keys = SubSeq([@ EXCEPT ![old + 1] = r.keys[Len(r.keys)]], 1, Len(r.keys) - 1)]
Moved(r, old) ==
    [r EXCEPT !.rawMap[r.keys[Len(r.keys)]].keyIndex = old,
              !.keys = SubSeq([@ EXCEPT ![old + 1] = r.keys[Len(r.keys)]], 1, Len(r.keys) - 1)]
DeleteFromRandomMap(k) ==
    /\ c.kind = "RandomMap"
    /\ IF k \notin DOMAIN c.rawMap THEN Returns(c, ref, Nil, IF k \in DOMAIN ref THEN ref[k] ELSE Nil)
       ELSE LET entry == c.rawMap[k]
                moved == IF entry.keyIndex # Len(c.keys) THEN Moved(c, entry.keyIndex)
                         ELSE [c EXCEPT !.keys = Front(@)]
            IN Returns([moved EXCEPT !.rawMap = Drop(@, k)], Drop(ref, k), entry.value, ref[k])

\* What RandomKey and RandomEntry choose from, and RandomUniqueEntries for each choice
\* of positions: the values are those of different entries.
RandomKeys(r) == {r.keys[i] : i \in 1 .. Cardinality(DOMAIN r.rawMap)}
RandomUnique(r, count) ==
    {[i \in positions |-> r.keys[i]] :
        positions \in kSubset(Min({count, Len(r.keys)}), DOMAIN r.keys)}

\* -------------------------------------------------- shrinkingmap.ShrinkingMap
NewShrinkingMap == [kind |-> "ShrinkingMap", m |-> Empty, deletedKeys |-> 0]

\* Mutant: the number of entries is not looked at.
shouldShrinkMutant(s) == (Ratio # 0 \/ Count # 0) /\ (Count # 0 => s.deletedKeys >= Count)
shouldShrink(s) ==
    LET size == Cardinality(DOMAIN s.m) IN
    /\ Ratio # 0 \/ Count # 0
    /\ Ratio # 0 => size # 0 /\ s.deletedKeys >= Ratio * size
    /\ Count # 0 => s.deletedKeys >= Count

shrink(s) == [s EXCEPT !.deletedKeys = 0]
delete(s, k) ==
    IF k \notin DOMAIN s.m THEN s
    ELSE LET left == [s EXCEPT !.m = Drop(@, k), !.deletedKeys = @ + 1]
         IN IF shouldShrink(left) THEN shrink(left) ELSE left

\* The reference also counts the deletions since the map was last made anew, which is
\* when Clear or Shrink is called, or when a deletion leaves entries and there have
\* been Count deletions and Ratio of them for each entry that is left.
RefDelete(k) ==
    LET m == Drop(ref.m, k)
        n == ref.deletions + 1
        anew == m # Empty /\ n >= Count /\ n >= Ratio * Cardinality(DOMAIN m)
    IN IF k \in DOMAIN ref.m THEN [m |-> m, deletions |-> IF anew THEN 0 ELSE n] ELSE ref

SetOrCompute(k, v) ==  \* Set, Compute, and GetOrCreate of a missing key
    /\ c.kind = "ShrinkingMap"
    /\ Returns([c EXCEPT !.m = Put(@, k, v)], [ref EXCEPT !.m = Put(@, k, v)],
               k \notin DOMAIN c.m, k \notin DOMAIN ref.m)
GetOrCreate(k, v) ==  \* looks again under the write lock
    /\ c.kind = "ShrinkingMap"
    /\ IF k \in DOMAIN c.m THEN Returns(c, ref, c.m[k], ref.m[k]) ELSE SetOrCompute(k, v)
Delete(k) ==  \* Delete and DeleteAndReturn; Pop, which deletes any key
    /\ c.kind = "ShrinkingMap" /\ c.deletedKeys < MaxDeleted
    /\ Returns(delete(c, k), RefDelete(k), k \in DOMAIN c.m, k \in DOMAIN ref.m)
ClearOrShrink(clear) ==
    /\ c.kind = "ShrinkingMap"
    /\ IF clear THEN Returns([shrink(c) EXCEPT !.m = Empty], [m |-> Empty, deletions |-> 0], Nil, Nil)
       ELSE Returns(shrink(c), [ref EXCEPT !.deletions = 0], Nil, Nil)

\* -------------------------------------------------------------- walker.Walker
NewWalker(revisit) == [kind |-> "Walker", stack |-> <<>>, pushed |-> {}, stopped |-> FALSE,
                       revisit |-> revisit]

\* The reference is what was visited.
Room(n) == Len(c.stack) + Len(ref) + n <= MaxEntries

\* Mutant: an element is known once it is visited, not once it is pushed.
PushMutant(w, e) ==
    IF e \in ToSet(ref) /\ ~w.revisit THEN w
    ELSE [w EXCEPT !.pushed = @ \cup {e}, !.stack = Append(@, e)]
Push(w, e) ==
    IF e \in w.pushed /\ ~w.revisit THEN w
    ELSE [w EXCEPT !.pushed = @ \cup {e}, !.stack = Append(@, e)]
PushAll(e, f) ==  \* Push, if e = f
    /\ c.kind = "Walker" /\ Room(2)
    /\ Returns(IF e = f THEN Push(c, e) ELSE Push(Push(c, e), f), ref, Nil, Nil)

\* PushFront returns at the first element that was pushed before.
PushFront(e, f) ==
    /\ c.kind = "Walker" /\ Room(2)
    /\ LET first == IF e \in c.pushed /\ ~c.revisit THEN c
                    ELSE [c EXCEPT !.pushed = @ \cup {e}, !.stack = <<e>> \o @]
           second == [first EXCEPT !.pushed = @ \cup {f}, !.stack = <<f>> \o @]
       IN Returns(IF first = c \/ (f \in first.pushed /\ ~c.revisit) THEN first ELSE second, ref, Nil, Nil)

HasNext(w) == w.stack # <<>> /\ ~w.stopped
NextElement ==
    /\ c.kind = "Walker" /\ HasNext(c)
    /\ Returns([c EXCEPT !.stack = Tail(@)], Append(ref, c.stack[1]), Nil, Nil)
StopWalk == c.kind = "Walker" /\ ~c.stopped /\ Returns([c EXCEPT !.stopped = TRUE], ref, Nil, Nil)
Reset == c.kind = "Walker" /\ Returns(NewWalker(c.revisit), <<>>, Nil, Nil)

\* ----------------------------------------------------------- timeheap.TimeHeap
\* Entries <<time, count>> are added as time passes, so that the heap's oldest entry is
\* the first one.  The reference is what Clear leaves in the total.
NewTimeHeap == [kind |-> "TimeHeap", heap |-> <<>>, total |-> 0, now |-> 0]
Total(entries) == FoldLeft(LAMBDA sum, entry : sum + entry[2], 0, entries)

AddToTimeHeap(count) ==
    /\ c.kind = "TimeHeap" /\ Len(c.heap) < MaxEntries /\ ref < MaxEntries
    /\ Returns([c EXCEPT !.heap = Append(@, <<c.now, count>>), !.total = @ + count], ref, Nil, Nil)
Tick == c.kind = "TimeHeap" /\ c.now < MaxTime /\ Returns([c EXCEPT !.now = @ + 1], ref, Nil, Nil)

\* Pops until it finds an entry that is young enough, which it pushes back.
AveragePerSecond(timeBefore) ==
    /\ c.kind = "TimeHeap"
    /\ LET young(entry) == c.now - entry[1] < timeBefore
           popped == Max({0} \cup {n \in DOMAIN c.heap : \A m \in 1 .. n : ~young(c.heap[m])})
           left == SubSeq(c.heap, popped + 1, Len(c.heap))
           total == c.total - Total(SubSeq(c.heap, 1, popped))
       IN Returns([c EXCEPT !.heap = left, !.total = total], ref,
                  total, Total(SelectSeq(c.heap, young)) + ref)
ClearTimeHeap ==  \* leaves total alone
    /\ c.kind = "TimeHeap"
    /\ Returns([c EXCEPT !.heap = <<>>], ref + Total(c.heap), Nil, Nil)

\* --------------------------------------------------- onchangemap.OnChangeMap
\* The reference: what changedCallback, a copy of the map somewhere else, was last
\* given; stale, if the last change was made while callbacks are disabled or its
\* changedCallback failed.
NewOnChangeMap == [kind |-> "OnChangeMap", m |-> Empty, enabled |-> FALSE]

\* executeItemCallback after the map became m; the item callback may fail as well.
executeItemCallback(m, failed, itemFailed) ==
    Returns([c EXCEPT !.m = m],
            IF c.enabled /\ ~failed THEN [mirror |-> m, stale |-> FALSE] ELSE [ref EXCEPT !.stale = TRUE],
            c.enabled /\ (failed \/ itemFailed), c.enabled /\ (failed \/ itemFailed))

Change(k, v, failed, itemFailed) ==
    /\ c.kind = "OnChangeMap"
    /\ \/ k \notin DOMAIN c.m /\ executeItemCallback(Put(c.m, k, v), failed, itemFailed)  \* Add
       \/ k \in DOMAIN c.m /\ executeItemCallback(Put(c.m, k, v), failed, itemFailed)     \* Modify
       \/ k \in DOMAIN c.m /\ executeItemCallback(Drop(c.m, k), failed, itemFailed)       \* Delete
CallbacksEnabled(enabled) ==
    c.kind = "OnChangeMap" /\ Returns([c EXCEPT !.enabled = enabled], ref, Nil, Nil)
ExecuteChangedCallback ==
    /\ c.kind = "OnChangeMap" /\ c.enabled
    /\ Returns(c, [mirror |-> c.m, stale |-> FALSE], Nil, Nil)

\* --------------------------------------------------- memstorage.IndexedStorage
\* The storages are numbered; the reference: those that Evict and Clear handed out.
NewIndexedStorage == [kind |-> "IndexedStorage", cache |-> Empty, created |-> 0]

Get(k, createIfMissing) ==
    /\ c.kind = "IndexedStorage" /\ k \notin DOMAIN c.cache /\ createIfMissing
    /\ c.created < MaxEntries
    /\ Returns([c EXCEPT !.cache = Put(@, k, c.created + 1), !.created = @ + 1], ref, Nil, Nil)
Evict(k) ==
    /\ c.kind = "IndexedStorage" /\ k \in DOMAIN c.cache
    /\ Returns([c EXCEPT !.cache = Drop(@, k)], ref \cup {c.cache[k]}, Nil, Nil)
ClearStorage ==
    /\ c.kind = "IndexedStorage"
    /\ Returns([c EXCEPT !.cache = Empty], ref \cup Range(c.cache), Nil, Nil)

\* ------------------------------------------------------------- specification
New(kind) ==
    CASE kind = "Queue" -> [c |-> NewQueue, ref |-> <<>>]
      [] kind = "RingBuffer" -> [c |-> NewRingBuffer, ref |-> <<>>]
      [] kind = "BytesFilter" -> [c |-> NewBytesFilter, ref |-> <<>>]
      [] kind = "RandomMap" -> [c |-> NewRandomMap, ref |-> Empty]
      [] kind = "ShrinkingMap" -> [c |-> NewShrinkingMap, ref |-> [m |-> Empty, deletions |-> 0]]
      [] kind = "Walker" -> [c |-> NewWalker(FALSE), ref |-> <<>>]
      [] kind = "revisiting Walker" -> [c |-> NewWalker(TRUE), ref |-> <<>>]
      [] kind = "TimeHeap" -> [c |-> NewTimeHeap, ref |-> 0]
      [] kind = "OnChangeMap" -> [c |-> NewOnChangeMap, ref |-> [mirror |-> Empty, stale |-> FALSE]]
      [] kind = "IndexedStorage" -> [c |-> NewIndexedStorage, ref |-> {}]

Init == \E kind \in Kinds : c = New(kind).c /\ ref = New(kind).ref /\ got = Nil /\ want = Nil

Next ==
    \/ \E v \in Values : Offer(v) \/ ForceOffer(v) \/ AddToBuffer(v)
    \/ Poll \/ NextElement \/ StopWalk \/ Reset
    \/ \E k \in Keys :
          \/ addIdentifier(k) \/ DeleteFromRandomMap(k) \/ Delete(k) \/ Evict(k) \/ Get(k, TRUE)
          \/ \E l \in Keys : PushAll(k, l) \/ PushFront(k, l)
          \/ \E v \in Values :
                \/ SetInRandomMap(k, v) \/ SetOrCompute(k, v) \/ GetOrCreate(k, v)
                \/ \E failed, itemFailed \in BOOLEAN : Change(k, v, failed, itemFailed)
    \/ \E b \in BOOLEAN : ClearOrShrink(b) \/ CallbacksEnabled(b)
    \/ Tick \/ ClearTimeHeap \/ ExecuteChangedCallback \/ ClearStorage
    \/ \E n \in 1 .. 2 : AddToTimeHeap(n) \/ AveragePerSecond(n)

Spec == Init /\ [][Next]_vars

\* ------------------------------------------------------------------ property
\* After any sequence of calls each container holds and returns what its reference
\* does: the ring of a Queue, a RingBuffer or a BytesFilter at its capacity, the keys
\* of a RandomMap with the positions its entries remember, the entries of a
\* ShrinkingMap and the time at which it is made anew, the elements a Walker still has
\* to visit, the total of a TimeHeap, and what the callbacks of an OnChangeMap saw.
ContainerAgrees ==
    /\ got = want
    /\ c.kind = "Queue" => [i \in 1 .. c.size |-> c.ring[(c.read + i - 1) % Capacity]] = ref
    /\ c.kind = "RingBuffer" => ToSlice(c) = ref
    /\ c.kind = "BytesFilter" => c.known = ToSet(ref) /\ c.identifiers = ref
    /\ c.kind = "RandomMap" =>
          /\ [k \in DOMAIN c.rawMap |-> c.rawMap[k].value] = ref
          /\ Len(c.keys) = Cardinality(DOMAIN ref) /\ RandomKeys(c) = DOMAIN ref
          /\ \A k \in DOMAIN ref : c.keys[c.rawMap[k].keyIndex + 1] = k
          /\ \A n \in 1 .. Cardinality(Keys) : \A entries \in RandomUnique(c, n) : IsInjective(entries)
    /\ c.kind = "ShrinkingMap" => c.m = ref.m /\ c.deletedKeys = ref.deletions
    /\ c.kind = "Walker" =>
          /\ c.pushed = ToSet(c.stack) \cup ToSet(ref)
          /\ ~c.revisit => IsInjective(ref \o c.stack)
    /\ c.kind = "TimeHeap" => c.total = Total(c.heap) + ref
    /\ c.kind = "OnChangeMap" => (~ref.stale => ref.mirror = c.m)
    /\ c.kind = "IndexedStorage" => IsInjective(c.cache) /\ Range(c.cache) \cap ref = {}
=============================================================================
