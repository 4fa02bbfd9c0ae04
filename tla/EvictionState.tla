--------------------------- MODULE EvictionState ---------------------------
(***************************************************************************)
(* ds/reactive/eviction_state_impl.go.  EvictionEvent reads under the read *)
(* lock; evict moves lastEvictedSlot under the write lock; the events it   *)
(* found are triggered after the lock is released, by each caller of Evict *)
(* on its own.  The slot type is uint of the given width.                  *)
(***************************************************************************)
EXTENDS Integers, FiniteSets, TLAPS

CONSTANTS
    Width,     \* bits of the slot type
    Evictors,  \* callers of Evict
    Readers,   \* callers of EvictionEvent
    LastSlot   \* the largest slot Evict is called with
Slots == 0 .. 2^Width - 1
SlotAssumption == Width \in Nat /\ 2^Width \in Nat /\ LastSlot \in Slots /\ "free" \notin Evictors

None == -1  \* lastEvictedSlot == nil
NoEvent == -2
Evicted == -3  \* evictedSlotEvent, triggered from the start

VARIABLES
    lastEvictedSlot,
    evictionEvents,  \* slots with an event in the map: an event is named after its slot
    triggered,       \* events triggered
    evictor, slot, i, toTrigger, \* per caller of Evict: location, argument, loop variable, events found
    mutex,           \* None, or the caller of Evict inside evict
    wanted, event    \* per caller of EvictionEvent: its slot, the event it got
vars == <<lastEvictedSlot, evictionEvents, triggered, evictor, slot, i, toTrigger, mutex, wanted, event>>
evictVars == <<evictor, slot, i, toTrigger>>

Init ==
    /\ lastEvictedSlot = None /\ evictionEvents = {} /\ triggered = {} /\ mutex = "free"
    /\ evictor = [e \in Evictors |-> "new"] /\ slot = [e \in Evictors |-> 0]
    /\ i = [e \in Evictors |-> 0] /\ toTrigger = [e \in Evictors |-> {}]
    /\ wanted = [r \in Readers |-> NoEvent] /\ event = [r \in Readers |-> NoEvent]

EvictionEvent(r) ==
    /\ event[r] = NoEvent /\ mutex = "free"
    /\ \E s \in Slots :
        /\ wanted' = [wanted EXCEPT ![r] = s]
        /\ IF lastEvictedSlot = None \/ s > lastEvictedSlot
           THEN evictionEvents' = evictionEvents \cup {s} /\ event' = [event EXCEPT ![r] = s]
           ELSE UNCHANGED evictionEvents /\ event' = [event EXCEPT ![r] = Evicted]
    /\ UNCHANGED <<lastEvictedSlot, triggered, evictVars, mutex>>

\* evict: lock, the early return, the first slot of the loop.
Evict(e, s) ==
    /\ evictor[e] = "new" /\ mutex = "free" /\ slot' = [slot EXCEPT ![e] = s]
    /\ IF lastEvictedSlot # None /\ s <= lastEvictedSlot
       THEN evictor' = [evictor EXCEPT ![e] = "done"] /\ UNCHANGED <<i, mutex>>
       ELSE /\ evictor' = [evictor EXCEPT ![e] = "loop"] /\ mutex' = e
            /\ i' = [i EXCEPT ![e] = IF lastEvictedSlot = None THEN 0 ELSE lastEvictedSlot + 1]
    /\ UNCHANGED <<lastEvictedSlot, evictionEvents, triggered, toTrigger, wanted, event>>

\* One round of the loop; i++ wraps around.
\* Mutant: the event is deleted only.
EvictLoopMutant(e) ==
    /\ evictor[e] = "loop" /\ i[e] <= slot[e] /\ i' = [i EXCEPT ![e] = (@ + 1) % 2^Width]
    /\ evictionEvents' = evictionEvents \ {i[e]}
    /\ UNCHANGED <<lastEvictedSlot, triggered, evictor, slot, toTrigger, mutex, wanted, event>>
EvictLoop(e) ==
    /\ evictor[e] = "loop" /\ i[e] <= slot[e] /\ i' = [i EXCEPT ![e] = (@ + 1) % 2^Width]
    /\ toTrigger' = [toTrigger EXCEPT ![e] = @ \cup ({i[e]} \cap evictionEvents)]
    /\ evictionEvents' = evictionEvents \ {i[e]}
    /\ UNCHANGED <<lastEvictedSlot, triggered, evictor, slot, mutex, wanted, event>>

EvictUnlock(e) ==
    /\ evictor[e] = "loop" /\ i[e] > slot[e] /\ lastEvictedSlot' = slot[e]
    /\ mutex' = "free" /\ evictor' = [evictor EXCEPT ![e] = "trigger"]
    /\ UNCHANGED <<evictionEvents, triggered, slot, i, toTrigger, wanted, event>>

Trigger(e) ==
    /\ evictor[e] = "trigger"
    /\ IF toTrigger[e] = {}
       THEN evictor' = [evictor EXCEPT ![e] = "done"] /\ UNCHANGED <<triggered, toTrigger>>
       ELSE \E s \in toTrigger[e] :
            /\ \A t \in toTrigger[e] : s <= t
            /\ triggered' = triggered \cup {s} /\ toTrigger' = [toTrigger EXCEPT ![e] = @ \ {s}]
            /\ UNCHANGED evictor
    /\ UNCHANGED <<lastEvictedSlot, evictionEvents, slot, i, mutex, wanted, event>>

EvictStep(e) == EvictLoop(e) \/ EvictUnlock(e) \/ Trigger(e)
Next ==
    \/ \E r \in Readers : EvictionEvent(r)
    \/ \E e \in Evictors : EvictStep(e) \/ \E s \in 0 .. LastSlot : Evict(e, s)
Spec == Init /\ [][Next]_vars

\* ---------------------------------------------------------------- properties
\* An event handed out is in the map, found by the caller of Evict that will
\* trigger it, or triggered: evicting never loses one.  It fires only for a slot
\* that is evicted, and an evicted slot does not get a fresh event that nobody
\* will trigger.
EventNotLost ==
    /\ \A r \in Readers : event[r] \in Slots =>
        event[r] \in evictionEvents \cup triggered \cup UNION {toTrigger[e] : e \in Evictors}
    /\ mutex = "free" =>
        /\ \A s \in triggered : s <= lastEvictedSlot
        /\ \A s \in evictionEvents : s > lastEvictedSlot
-----------------------------------------------------------------------------
TypeOK ==
    /\ lastEvictedSlot \in Slots \cup {None} /\ evictionEvents \subseteq Slots /\ triggered \subseteq Slots
    /\ evictor \in [Evictors -> {"new", "loop", "trigger", "done"}] /\ mutex \in Evictors \cup {"free"}
    /\ slot \in [Evictors -> Slots] /\ i \in [Evictors -> Slots]
    /\ toTrigger \in [Evictors -> SUBSET Slots]
    /\ event \in [Readers -> Slots \cup {NoEvent, Evicted}]

\* The loop of a caller that holds the lock: the slots before i are without events.  With the
\* largest slot i wraps around and the loop does not end.
LoopInv(e) ==
    /\ evictor[e] = "loop" <=> mutex = e
    /\ evictor[e] = "loop" /\ slot[e] < 2^Width - 1 =>
          /\ lastEvictedSlot < slot[e] /\ lastEvictedSlot < i[e]
          /\ \A s \in evictionEvents : i[e] <= s
    /\ evictor[e] = "loop" => \A s \in toTrigger[e] : s <= slot[e]
    /\ evictor[e] # "loop" => \A s \in toTrigger[e] : s <= lastEvictedSlot

IInv == /\ TypeOK /\ EventNotLost
        /\ \A e \in Evictors : LoopInv(e)
        /\ \A s \in triggered : s <= lastEvictedSlot

\* At first there is nothing to evict.
LEMMA InitInv == ASSUME SlotAssumption PROVE Init => IInv
BY DEF SlotAssumption, Slots, Init, IInv, TypeOK, EventNotLost, LoopInv, None, NoEvent, Evicted

\* An event that was handed out stays somewhere when it is moved.
LEMMA StepNotLost ==
    ASSUME SlotAssumption, IInv, [Next]_vars, NEW r \in Readers, event'[r] \in Slots
    PROVE  \/ event'[r] \in evictionEvents' \cup triggered'
           \/ \E e \in Evictors : event'[r] \in toTrigger'[e]
<1> USE DEF SlotAssumption, Slots, IInv, TypeOK, None, NoEvent, Evicted
<1>1. event[r] \in Slots => \/ event[r] \in evictionEvents \cup triggered
                            \/ \E e \in Evictors : event[r] \in toTrigger[e]
  BY DEF EventNotLost
<1>2. ASSUME NEW q \in Readers, EvictionEvent(q)
      PROVE  event'[r] \in evictionEvents' \cup triggered' \/ \E e \in Evictors : event'[r] \in toTrigger'[e]
  <2>1. toTrigger' = toTrigger /\ triggered' = triggered /\ evictionEvents \subseteq evictionEvents'
    BY <1>2 DEF EvictionEvent, evictVars
  <2>2. event'[r] # event[r] => event'[r] \in evictionEvents' BY <1>2 DEF EvictionEvent
  <2> QED BY <1>1, <2>1, <2>2
<1>3. ASSUME NEW e \in Evictors, EvictStep(e)
      PROVE  event'[r] \in evictionEvents' \cup triggered' \/ \E d \in Evictors : event'[r] \in toTrigger'[d]
  <2>1. event' = event BY <1>3 DEF EvictStep, EvictLoop, EvictUnlock, Trigger
  <2>2. CASE event[r] \in evictionEvents \cup triggered
    BY <1>3, <2>1, <2>2 DEF EvictStep, EvictLoop, EvictUnlock, Trigger
  <2>3. ASSUME NEW d \in Evictors, event[r] \in toTrigger[d]
        PROVE  event[r] \in triggered' \/ event[r] \in toTrigger'[d]
    BY <1>3, <2>3 DEF EvictStep, EvictLoop, EvictUnlock, Trigger
  <2> QED BY <1>1, <2>1, <2>2, <2>3
<1>4. ASSUME NEW e \in Evictors, NEW s \in 0 .. LastSlot, Evict(e, s)
      PROVE  event' = event /\ evictionEvents' = evictionEvents /\ triggered' = triggered /\ toTrigger' = toTrigger
  BY <1>4 DEF Evict
<1>5. CASE UNCHANGED vars BY <1>1, <1>5 DEF vars
<1> QED BY <1>1, <1>2, <1>3, <1>4, <1>5 DEF Next

\* The other parts: types, the loop, and what is triggered and left against lastEvictedSlot.
SlotsInv == /\ TypeOK
            /\ \A e \in Evictors : LoopInv(e)
            /\ \A s \in triggered : s <= lastEvictedSlot
            /\ mutex = "free" => \A s \in evictionEvents : s > lastEvictedSlot

\* The next slot is the next number, up to the largest.
LEMMA NextSlot ==
    ASSUME SlotAssumption, NEW s \in Slots
    PROVE  (s + 1) % 2^Width \in Slots /\ (s < 2^Width - 1 => (s + 1) % 2^Width = s + 1)
<1> DEFINE n == 2^Width
<1>1. n \in Nat /\ n > 0 BY DEF SlotAssumption, Slots
<1>2. s \in 0 .. n - 1 BY DEF Slots
<1> HIDE DEF n
<1>3. (s + 1) % n \in 0 .. n - 1 BY <1>1, <1>2
<1>4. s < n - 1 => (s + 1) % n = s + 1 BY <1>1, <1>2
<1> QED BY <1>3, <1>4 DEF n, Slots

\* Slots before the loop variable have no events; lastEvictedSlot follows when the loop is over.
LEMMA StepSlots == ASSUME SlotAssumption, SlotsInv, [Next]_vars PROVE SlotsInv'
<1> USE DEF SlotAssumption, Slots, SlotsInv, TypeOK, LoopInv, None, NoEvent, Evicted
<1>1. ASSUME NEW r \in Readers, EvictionEvent(r) PROVE SlotsInv'
  <2>1. UNCHANGED <<lastEvictedSlot, triggered, evictor, slot, i, toTrigger, mutex>> /\ mutex = "free"
    BY <1>1 DEF EvictionEvent, evictVars
  <2>2. PICK s \in Slots :
          IF lastEvictedSlot = None \/ s > lastEvictedSlot
          THEN evictionEvents' = evictionEvents \cup {s} /\ event' = [event EXCEPT ![r] = s]
          ELSE UNCHANGED evictionEvents /\ event' = [event EXCEPT ![r] = Evicted]
    BY <1>1 DEF EvictionEvent
  <2>3. ASSUME NEW t \in evictionEvents' PROVE t \in Slots /\ t > lastEvictedSlot
    <3>1. t \in evictionEvents \/ (t = s /\ (lastEvictedSlot = None \/ s > lastEvictedSlot)) BY <2>2
    <3>2. s > None BY <2>2
    <3> QED BY <2>1, <2>2, <3>1, <3>2
  <2>4. TypeOK' BY <2>1, <2>2, <2>3
  <2>5. \A e \in Evictors : evictor[e] # "loop" BY <2>1
  <2> QED BY <2>1, <2>3, <2>4, <2>5
<1>2. ASSUME NEW e \in Evictors, NEW s \in 0 .. LastSlot, Evict(e, s) PROVE SlotsInv' BY <1>2 DEF Evict
<1>3. ASSUME NEW e \in Evictors, EvictLoop(e) PROVE SlotsInv'
  <2>1. i'[e] \in Slots /\ (slot[e] < 2^Width - 1 => i'[e] = i[e] + 1) BY <1>3, NextSlot DEF EvictLoop
  <2>2. TypeOK' BY <1>3, <2>1 DEF EvictLoop
  <2>3. ASSUME NEW d \in Evictors PROVE LoopInv(d)'
    <3>1. CASE d = e BY <1>3, <2>1, <3>1 DEF EvictLoop
    <3>2. CASE d # e BY <1>3, <3>2 DEF EvictLoop
    <3> QED BY <3>1, <3>2
  <2> QED BY <1>3, <2>2, <2>3 DEF EvictLoop
<1>4. ASSUME NEW e \in Evictors, EvictUnlock(e) PROVE SlotsInv' BY <1>4 DEF EvictUnlock
<1>5. ASSUME NEW e \in Evictors, Trigger(e) PROVE SlotsInv'
  <2>1. CASE toTrigger[e] = {} BY <1>5, <2>1 DEF Trigger
  <2>2. CASE toTrigger[e] # {}
    <3>1. PICK s \in toTrigger[e] : triggered' = triggered \cup {s} /\ toTrigger' = [toTrigger EXCEPT ![e] = @ \ {s}]
      BY <1>5, <2>2 DEF Trigger
    <3>2. UNCHANGED <<lastEvictedSlot, evictionEvents, evictor, slot, i, mutex, event>> BY <1>5, <2>2 DEF Trigger
    <3>3. evictor[e] = "trigger" /\ s <= lastEvictedSlot BY <1>5, <3>1 DEF Trigger
    <3>4. TypeOK' BY <3>1, <3>2
    <3>5. ASSUME NEW d \in Evictors PROVE LoopInv(d)' BY <3>1, <3>2, <3>3
    <3> QED BY <3>1, <3>2, <3>3, <3>4, <3>5
  <2> QED BY <2>1, <2>2
<1>6. CASE UNCHANGED vars BY <1>6 DEF vars
<1> QED BY <1>1, <1>2, <1>3, <1>4, <1>5, <1>6 DEF Next, EvictStep

\* Both parts together.
LEMMA StepInv == ASSUME SlotAssumption, IInv, [Next]_vars PROVE IInv'
<1>1. SlotsInv' BY StepSlots DEF IInv, SlotsInv, EventNotLost
<1>2. ASSUME NEW r \in Readers, event'[r] \in Slots
      PROVE  event'[r] \in evictionEvents' \cup triggered' \cup UNION {toTrigger'[e] : e \in Evictors}
  BY <1>2, StepNotLost
<1> QED BY <1>1, <1>2 DEF IInv, SlotsInv, EventNotLost

\* For any number of callers and any width of the slot, no eviction event is lost, none fires
\* early, and an evicted slot gets no event that nobody will trigger.
THEOREM NoEventLost == ASSUME SlotAssumption PROVE Spec => []EventNotLost
<1>1. IInv /\ [Next]_vars => IInv' BY StepInv
<1>2. IInv => EventNotLost BY DEF IInv
<1> QED BY <1>1, <1>2, InitInv, PTL DEF Spec
=============================================================================
