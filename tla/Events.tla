------------------------------- MODULE Events -------------------------------
(***************************************************************************)
(* runtime/event: hooks of an event, Trigger, maximum trigger counts and   *)
(* LinkTo.  An event is linked to a target by a hook of the target that    *)
(* triggers it; linkTo exchanges that hook while triggers are under way.   *)
(*                                                                         *)
(* The hooks of an event are an ordered map.  Trigger iterates over it     *)
(* without a lock across callbacks, so hooks come and go under it; a hook  *)
(* that is removed together with the one the iteration stands at may still *)
(* be visited (module OrderedMap).  A callback that is a link triggers the *)
(* linked event in the same goroutine: a thread is a stack of triggers.    *)
(*                                                                         *)
(* runtime/promise: an event that is triggered once and calls each of its  *)
(* callbacks once, those that come late immediately.                       *)
(***************************************************************************)
EXTENDS Naturals, Sequences, FiniteSets, SequencesExt, FiniteSetTheorems, TLAPS

CONSTANTS Targets,        \* events that are triggered by the threads
          Linked,         \* the event that is linked to one of them
          Callbacks,      \* callbacks that are hooked to Linked
          MaxTriggerCount,\* of Linked and of the hook of each callback, 0 for none
          Threads, Linkers, MaxTriggers,
          Triggers, Subscribers, Nil
VARIABLES hooked,         \* ids in the hooks of the events
          hook,           \* id -> the Hook: its event, what it triggers, its triggerCount
          triggerCount,   \* of each event
          link, linkMutex,
          linker,         \* the target of a linkTo that holds the mutex
          thread,         \* the triggers that run, the innermost last
          triggers,       \* number of calls of Trigger by the threads
          executed        \* callback -> number of its executions (history)
VARIABLES callbacks,      \* promise.Event.callbacks, Nil once it is triggered
          todo,           \* trigger -> callbacks it still calls
          subscriber,     \* where the call of OnTrigger is
          called          \* subscriber -> number of calls (history)
eventVars == <<hooked, hook, triggerCount, link, linkMutex, linker, thread, triggers, executed>>
promiseVars == <<callbacks, todo, subscriber, called>>

AllEvents == Targets \cup {Linked}
HookIds == DOMAIN hook
TypeOK == /\ hooked \subseteq HookIds
          /\ \A id \in HookIds : hook[id] \in [event : AllEvents, trigger : Callbacks \cup {Linked},
                                           count : Nat]
          /\ triggerCount \in [AllEvents -> Nat]
          /\ link \in HookIds \cup {Nil} /\ linkMutex \in Linkers \cup {Nil}
          /\ linker \in [Linkers -> Targets \cup {Nil, "unlink", "done"}]
          /\ executed \in [Callbacks -> Nat]

EventInit ==
        /\ hooked = {} /\ hook = <<>>
        /\ triggerCount = [e \in AllEvents |-> 0]
        /\ link = Nil /\ linkMutex = Nil /\ linker = [l \in Linkers |-> Nil]
        /\ thread = [t \in Threads |-> <<>>] /\ triggers = 0
        /\ executed = [c \in Callbacks |-> 0]

\* currentTriggerExceedsMaxTriggerCount, for the count after the increment.
Exceeds(x, count) == x \in DOMAIN MaxTriggerCount /\ MaxTriggerCount[x] # 0 /\ count > MaxTriggerCount[x]

\* event.Hook: a new id, appended to the ordered map.
NewHook(e, f) == hook' = Append(hook, [event |-> e, trigger |-> f, count |-> 0])
Hook(c) ==
    /\ \A id \in HookIds : hook[id].trigger # c
    /\ NewHook(Linked, c) /\ hooked' = hooked \cup {Len(hook')}
    /\ UNCHANGED <<triggerCount, link, linkMutex, linker, thread, triggers, executed>>

\* Hook.Unhook by its owner.
Unhook(id) ==
    /\ id \in hooked /\ hook[id].trigger \in Callbacks
    /\ hooked' = hooked \ {id}
    /\ UNCHANGED <<hook, triggerCount, link, linkMutex, linker, thread, triggers, executed>>

linkToMutant(l, target) ==
    /\ linker[l] = Nil /\ linkMutex = Nil
    /\ linkMutex' = l /\ linker' = [linker EXCEPT ![l] = target]
    /\ thread' = [t \in Threads |-> [k \in DOMAIN thread[t] |-> [thread[t][k] EXCEPT !.quiet = FALSE]]]
    /\ UNCHANGED <<hooked, hook, triggerCount, link, triggers, executed>>
\* linkTo: lock and unhook the previous link.  Triggers under way are marked: they may miss
\* the event or reach it twice.
linkTo(l, target) ==
    /\ linker[l] = Nil /\ linkMutex = Nil
    /\ linkMutex' = l /\ linker' = [linker EXCEPT ![l] = target]
    /\ hooked' = hooked \ {link}
    /\ thread' = [t \in Threads |-> [k \in DOMAIN thread[t] |-> [thread[t][k] EXCEPT !.quiet = FALSE]]]
    /\ UNCHANGED <<hook, triggerCount, link, triggers, executed>>

\* linkTo: hook the trigger function to the target (nil unlinks) and unlock.
LinkHook(l) ==
    /\ linkMutex = l /\ linkMutex' = Nil
    /\ linker' = [linker EXCEPT ![l] = "done"]
    /\ IF linker[l] = "unlink"
       THEN link' = Nil /\ UNCHANGED <<hook, hooked>>
       ELSE /\ NewHook(linker[l], Linked) /\ link' = Len(hook')
            /\ hooked' = hooked \cup {Len(hook')}
    /\ UNCHANGED <<triggerCount, thread, triggers, executed>>

\* A trigger of e: the hook it stands at, the hooks there were then, its visits, and
\* whether no linkTo has run since it began.
Frame(e) == [event |-> e, at |-> 0, ahead |-> hooked, visited |-> <<>>, quiet |-> linkMutex = Nil]

\* Trigger of a target by a thread.
Trigger(t, e) ==
    /\ thread[t] = <<>> /\ triggers < MaxTriggers
    /\ triggers' = triggers + 1
    /\ triggerCount' = [triggerCount EXCEPT ![e] = @ + 1]
    /\ thread' = [thread EXCEPT ![t] = IF Exceeds(e, triggerCount'[e]) THEN <<>> ELSE <<Frame(e)>>]
    /\ UNCHANGED <<hooked, hook, link, linkMutex, linker, executed>>

\* ForEach: the hook that follows in the ordered map.
NextHooks(f) ==
    LET behind == {id \in HookIds : id > f.at /\ hook[id].event = f.event}
        live == {id \in hooked \cap behind : \A other \in hooked \cap behind : id <= other}
    IN live \cup {id \in behind \ hooked : /\ f.at # 0 /\ f.at \notin hooked /\ id \in f.ahead
                                           /\ \A other \in live : id < other}

\* Trigger: the callback of ForEach for one hook.
Visit(t, id) ==
    LET f == Last(thread[t])
        at == [f EXCEPT !.at = id, !.ahead = hooked, !.visited = Append(@, id)]
        below == Append(Front(thread[t]), at)
        exceeds == Exceeds(hook[id].trigger, hook[id].count + 1) /\ hook[id].trigger # Linked
    IN /\ hook' = [hook EXCEPT ![id].count = @ + 1]
       /\ hooked' = IF exceeds THEN hooked \ {id} ELSE hooked
       /\ IF hook[id].trigger = Linked
          THEN /\ triggerCount' = [triggerCount EXCEPT ![Linked] = @ + 1]
               /\ thread' = [thread EXCEPT ![t] = IF Exceeds(Linked, triggerCount'[Linked])
                                                  THEN below ELSE Append(below, Frame(Linked))]
               /\ UNCHANGED executed
          ELSE /\ thread' = [thread EXCEPT ![t] = below]
               /\ executed' = IF exceeds THEN executed
                              ELSE [executed EXCEPT ![hook[id].trigger] = @ + 1]
               /\ UNCHANGED triggerCount
       /\ UNCHANGED <<link, linkMutex, linker, triggers>>

\* Trigger returns.
Return(t) ==
    /\ thread[t] # <<>> /\ NextHooks(Last(thread[t])) = {}
    /\ thread' = [thread EXCEPT ![t] = Front(@)]
    /\ UNCHANGED <<hooked, hook, triggerCount, link, linkMutex, linker, triggers, executed>>

EventNext ==
        \/ \E c \in Callbacks : Hook(c)
        \/ \E id \in HookIds : Unhook(id)
        \/ \E l \in Linkers : (\E e \in Targets \cup {"unlink"} : linkTo(l, e)) \/ LinkHook(l)
        \/ \E t \in Threads : \/ \E e \in Targets : Trigger(t, e)
                              \/ thread[t] # <<>> /\ \E id \in NextHooks(Last(thread[t])) : Visit(t, id)
                              \/ Return(t)

\* A trigger that no linkTo crosses triggers the linked event once if its event is the
\* target of the link, and not at all otherwise; it visits no hook twice; and a callback
\* is executed as often as its hook was triggered, up to the maximum of the hook.
TriggeredOnce ==
    /\ \A t \in Threads : \A k \in DOMAIN thread[t] :
          LET f == thread[t][k]
              links == {j \in DOMAIN f.visited : hook[f.visited[j]].trigger = Linked}
          IN /\ Cardinality(ToSet(f.visited)) = Len(f.visited)
             /\ f.quiet /\ k = Len(thread[t]) /\ f.event # Linked /\ NextHooks(f) = {} =>
                   Cardinality(links) = IF link # Nil /\ hook[link].event = f.event THEN 1 ELSE 0
    /\ \A id \in HookIds : hook[id].trigger # Linked =>
          executed[hook[id].trigger] =
            LET max == MaxTriggerCount[hook[id].trigger]
            IN IF max # 0 /\ hook[id].count > max THEN max ELSE hook[id].count
-----------------------------------------------------------------------------
PromiseInit ==
    /\ callbacks = {}
    /\ todo = [t \in Triggers |-> {}]
    /\ subscriber = [s \in Subscribers |-> "no"]
    /\ called = [s \in Subscribers |-> 0]

TriggerPromiseMutant(t) ==
    /\ todo[t] = {} /\ callbacks # Nil
    /\ todo' = [todo EXCEPT ![t] = callbacks]
    /\ UNCHANGED <<callbacks, subscriber, called>>
\* promise Event.Trigger: take the callbacks; a second trigger finds none.
TriggerPromise(t) ==
    /\ todo[t] = {} /\ callbacks # Nil
    /\ todo' = [todo EXCEPT ![t] = callbacks]
    /\ callbacks' = Nil
    /\ UNCHANGED <<subscriber, called>>

\* Trigger calls the callbacks it took, in any order.
Call(t, s) ==
    /\ s \in todo[t]
    /\ todo' = [todo EXCEPT ![t] = @ \ {s}]
    /\ called' = [called EXCEPT ![s] = @ + 1]
    /\ UNCHANGED <<callbacks, subscriber>>

\* OnTrigger: registerCallback.
OnTrigger(s) ==
    /\ subscriber[s] = "no"
    /\ IF callbacks = Nil
       THEN subscriber' = [subscriber EXCEPT ![s] = "calls"] /\ UNCHANGED callbacks
       ELSE /\ callbacks' = callbacks \cup {s}
            /\ subscriber' = [subscriber EXCEPT ![s] = "subscribed"]
    /\ UNCHANGED <<todo, called>>

\* OnTrigger of an event that was triggered.
CallNow(s) ==
    /\ subscriber[s] = "calls"
    /\ subscriber' = [subscriber EXCEPT ![s] = "subscribed"]
    /\ called' = [called EXCEPT ![s] = @ + 1]
    /\ UNCHANGED <<callbacks, todo>>

\* The unsubscribe function OnTrigger returns.
Unsubscribe(s) ==
    /\ subscriber[s] = "subscribed"
    /\ IF callbacks = Nil
       THEN subscriber' = [subscriber EXCEPT ![s] = "unsubscribedLate"] /\ UNCHANGED callbacks
       ELSE /\ callbacks' = callbacks \ {s}
            /\ subscriber' = [subscriber EXCEPT ![s] = "unsubscribed"]
    /\ UNCHANGED <<todo, called>>

PromiseNext ==
    \/ \E t \in Triggers : TriggerPromise(t) \/ \E s \in Subscribers : Call(t, s)
    \/ \E s \in Subscribers : OnTrigger(s) \/ CallNow(s) \/ Unsubscribe(s)

\* No callback is called twice, one that was unsubscribed before the trigger is not called,
\* and once the promise is triggered every other one has been called or is about to be.
CalledOnce ==
    \A s \in Subscribers :
        LET due == Cardinality({t \in Triggers : s \in todo[t]})
        IN /\ called[s] + due <= (IF subscriber[s] \in {"no", "calls", "unsubscribed"} THEN 0 ELSE 1)
           /\ callbacks = Nil /\ subscriber[s] \in {"subscribed", "unsubscribedLate"} => called[s] + due = 1
-----------------------------------------------------------------------------
PromiseSpec == PromiseInit /\ [][PromiseNext]_promiseVars

Unset(s) == called[s] = 0 /\ \A t \in Triggers : s \notin todo[t]
Pending(s) == /\ called[s] = 0
              /\ \E t \in Triggers : s \in todo[t] /\ \A u \in Triggers \ {t} : s \notin todo[u]
Called(s) == called[s] = 1 /\ \A t \in Triggers : s \notin todo[t]

PromiseTypeOK ==
    /\ callbacks = Nil \/ callbacks \in SUBSET Subscribers
    /\ todo \in [Triggers -> SUBSET Subscribers]
    /\ subscriber \in [Subscribers -> {"no", "calls", "subscribed", "unsubscribed", "unsubscribedLate"}]
    /\ called \in [Subscribers -> Nat]

\* Until the trigger the callbacks are those of the subscribers and nothing is due; from
\* then on each subscriber is called by the one trigger that took it or by itself.
PromiseInv ==
    /\ PromiseTypeOK
    /\ callbacks # Nil => \A s \in Subscribers :
          /\ Unset(s)
          /\ subscriber[s] \in {"no", "subscribed", "unsubscribed"}
          /\ s \in callbacks <=> subscriber[s] = "subscribed"
    /\ callbacks = Nil => \A s \in Subscribers :
          /\ subscriber[s] \in {"no", "calls", "unsubscribed"} => Unset(s)
          /\ subscriber[s] \in {"subscribed", "unsubscribedLate"} => Pending(s) \/ Called(s)

\* Nil is not a set of callbacks.
NilIsNoSet == Nil \notin SUBSET Subscribers

\* The invariant holds for a new promise.
LEMMA PromiseInitInv == ASSUME NilIsNoSet, PromiseInit PROVE PromiseInv
BY DEF NilIsNoSet, PromiseInit, PromiseInv, PromiseTypeOK, Unset

\* Every step of a trigger or a subscriber preserves the invariant.
LEMMA PromiseStepInv == ASSUME NilIsNoSet, PromiseInv, [PromiseNext]_promiseVars PROVE PromiseInv'
<1> USE DEF PromiseInv, PromiseTypeOK, Unset, Pending, Called
<1>1. ASSUME NEW t \in Triggers, TriggerPromise(t) PROVE PromiseInv'
  BY <1>1 DEF TriggerPromise
<1>2. ASSUME NEW t \in Triggers, NEW s \in Subscribers, Call(t, s) PROVE PromiseInv'
  <2>1. callbacks = Nil /\ callbacks' = Nil /\ subscriber' = subscriber
    BY <1>2 DEF Call
  <2>2. PromiseTypeOK'
    BY <1>2, <2>1 DEF Call
  <2>3. Pending(s) /\ \A u \in Triggers \ {t} : s \notin todo[u]
    BY <1>2, <2>1 DEF Call
  <2>4. called'[s] = 1 /\ \A u \in Triggers : s \notin todo'[u]
    BY <1>2, <2>3 DEF Call
  <2>5. subscriber[s] \in {"subscribed", "unsubscribedLate"}
    BY <1>2, <2>1 DEF Call
  <2>6. ASSUME NEW r \in Subscribers, r # s
        PROVE  called'[r] = called[r] /\ \A u \in Triggers : r \in todo'[u] <=> r \in todo[u]
    BY <1>2, <2>6 DEF Call
  <2> QED
    BY <2>1, <2>2, <2>4, <2>5, <2>6
<1>3. ASSUME NEW s \in Subscribers, OnTrigger(s) PROVE PromiseInv'
  BY <1>3 DEF OnTrigger, NilIsNoSet
<1>4. ASSUME NEW s \in Subscribers, CallNow(s) PROVE PromiseInv'
  BY <1>4 DEF CallNow
<1>5. ASSUME NEW s \in Subscribers, Unsubscribe(s) PROVE PromiseInv'
  BY <1>5 DEF Unsubscribe, NilIsNoSet
<1>6. CASE UNCHANGED promiseVars
  BY <1>6 DEF promiseVars
<1> QED
  BY <1>1, <1>2, <1>3, <1>4, <1>5, <1>6 DEF PromiseNext

\* The number of triggers that are about to call a subscriber, in the three cases.
LEMMA Due ==
    ASSUME NEW s \in Subscribers
    PROVE  LET due == Cardinality({t \in Triggers : s \in todo[t]})
           IN /\ Unset(s) \/ Called(s) => due = 0
              /\ Pending(s) => due = 1
<1>1. ASSUME Unset(s) \/ Called(s) PROVE {t \in Triggers : s \in todo[t]} = {}
  BY <1>1 DEF Unset, Called
<1>2. ASSUME Pending(s)
      PROVE  Cardinality({t \in Triggers : s \in todo[t]}) = 1
  <2>1. PICK t \in Triggers : s \in todo[t] /\ \A u \in Triggers \ {t} : s \notin todo[u]
    BY <1>2 DEF Pending
  <2>2. {u \in Triggers : s \in todo[u]} = {t}
    BY <2>1
  <2> QED
    BY <2>2, FS_Singleton
<1> QED
  BY <1>1, <1>2, FS_EmptySet

\* What the invariant says of the calls that were made and those that are due.
LEMMA PromiseInvImplies == ASSUME PromiseInv PROVE CalledOnce
<1> SUFFICES ASSUME NEW s \in Subscribers
             PROVE  LET due == Cardinality({t \in Triggers : s \in todo[t]})
                    IN /\ called[s] + due <= (IF subscriber[s] \in {"no", "calls", "unsubscribed"} THEN 0 ELSE 1)
                       /\ callbacks = Nil /\ subscriber[s] \in {"subscribed", "unsubscribedLate"} =>
                             called[s] + due = 1
  BY DEF CalledOnce
<1> DEFINE due == Cardinality({t \in Triggers : s \in todo[t]})
<1>1. /\ Unset(s) => called[s] = 0 /\ due = 0
      /\ Called(s) => called[s] = 1 /\ due = 0
      /\ Pending(s) => called[s] = 0 /\ due = 1
  BY Due DEF Unset, Called, Pending
<1>2. \/ Unset(s) /\ ~ (callbacks = Nil /\ subscriber[s] \in {"subscribed", "unsubscribedLate"})
      \/ subscriber[s] \in {"subscribed", "unsubscribedLate"} /\ (Pending(s) \/ Called(s))
  BY DEF PromiseInv, PromiseTypeOK
<1> HIDE DEF due
<1>3. called[s] + due <= (IF subscriber[s] \in {"no", "calls", "unsubscribed"} THEN 0 ELSE 1)
  BY <1>1, <1>2
<1>4. callbacks = Nil /\ subscriber[s] \in {"subscribed", "unsubscribedLate"} => called[s] + due = 1
  BY <1>1, <1>2
<1> QED
  BY <1>3, <1>4 DEF due

\* For any number of triggers and subscribers, in any order of Trigger, OnTrigger and
\* unsubscribing, a promise calls each of its callbacks once.
THEOREM PromiseCallsOnce == ASSUME NilIsNoSet PROVE PromiseSpec => []CalledOnce
BY PromiseInitInv, PromiseStepInv, PromiseInvImplies, PTL DEF PromiseSpec
=============================================================================
