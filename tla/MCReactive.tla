----------------------------- MODULE MCReactive -----------------------------
(***************************************************************************)
(* The values of ds/reactive in one run.  A behaviour uses one of the      *)
(* objects, its subject; the variables of the others keep their initial    *)
(* values.                                                                 *)
(*  - Variable: this module extends ReactiveVariable, its proofs are about *)
(*    it; two writers, two subscribers, with fairness.                     *)
(*  - WaitGroup: two Adds and three Dones of distinct elements, and the    *)
(*    same with elements that are added twice.                             *)
(*  - EvictionState: two callers of Evict, two of EvictionEvent.           *)
(*  - DerivedVariable: three inputs that change while it is created.       *)
(***************************************************************************)
EXTENDS ReactiveVariable

CONSTANTS Adds, Dones, Width, Evictors, Readers, LastSlot, N, InputValues, MaxWrites
VARIABLES subject,
    pendingElements, pendingElementsCounter, groupTriggered, groupPc, groupNext, removed,
    lastEvictedSlot, evictionEvents, eventsTriggered, evictor, slot, i, toEvict, evictMutex,
    wanted, event,
    input, writes, subscribed, inputMutex, derivedValue, updateMutex, derivedPc, current, args, derivedNext

Latest(old, new) == new
Distinct == [a1 |-> <<"x", "y">>, a2 |-> <<"z">>, d1 |-> <<"x", "z">>, d2 |-> <<"y">>, d3 |-> <<"z", "x">>]
Twice == [a1 |-> <<"x", "y">>, a2 |-> <<"x", "y">>, d1 |-> <<"x", "y">>, d2 |-> <<"y">>, d3 |-> <<"x">>]

WG == INSTANCE ReactiveWaitGroup WITH Args <- Distinct,
        triggered <- groupTriggered, pc <- groupPc, next <- groupNext
WG2 == INSTANCE ReactiveWaitGroup WITH Args <- Twice,
        triggered <- groupTriggered, pc <- groupPc, next <- groupNext
ES == INSTANCE EvictionState WITH triggered <- eventsTriggered, mutex <- evictMutex, toTrigger <- toEvict
DV == INSTANCE DerivedVariable WITH Value <- InputValues, mutex <- updateMutex, pc <- derivedPc,
        next <- derivedNext, executionMutex <- inputMutex, derived <- derivedValue
ASSUME Assumptions ==
    /\ WG!ArgsAssumption /\ WG2!ArgsAssumption /\ ES!SlotAssumption /\ DV!DerivedAssumption

groupVars == <<pendingElements, pendingElementsCounter, groupTriggered, groupPc, groupNext, removed>>
evictionVars == <<lastEvictedSlot, evictionEvents, eventsTriggered, evictor, slot, i, toEvict,
                  evictMutex, wanted, event>>
derivedVars == <<input, writes, subscribed, inputMutex, derivedValue, updateMutex, derivedPc,
                 current, args, derivedNext>>
allVars == <<subject, vars, groupVars, evictionVars, derivedVars>>

ReactiveInit ==
    /\ subject \in {"Variable", "WaitGroup", "WaitGroup, elements added twice", "EvictionState",
                    "DerivedVariable"}
    /\ Init /\ WG!Init /\ ES!Init /\ DV!Init
    /\ subject # "DerivedVariable" => input = DV!AllZero
ReactiveNext ==
    /\ \/ subject = "Variable" /\ Next /\ UNCHANGED <<groupVars, evictionVars, derivedVars>>
       \/ subject = "WaitGroup" /\ WG!Next /\ UNCHANGED <<vars, evictionVars, derivedVars>>
       \/ /\ subject = "WaitGroup, elements added twice"
          /\ WG2!Next /\ UNCHANGED <<vars, evictionVars, derivedVars>>
       \/ subject = "EvictionState" /\ ES!Next /\ UNCHANGED <<vars, groupVars, derivedVars>>
       \/ subject = "DerivedVariable" /\ DV!Next /\ UNCHANGED <<vars, groupVars, evictionVars>>
    /\ UNCHANGED subject

\* The fairness of Variable, as its FairSpec states it.
VariableStep(A) == subject = "Variable" /\ A
VariableFairness ==
    /\ \A w \in Writers : WF_vars(VariableStep(WriterStep(w)))
    /\ \A s \in Subscribers : /\ WF_vars(VariableStep(InitialInvoke(s)))
                              /\ SF_vars(VariableStep(MarkUnsubscribed(s)))
                              /\ WF_vars(VariableStep(Teardown(s)))
ReactiveSpec == ReactiveInit /\ [][ReactiveNext]_allVars /\ VariableFairness

\* WaitGroup: when all elements are done, the group was triggered (elements are added once).
AllDoneTriggers == subject = "WaitGroup" => WG!AllDoneTriggers
\* WaitGroup: Done does not decide to trigger while an element is pending or being added.
NeverEarly == WG!NeverEarly /\ WG2!NeverEarly
\* EvictionState: the events of evicted slots are triggered, and those only.
EventNotLost == subject = "EvictionState" => ES!EventNotLost
\* DerivedVariable: it settles on the current values of its inputs.
Consistent == subject = "DerivedVariable" => DV!Consistent
=============================================================================
