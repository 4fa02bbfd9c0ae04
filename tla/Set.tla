-------------------------------- MODULE Set --------------------------------
(***************************************************************************)
(* ds: the thread-safe Set of set_impl.go.  Its elements are the keys of   *)
(* an ordered map, each of whose operations is one step.  applyMutex makes *)
(* Apply, Compute and Replace, which take it as writers, exclude the calls *)
(* that change elements one by one, which take it as readers.              *)
(*                                                                         *)
(* sync.RWMutex: a Lock that is waiting for the readers to leave already   *)
(* keeps new readers out.                                                  *)
(***************************************************************************)
EXTENDS Integers, FiniteSets

CONSTANTS
    Processes,       \* goroutines, each making one call
    ElementType,
    Arguments,       \* the sets of elements the calls are given
    Operations       \* the calls that are made

Readers == {"AddAll", "DeleteAll"}              \* Add and Delete: of one element
Writers == {"Apply", "Compute", "Replace"}
SetAssumption == Operations \subseteq Readers \cup Writers /\ Arguments \subseteq SUBSET ElementType

NoOne == "no one"

VARIABLES
    elements,       \* the keys of the ordered map
    writer,         \* who called applyMutex.Lock()
    rlocks,         \* per process: the read locks it holds
    call,           \* per process: the operation, where it is, what is left to do
    before, reported  \* history: the elements at Lock; what was reported

vars == <<elements, writer, rlocks, call, before, reported>>

NoCall == [op |-> "none", pc |-> "start", add |-> {}, del |-> {}]

TypeOK ==
    /\ elements \subseteq ElementType /\ writer \in Processes \cup {NoOne}
    /\ rlocks \in [Processes -> 0 .. 2] /\ before \in [Processes -> SUBSET ElementType]
    /\ \A p \in Processes : reported[p].added \cup reported[p].deleted \subseteq ElementType

Init ==
    /\ elements = {} /\ writer = NoOne /\ rlocks = [p \in Processes |-> 0]
    /\ call = [p \in Processes |-> NoCall] /\ before = [p \in Processes |-> {}]
    /\ reported = [p \in Processes |-> [added |-> {}, deleted |-> {}]]

\* ------------------------------------------------------------------ applyMutex
\* Mutant: Add, AddAll, Delete and DeleteAll do not take applyMutex.
RLockMutant(p) == UNCHANGED <<rlocks, writer>>
RLock(p) ==
    /\ writer = NoOne
    /\ rlocks' = [rlocks EXCEPT ![p] = @ + 1] /\ UNCHANGED writer

Locked(p) == writer = p /\ \A q \in Processes : rlocks[q] = 0

GoTo(p, pc) == call' = [call EXCEPT ![p].pc = pc]

\* ---------------------------------------------- one step of the ordered map
Report(p, field, e) == reported' = [reported EXCEPT ![p][field] = @ \cup e]

\* s.Set(element): reported as added if it was not there.
SetElement(p, e) ==
    /\ elements' = elements \cup {e}
    /\ Report(p, "added", {e} \ elements)
    /\ call' = [call EXCEPT ![p].add = @ \ {e}]
DeleteElement(p, e) ==
    /\ elements' = elements \ {e}
    /\ Report(p, "deleted", {e} \cap elements)
    /\ call' = [call EXCEPT ![p].del = @ \ {e}]

\* ------------------------------------------- Add, AddAll, Delete and DeleteAll
StartReader(p, op, arg) ==
    /\ call[p].pc = "start" /\ RLock(p)
    /\ call' = [call EXCEPT ![p] = [op |-> op, pc |-> "loop",
                                    add |-> IF op = "AddAll" THEN arg ELSE {},
                                    del |-> IF op = "DeleteAll" THEN arg ELSE {}]]
    /\ UNCHANGED <<elements, before, reported>>

Add(p) ==
    /\ call[p].op = "AddAll" /\ call[p].pc = "loop"
    /\ \E e \in call[p].add : SetElement(p, e)
    /\ UNCHANGED <<writer, rlocks, before>>

\* DeleteAll calls Delete, which takes the read lock once more.
Delete(p) ==
    /\ call[p].op = "DeleteAll" /\ call[p].pc = "loop" /\ call[p].del # {}
    /\ RLock(p) /\ GoTo(p, "delete")
    /\ UNCHANGED <<elements, before, reported>>
DeleteReturns(p) ==
    /\ call[p].op = "DeleteAll" /\ call[p].pc = "delete"
    /\ \E e \in call[p].del :
          /\ elements' = elements \ {e} /\ Report(p, "deleted", {e} \cap elements)
          /\ call' = [call EXCEPT ![p].del = @ \ {e}, ![p].pc = "loop"]
    /\ rlocks' = [rlocks EXCEPT ![p] = @ - 1]
    /\ UNCHANGED <<writer, before>>

RUnlock(p) ==
    /\ call[p].op \in Readers /\ call[p].pc = "loop" /\ call[p].add \cup call[p].del = {}
    /\ rlocks' = [rlocks EXCEPT ![p] = 0] /\ GoTo(p, "done")
    /\ UNCHANGED <<elements, writer, before, reported>>

\* --------------------------------------------------- Apply, Compute and Replace
Lock(p, op, arg, del) ==
    /\ call[p].pc = "start" /\ writer = NoOne /\ writer' = p
    /\ call' = [call EXCEPT ![p] = [op |-> op, pc |-> "lock", add |-> arg, del |-> del]]
    /\ UNCHANGED <<elements, rlocks, before, reported>>

\* The mutations that Compute's factory computes from the set it is given: here those
\* that turn membership around.  Replace takes ToSlice() and calls Clear().
Enter(p) ==
    /\ call[p].pc = "lock" /\ Locked(p)
    /\ before' = [before EXCEPT ![p] = elements]
    /\ LET arg == call[p].add IN
       \/ /\ call[p].op = "Apply" /\ GoTo(p, "add") /\ UNCHANGED <<elements, reported>>
       \/ /\ call[p].op = "Compute" /\ UNCHANGED <<elements, reported>>
          /\ call' = [call EXCEPT ![p] = [@ EXCEPT !.pc = "add", !.add = arg \ elements,
                                                   !.del = arg \cap elements]]
       \/ /\ call[p].op = "Replace" /\ elements' = {} /\ Report(p, "deleted", elements)
          /\ call' = [call EXCEPT ![p].pc = "add", ![p].del = {}]
    /\ UNCHANGED <<writer, rlocks>>

\* apply: the elements to add, then those to delete.
ApplyAdd(p) ==
    /\ call[p].pc = "add" /\ \E e \in call[p].add : SetElement(p, e)
    /\ UNCHANGED <<writer, rlocks, before>>
ApplyDelete(p) ==
    /\ call[p].pc = "add" /\ call[p].add = {} /\ \E e \in call[p].del : DeleteElement(p, e)
    /\ UNCHANGED <<writer, rlocks, before>>

Unlock(p) ==
    /\ call[p].pc = "add" /\ call[p].add \cup call[p].del = {}
    /\ writer' = NoOne /\ GoTo(p, "done")
    /\ UNCHANGED <<elements, rlocks, before, reported>>

Start(p) ==
    \E arg \in Arguments :
        \/ \E op \in Operations \cap Readers : StartReader(p, op, arg)
        \/ \E op \in Operations \cap Writers, del \in Arguments :
               (op # "Apply" => del = arg) /\ Lock(p, op, arg, del)
Step(p) ==
    \/ Add(p) \/ Delete(p) \/ DeleteReturns(p) \/ RUnlock(p)
    \/ Enter(p) \/ ApplyAdd(p) \/ ApplyDelete(p) \/ Unlock(p)
Next == \E p \in Processes : Start(p) \/ Step(p)

Spec == Init /\ [][Next]_vars

\* ---------------------------------------------------------------- properties
Holds(e, s) == IF e \in s THEN 1 ELSE 0
Times(e, field) == Cardinality({p \in Processes : e \in reported[p][field]})

\* What the calls report accounts for the set: an element is in it iff it was reported
\* as added once more than as deleted; and what Apply, Compute or Replace changed
\* between Lock and Unlock is what it reports, with nothing of another call in between.
AppliedAtomically ==
    /\ \A e \in ElementType : Times(e, "added") - Times(e, "deleted") = Holds(e, elements)
    /\ \A p \in Processes :
          call[p].op \in Writers /\ call[p].pc = "add" =>
              elements = IF call[p].op = "Replace" THEN reported[p].added
                         ELSE (before[p] \cup reported[p].added) \ reported[p].deleted

\* No call waits for a lock that is never released.
NeverStuck == (\A p \in Processes : call[p].pc = "done") \/ ENABLED Next
=============================================================================
