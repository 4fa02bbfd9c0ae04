------------------------------ MODULE Sequence ------------------------------
(***************************************************************************)
(* kvstore.Sequence: increasing integers backed by one key of a store.  An *)
(* object leases an interval of numbers by writing its end to the store,   *)
(* and hands them out from memory.  The process may crash between any two  *)
(* steps; a new object then starts from what the store holds.  A call of   *)
(* the store may fail and then has no effect.  One object uses a key at a  *)
(* time.  Numbers have a width: they are taken modulo Modulus (2^64 in the *)
(* code).                                                                  *)
(***************************************************************************)
EXTENDS Integers

CONSTANTS
    Modulus, Intervals, \* width of the numbers; the intervals objects are created with
    FreshRelease,       \* may Release be called before Next ever succeeded?
    Wraps               \* may a lease run past the width?
ASSUME SequenceAssumption ==
    /\ Modulus \in Nat \ {0} /\ Intervals \subseteq 1 .. Modulus - 1
    /\ FreshRelease \in BOOLEAN /\ Wraps \in BOOLEAN

Numbers == 0 .. Modulus - 1
None == -1

VARIABLES
    stored,                     \* the number the store holds, or None: no such key
    pc,                         \* "closed", or the location in Next or Release
    next, reserved, interval,   \* the fields of the object
    issued,                     \* the last number Next returned (history)
    clean                       \* was every object but this one released before it was dropped? (history)
vars == <<stored, pc, next, reserved, interval, issued, clean>>

Init ==
    /\ stored = None /\ pc = "closed" /\ next = 0 /\ reserved = 0 /\ interval = 0
    /\ issued = None /\ clean = TRUE

NewSequence ==
    /\ pc = "closed" /\ pc' = "idle" /\ next' = 0 /\ reserved' = 0 /\ interval' \in Intervals
    /\ UNCHANGED <<stored, issued, clean>>

\* The object is dropped, by a crash or otherwise, wherever its caller is.
Drop ==
    /\ pc # "closed" /\ pc' = "closed"
    /\ clean' = (clean /\ (reserved = next \/ (reserved = 0 /\ pc = "idle")))
    /\ UNCHANGED <<stored, next, reserved, interval, issued>>

\* Next hands out a number of the lease.
NextFromMemory ==
    /\ pc = "idle" /\ next < reserved
    /\ issued' = next /\ next' = next + 1
    /\ UNCHANGED <<stored, pc, reserved, interval, clean>>

\* Next finds the lease used up: update reads the store.  A failed read returns the error.
\* Mutant: the object goes on from its own number.
ReadStoreMutant ==
    /\ pc = "idle" /\ next >= reserved
    /\ pc' = "update" /\ UNCHANGED <<stored, next, reserved, interval, issued, clean>>
ReadStore ==
    /\ pc = "idle" /\ next >= reserved
    /\ \/ pc' = "update" /\ next' = (IF stored = None THEN 0 ELSE stored)
       \/ UNCHANGED <<pc, next>>
    /\ UNCHANGED <<stored, reserved, interval, issued, clean>>

\* update writes the end of the new lease, and only then takes it.
\* Mutant: the lease is taken although the write failed.
WriteStoreMutant ==
    LET end == (next + interval) % Modulus IN
    /\ pc = "update" /\ (Wraps \/ next + interval < Modulus)
    /\ \/ stored' = end /\ pc' = "return"
       \/ stored' = stored /\ pc' = "idle"
    /\ reserved' = end
    /\ UNCHANGED <<next, interval, issued, clean>>
WriteStore ==
    LET end == (next + interval) % Modulus IN
    /\ pc = "update" /\ (Wraps \/ next + interval < Modulus)
    /\ \/ stored' = end /\ reserved' = end /\ pc' = "return"
       \/ UNCHANGED <<stored, reserved>> /\ pc' = "idle"
    /\ UNCHANGED <<next, interval, issued, clean>>

\* Next returns the first number of the new lease.
NextReturns ==
    /\ pc = "return" /\ pc' = "idle"
    /\ issued' = next /\ next' = (next + 1) % Modulus
    /\ UNCHANGED <<stored, reserved, interval, clean>>

\* Release gives the rest of the lease back: first in the store, then in memory.
\* Mutant: the memory keeps the lease.
ReleaseMutant ==
    /\ pc = "idle" /\ (FreshRelease \/ reserved # 0)
    /\ stored' = next
    /\ UNCHANGED <<pc, next, reserved, interval, issued, clean>>
Release ==
    /\ pc = "idle" /\ (FreshRelease \/ reserved # 0)
    /\ \/ stored' = next /\ pc' = "release"
       \/ UNCHANGED <<stored, pc>>
    /\ UNCHANGED <<next, reserved, interval, issued, clean>>
ReleaseReturns ==
    /\ pc = "release" /\ pc' = "idle" /\ reserved' = next
    /\ UNCHANGED <<stored, next, interval, issued, clean>>

Next ==
    \/ NewSequence \/ Drop \/ NextFromMemory \/ ReadStore \/ WriteStore \/ NextReturns
    \/ Release \/ ReleaseReturns

Spec == Init /\ [][Next]_vars

-----------------------------------------------------------------------------
TypeOK ==
    /\ stored \in Numbers \cup {None} /\ pc \in {"closed", "idle", "update", "return", "release"}
    /\ next \in Numbers /\ reserved \in Numbers /\ interval \in Intervals \cup {0}
    /\ issued \in Numbers \cup {None} /\ clean \in BOOLEAN

\* "A Sequence can be used to get a list of monotonically increasing integers": no number is
\* returned twice or after a larger one, whatever object returns it and wherever the process
\* crashed before.
Increasing == [][NextFromMemory \/ NextReturns => issued' > issued]_vars

\* What makes a crash harmless: the store is always ahead of every number handed out, so that an
\* object that starts from the store cannot meet one of them.
StoreAhead == issued = None \/ (stored # None /\ issued < stored)

\* "Release the leased sequence to avoid wasted integers": while every object that is dropped
\* was released first, not a single integer is skipped, store failures included.
NoWaste == [][(NextFromMemory \/ NextReturns) /\ clean => issued' = issued + 1]_vars
=============================================================================
