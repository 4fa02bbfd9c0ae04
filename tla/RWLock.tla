------------------------------- MODULE RWLock -------------------------------
(***************************************************************************)
(* The contract of a reader/writer lock: "The lock can be held by an       *)
(* arbitrary number of readers or a single writer"                         *)
(* (runtime/syncutils/starvingmutex.go:16).  It says nothing about who is  *)
(* served first.  StarvingMutex is shown to implement it, and DAGMutex     *)
(* uses one such lock per entity.                                          *)
(***************************************************************************)
CONSTANT Procs
VARIABLES readers, writers     \* the processes that hold the lock

lockVars == <<readers, writers>>

Init == readers = {} /\ writers = {}

AcquireRead(p) ==
    /\ writers = {}
    /\ readers' = readers \cup {p}
    /\ UNCHANGED writers

ReleaseRead(p) ==
    /\ p \in readers
    /\ readers' = readers \ {p}
    /\ UNCHANGED writers

AcquireWrite(p) ==
    /\ writers = {} /\ readers = {}
    /\ writers' = {p}
    /\ UNCHANGED readers

ReleaseWrite(p) ==
    /\ p \in writers
    /\ writers' = writers \ {p}
    /\ UNCHANGED readers

Next == \E p \in Procs :
    AcquireRead(p) \/ ReleaseRead(p) \/ AcquireWrite(p) \/ ReleaseWrite(p)

Spec == Init /\ [][Next]_lockVars
=============================================================================
