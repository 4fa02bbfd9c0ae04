------------------------------- MODULE Counter -------------------------------
(***************************************************************************)
(* runtime/syncutils/counter.go in the tree that workerpool.Group builds:  *)
(* the PendingTasksCounter of every pool reports to the                    *)
(* PendingChildrenCounter of its group, and that one to its parent's.      *)
(* Subscribers run under valueMutex, so an update locks its way up the     *)
(* tree; each Broadcast follows the unlock of its own counter.             *)
(***************************************************************************)
EXTENDS Integers, FiniteSets, SequencesExt

CONSTANTS Pools, Groups, Root, Parent,  \* Parent: Pools and Groups \ {Root} to Groups
          Procs, Waiters, Target,       \* Target: the counter each waiter waits for
          MaxTasks                      \* bound on the pending tasks of a pool
Nodes == Pools \cup Groups
None == "none"
TreeAssumption == /\ Root \in Groups /\ Parent \in [Nodes \ {Root} -> Groups]
                         /\ Target \in [Waiters -> Nodes]

VARIABLES
    value, valueMutex,  \* per counter: its value and the process that holds its mutex
    pc,                 \* per process: "idle", "up", "unlock" or "broadcast"
    path,               \* per process: the nested updates <<counter, delta>>
    up,                 \* per process: the delta to apply to the next counter
    waiter              \* per waiter: "idle", "waiting", "parked" or "returned"
vars == <<value, valueMutex, pc, path, up, waiter>>

Init ==
    /\ value = [n \in Nodes |-> 0] /\ valueMutex = [n \in Nodes |-> None]
    /\ pc = [p \in Procs |-> "idle"] /\ path = [p \in Procs |-> <<>>]
    /\ up = [p \in Procs |-> 0]
    /\ waiter = [w \in Waiters |-> "idle"]

\* Mutant: only the first task of a pool is reported, not the last.
reportMutant(old, new) == IF old = 0 THEN 1 ELSE 0
\* What the subscriber of CreatePool and CreateGroup does to the parent.
report(old, new) == IF old = 0 THEN 1 ELSE IF new = 0 THEN -1 ELSE 0

\* Counter.update: change the value and, for a child, go on to the parent.
update(p, n, d) ==
    LET r == IF n = Root THEN 0 ELSE report(value[n], value[n] + d)
    IN  /\ valueMutex[n] = None
        /\ valueMutex' = [valueMutex EXCEPT ![n] = p]
        /\ value' = [value EXCEPT ![n] = @ + d]
        /\ path' = [path EXCEPT ![p] = Append(@, <<n, d>>)]
        /\ up' = [up EXCEPT ![p] = r]
        /\ pc' = [pc EXCEPT ![p] = IF r = 0 THEN "unlock" ELSE "up"]
        /\ UNCHANGED waiter

Increase(p) == pc[p] = "idle" /\ \E n \in Pools : value[n] < MaxTasks /\ update(p, n, 1)
\* Decrease follows an Increase of the same task.
Decrease(p) == pc[p] = "idle" /\ \E n \in Pools : value[n] > 0 /\ update(p, n, -1)
Notify(p)   == pc[p] = "up" /\ update(p, Parent[Last(path[p])[1]], up[p])

Unlock(p) ==
    /\ pc[p] = "unlock"
    /\ valueMutex' = [valueMutex EXCEPT ![Last(path[p])[1]] = None]
    /\ pc' = [pc EXCEPT ![p] = "broadcast"]
    /\ UNCHANGED <<value, path, up, waiter>>

\* WaitIsBelow waits on valueDecreasedCond.
Wakes(d) == d <= -1

\* Mutant: nobody is woken.
BroadcastMutant(p) ==
    /\ pc[p] = "broadcast"
    /\ path' = [path EXCEPT ![p] = Front(@)]
    /\ pc' = [pc EXCEPT ![p] = IF Len(path[p]) = 1 THEN "idle" ELSE "unlock"]
    /\ up' = [up EXCEPT ![p] = 0]
    /\ UNCHANGED <<value, valueMutex, waiter>>
Broadcast(p) ==
    LET n == Last(path[p])[1]  d == Last(path[p])[2]
    IN  /\ pc[p] = "broadcast"
        /\ waiter' = [w \in Waiters |-> IF Wakes(d) /\ Target[w] = n /\ waiter[w] = "parked"
                                        THEN "waiting" ELSE waiter[w]]
        /\ path' = [path EXCEPT ![p] = Front(@)]
        /\ pc' = [pc EXCEPT ![p] = IF Len(path[p]) = 1 THEN "idle" ELSE "unlock"]
        /\ up' = [up EXCEPT ![p] = 0]
        /\ UNCHANGED <<value, valueMutex>>

\* WaitIsZero: the pool's dispatcher, WaitChildren, WaitParents, Group.Shutdown.
WaitIsZero(w) ==
    /\ waiter[w] = "idle" /\ waiter' = [waiter EXCEPT ![w] = "waiting"]
    /\ UNCHANGED <<value, valueMutex, pc, path, up>>
WaitIsBelow(w) ==
    /\ waiter[w] = "waiting" /\ valueMutex[Target[w]] = None
    /\ waiter' = [waiter EXCEPT ![w] = IF value[Target[w]] >= 1 THEN "parked" ELSE "returned"]
    /\ UNCHANGED <<value, valueMutex, pc, path, up>>

Step(p) == Notify(p) \/ Unlock(p) \/ Broadcast(p)
Call(p) == Increase(p) \/ Decrease(p)
Next == \/ \E p \in Procs : Call(p) \/ Step(p)
        \/ \E w \in Waiters : WaitIsZero(w) \/ WaitIsBelow(w)

Spec == Init /\ [][Next]_vars
-----------------------------------------------------------------------------
Children(g) == {n \in Nodes \ {Root} : Parent[n] = g}
\* The reports to g that are still on their way.
OnTheWay(g) == {p \in Procs : pc[p] = "up" /\ Last(path[p])[1] \in Children(g)}
\* PendingChildrenCounter is the number of children that are pending, up to the
\* reports of updates that are still under way.
GroupCountExact == \A g \in Groups :
    value[g] + Cardinality({p \in OnTheWay(g) : up[p] = 1})
             - Cardinality({p \in OnTheWay(g) : up[p] = -1})
        = Cardinality({n \in Children(g) : value[n] > 0})

\* A waiter is not left parked on a counter that is zero: whoever brought it
\* down has its Broadcast ahead.
NoLostWakeup == \A w \in Waiters :
    waiter[w] = "parked" /\ value[Target[w]] = 0 =>
        \E p \in Procs : \E i \in DOMAIN path[p] : path[p][i] = <<Target[w], -1>>
=============================================================================
