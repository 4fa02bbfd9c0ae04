----------------------------- MODULE TypedValue -----------------------------
(***************************************************************************)
(* kvstore.TypedValue: one key of a store, with a cache of its value and a *)
(* cache of its existence, each of which may be unknown.  The object is    *)
(* the only user of the key.  A call of the store may fail and then has no *)
(* effect; bytes may not decode and values may not encode.                 *)
(***************************************************************************)
CONSTANTS
    Callers, Value,
    Unencodable,        \* the values that vToBytes fails on
    ComputesAny,        \* may computeFunc return one of them?
    Absent, Garbage,    \* the store has no such key; it holds bytes that do not decode
    Nil, Error          \* a nil pointer; a call returned an error
TypedValueAssumption ==
    /\ Unencodable \subseteq Value /\ Garbage # Absent /\ Error \notin {Absent, Garbage, Nil}
    /\ {Absent, Garbage, Nil, Error} \cap Value = {}

VARIABLES
    stored,             \* what the store holds: a value, Garbage or Absent
    valueCached,        \* a value or Nil
    hasCached,          \* "true", "false" or "nil"
    pc,                 \* per caller: "idle", or waiting for the write lock in "get" or "has"
    result              \* the last call that ended: its kind and what it told its caller
vars == <<stored, valueCached, hasCached, pc, result>>
cache == <<valueCached, hasCached>>

Quiet == [op |-> "none", out |-> Nil]
Init ==
    /\ stored \in (Value \ Unencodable) \cup {Garbage, Absent} /\ valueCached = Nil /\ hasCached = "nil"
    /\ pc = [c \in Callers |-> "idle"] /\ result = Quiet

\* The process starts again with a new object.
Restart ==
    /\ valueCached' = Nil /\ hasCached' = "nil"
    /\ pc' = [c \in Callers |-> "idle"] /\ result' = Quiet /\ UNCHANGED stored

\* vToBytes, and the bytes that come with an error of it
Bytes(v) == IF v \in Unencodable THEN Garbage ELSE v

Hit == hasCached = "false" \/ valueCached # Nil
Cached == IF hasCached = "false" THEN Absent ELSE valueCached

\* Get looks at the cache under the read lock, and tries again under the write lock.
GetFast(c) ==
    /\ pc[c] = "idle" /\ UNCHANGED <<stored, cache>>
    /\ \/ Hit /\ result' = [op |-> "get", out |-> Cached] /\ UNCHANGED pc
       \/ ~ Hit /\ pc' = [pc EXCEPT ![c] = "get"] /\ UNCHANGED result

GetSlow(c) ==
    /\ pc[c] = "get" /\ pc' = [pc EXCEPT ![c] = "idle"] /\ UNCHANGED stored
    /\ \/ Hit /\ result' = [op |-> "get", out |-> Cached] /\ UNCHANGED cache
       \/ ~ Hit /\ result' = [op |-> "get", out |-> Error] /\ UNCHANGED cache
       \/ /\ ~ Hit /\ stored = Absent
          /\ hasCached' = "false" /\ result' = [op |-> "get", out |-> Absent] /\ UNCHANGED valueCached
       \/ /\ ~ Hit /\ stored \in Value
          /\ valueCached' = stored /\ hasCached' = "true" /\ result' = [op |-> "get", out |-> stored]

Answer(has) == [op |-> "has", out |-> has]
HasFast(c) ==
    /\ pc[c] = "idle" /\ UNCHANGED <<stored, cache>>
    /\ \/ hasCached # "nil" /\ result' = Answer(hasCached) /\ UNCHANGED pc
       \/ hasCached = "nil" /\ pc' = [pc EXCEPT ![c] = "has"] /\ UNCHANGED result
HasSlow(c) ==
    /\ pc[c] = "has" /\ pc' = [pc EXCEPT ![c] = "idle"] /\ UNCHANGED <<stored, valueCached>>
    /\ \/ hasCached # "nil" /\ result' = Answer(hasCached) /\ UNCHANGED hasCached
       \/ hasCached = "nil" /\ result' = Answer(Error) /\ UNCHANGED hasCached
       \/ /\ hasCached = "nil" /\ hasCached' = (IF stored = Absent THEN "false" ELSE "true")
          /\ result' = Answer(hasCached')

\* The argument of computeFunc: the cached value, or what the store holds when the cache does not
\* say that the key is absent.
Reads == (valueCached = Nil /\ hasCached = "nil") \/ hasCached = "true"
Argument ==
    IF Reads /\ stored # Absent THEN stored ELSE IF valueCached # Nil THEN valueCached ELSE Absent

\* Compute.  The read may fail, the bytes may not decode, computeFunc may fail or change nothing,
\* the write may fail.  That the new value does not encode goes unnoticed.
Compute(c) ==
    LET saw == [op |-> "compute", out |-> Argument]
        computed == IF ComputesAny THEN Value ELSE Value \ Unencodable
    IN
    /\ pc[c] = "idle" /\ UNCHANGED pc
    /\ \/ Reads /\ result' = [op |-> "compute", out |-> Error] /\ UNCHANGED <<stored, cache>>
       \/ Argument # Garbage /\ result' = saw /\ UNCHANGED <<stored, cache>>
       \/ /\ Argument # Garbage
          /\ \E v \in computed :
                /\ stored' = Bytes(v) /\ valueCached' = v /\ hasCached' = "true"
                /\ result' = [op |-> "computed", out |-> v]

\* Set.  Mutant: a failed write is not noticed.
SetMutant(c) ==
    /\ pc[c] = "idle" /\ UNCHANGED pc /\ result' = Quiet
    /\ \E v \in Value \ Unencodable :
        stored' \in {stored, Bytes(v)} /\ valueCached' = v /\ hasCached' = "true"
Set(c) ==
    /\ pc[c] = "idle" /\ UNCHANGED pc /\ result' = Quiet
    /\ \/ UNCHANGED <<stored, cache>>
       \/ \E v \in Value \ Unencodable :
            stored' = Bytes(v) /\ valueCached' = v /\ hasCached' = "true"

\* Delete.  Mutant: the value stays in the cache.
DeleteMutant(c) ==
    /\ pc[c] = "idle" /\ stored' = Absent /\ hasCached' = "false" /\ result' = Quiet
    /\ UNCHANGED <<pc, valueCached>>
Delete(c) ==
    /\ pc[c] = "idle" /\ UNCHANGED pc /\ result' = Quiet
    /\ \/ UNCHANGED <<stored, cache>>
       \/ stored' = Absent /\ valueCached' = Nil /\ hasCached' = "false"

Next ==
    \/ Restart
    \/ \E c \in Callers :
        \/ GetFast(c) \/ GetSlow(c) \/ HasFast(c) \/ HasSlow(c)
        \/ Compute(c) \/ Set(c) \/ Delete(c)

Spec == Init /\ [][Next]_vars

-----------------------------------------------------------------------------
TypeOK ==
    /\ stored \in Value \cup {Garbage, Absent} /\ valueCached \in Value \cup {Nil}
    /\ hasCached \in {"true", "false", "nil"} /\ pc \in [Callers -> {"idle", "get", "has"}]
    /\ result.op \in {"none", "get", "has", "compute", "computed"}

\* The two caches never disagree with the store or with each other, whatever failed before: a
\* cached value is the stored one, and a cached answer of Has is the right one.
CacheCoherent ==
    /\ valueCached # Nil => stored = valueCached /\ hasCached = "true"
    /\ hasCached = "true" => stored # Absent
    /\ hasCached = "false" => stored = Absent

\* Compute dereferences hasCached whenever a value is cached: it is not nil then.
NoNilDereference == valueCached # Nil => hasCached # "nil"

\* A call tells its caller what the store holds when the call takes effect, or that it failed:
\* Get the value, Has its existence, Compute the value that computeFunc is applied to.
AnswersCurrent ==
    /\ result.op \in {"get", "compute"} => result.out \in {Error, stored}
    /\ result.op = "has" => result.out \in {Error, IF stored = Absent THEN "false" ELSE "true"}

\* "Compute atomically computes and sets a new value": when it succeeds, the store holds the new
\* value, and it is there after a restart.
ComputedIsStored == result.op = "computed" => stored = result.out
=============================================================================
