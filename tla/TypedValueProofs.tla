-------------------------- MODULE TypedValueProofs --------------------------
(***************************************************************************)
(* Proofs about TypedValue, for any set of callers and values, as long as  *)
(* computeFunc returns values that encode.                                 *)
(***************************************************************************)
EXTENDS TypedValue, TLAPS

\* CacheCoherent is inductive once the types are known.
IInv == TypeOK /\ CacheCoherent

\* A new object knows nothing, which agrees with any store.
LEMMA InitInv == ASSUME TypedValueAssumption PROVE Init => IInv
BY DEF TypedValueAssumption, Init, IInv, TypeOK, CacheCoherent, Quiet

\* Every step changes the caches and the store together, or leaves the store alone.
LEMMA StepInv == ASSUME TypedValueAssumption, ~ ComputesAny, IInv, [Next]_vars PROVE IInv'
<1> USE DEF TypedValueAssumption, IInv, TypeOK, CacheCoherent, cache
<1>1. CASE Restart BY <1>1 DEF Restart, Quiet
<1>2. ASSUME NEW c \in Callers, GetFast(c) PROVE IInv' BY <1>2 DEF GetFast
<1>3. ASSUME NEW c \in Callers, GetSlow(c) PROVE IInv' BY <1>3 DEF GetSlow
<1>4. ASSUME NEW c \in Callers, HasFast(c) PROVE IInv' BY <1>4 DEF HasFast, Answer
<1>5. ASSUME NEW c \in Callers, HasSlow(c) PROVE IInv' BY <1>5 DEF HasSlow, Answer
<1>6. ASSUME NEW c \in Callers, Compute(c) PROVE IInv' BY <1>6 DEF Compute, Bytes
<1>7. ASSUME NEW c \in Callers, Set(c) PROVE IInv' BY <1>7 DEF Set, Bytes, Quiet
<1>8. ASSUME NEW c \in Callers, Delete(c) PROVE IInv' BY <1>8 DEF Delete, Quiet
<1>9. CASE UNCHANGED vars BY <1>9 DEF vars
<1> QED BY <1>1, <1>2, <1>3, <1>4, <1>5, <1>6, <1>7, <1>8, <1>9 DEF Next

\* The caches agree with the store and with each other in every state.
THEOREM Coherence == ASSUME TypedValueAssumption, ~ ComputesAny PROVE Spec => []CacheCoherent
<1>1. IInv /\ [Next]_vars => IInv' BY StepInv
<1>2. IInv => CacheCoherent BY DEF IInv
<1> QED BY <1>1, <1>2, InitInv, PTL DEF Spec

\* The pointer that Compute dereferences is never nil.
THEOREM Dereference == ASSUME TypedValueAssumption, ~ ComputesAny PROVE Spec => []NoNilDereference
<1>1. CacheCoherent => NoNilDereference BY DEF CacheCoherent, NoNilDereference
<1> QED BY <1>1, Coherence, PTL

\* The answers follow from the coherence of the caches before the step.
LEMMA StepAnswers ==
    ASSUME TypedValueAssumption, ~ ComputesAny, IInv, AnswersCurrent, ComputedIsStored, [Next]_vars
    PROVE  AnswersCurrent' /\ ComputedIsStored'
<1> USE DEF TypedValueAssumption, IInv, TypeOK, CacheCoherent, AnswersCurrent, ComputedIsStored, cache
<1>1. CASE Restart BY <1>1 DEF Restart, Quiet
<1>2. ASSUME NEW c \in Callers, GetFast(c) PROVE AnswersCurrent' /\ ComputedIsStored'
  BY <1>2 DEF GetFast, Hit, Cached
<1>3. ASSUME NEW c \in Callers, GetSlow(c) PROVE AnswersCurrent' /\ ComputedIsStored'
  BY <1>3 DEF GetSlow, Hit, Cached
<1>4. ASSUME NEW c \in Callers, HasFast(c) PROVE AnswersCurrent' /\ ComputedIsStored'
  BY <1>4 DEF HasFast, Answer
<1>5. ASSUME NEW c \in Callers, HasSlow(c) PROVE AnswersCurrent' /\ ComputedIsStored'
  BY <1>5 DEF HasSlow, Answer
<1>6. ASSUME NEW c \in Callers, Compute(c) PROVE AnswersCurrent' /\ ComputedIsStored'
  <2>1. Argument = stored BY DEF Argument, Reads
  <2> QED BY <1>6, <2>1 DEF Compute, Bytes
<1>7. ASSUME NEW c \in Callers, Set(c) PROVE AnswersCurrent' /\ ComputedIsStored' BY <1>7 DEF Set, Quiet
<1>8. ASSUME NEW c \in Callers, Delete(c) PROVE AnswersCurrent' /\ ComputedIsStored' BY <1>8 DEF Delete, Quiet
<1>9. CASE UNCHANGED vars BY <1>9 DEF vars
<1> QED BY <1>1, <1>2, <1>3, <1>4, <1>5, <1>6, <1>7, <1>8, <1>9 DEF Next

\* Get, Has and Compute answer for the store, not for a stale cache, and a successful Compute has
\* stored its value, however the calls of any number of callers interleave with failures and
\* restarts.
THEOREM Answers == ASSUME TypedValueAssumption, ~ ComputesAny PROVE Spec => [](AnswersCurrent /\ ComputedIsStored)
<1>1. IInv /\ [Next]_vars => IInv' BY StepInv
<1>2. Init => AnswersCurrent /\ ComputedIsStored BY DEF Init, Quiet, AnswersCurrent, ComputedIsStored
<1>3. IInv /\ AnswersCurrent /\ ComputedIsStored /\ [Next]_vars => AnswersCurrent' /\ ComputedIsStored'
  BY StepAnswers
<1> QED BY <1>1, <1>2, <1>3, InitInv, PTL DEF Spec
=============================================================================
