----------------------------- MODULE MCKVStore -----------------------------
(***************************************************************************)
(* The objects that write to a kvstore, in one run.  A behaviour uses one  *)
(* of them, its subject.                                                   *)
(*  - Sequence: objects with different intervals, crashes in between.      *)
(*  - TypedValue: three callers, a value that does not encode.             *)
(*  - BatchedWriter: two callers, two objects, a queue of one; with        *)
(*    fairness.                                                            *)
(***************************************************************************)
EXTENDS Sequence

CONSTANTS Callers, Value, Unencodable, ComputesAny, Absent, Garbage, Nil, Error,
          Enqueuers, Objects, QueueSize, BatchSize, MaxChanges, Timeouts, EarlyStop, Overlap
VARIABLES subject, storedValue, valueCached, hasCached, valuePc, result,
    running, autoStart, writeWg, scheduledCount, queue, flushChan, scheduled, version, saved, due,
    writerPc, object, content, wpc, after, hand, batch, committed, stop
TV == INSTANCE TypedValue WITH stored <- storedValue, pc <- valuePc
BW == INSTANCE BatchedWriter WITH Callers <- Enqueuers, pc <- writerPc
ASSUME Assumption == TV!TypedValueAssumption /\ BW!BatchedWriterAssumption

valueVars == <<storedValue, valueCached, hasCached, valuePc, result>>
writerVars == <<running, autoStart, writeWg, scheduledCount, queue, flushChan, scheduled, version,
                saved, due, writerPc, object, content, wpc, after, hand, batch, committed, stop>>
KVInit == /\ subject \in {"Sequence", "TypedValue", "BatchedWriter"}
          /\ Init /\ TV!Init /\ BW!Init
          /\ subject # "TypedValue" => storedValue = Absent
KVNext == /\ \/ subject = "Sequence" /\ Next /\ UNCHANGED <<valueVars, writerVars>>
             \/ subject = "TypedValue" /\ TV!Next /\ UNCHANGED <<vars, writerVars>>
             \/ subject = "BatchedWriter" /\ BW!Next /\ UNCHANGED <<vars, valueVars>>
          /\ UNCHANGED subject
\* The fairness of BatchedWriter, as its FairSpec states it.
WriterFairness ==
    /\ WF_writerVars(BW!Writer) /\ SF_writerVars(BW!Receive) /\ WF_writerVars(BW!StopReturns)
    /\ \A c \in Enqueuers : WF_writerVars(BW!InEnqueue(c)) /\ SF_writerVars(BW!Send(c))
KVSpec == KVInit /\ [][KVNext]_<<subject, vars, valueVars, writerVars>> /\ WriterFairness

\* TypedValue: a call answers with what the store holds.
AnswersCurrent == TV!AnswersCurrent
\* BatchedWriter: what Enqueue returned for is in the store or on its way, and in the store when
\* the writer has stopped.
NoLostUpdate == BW!NoLostUpdate /\ BW!WrittenOnStop
\* BatchedWriter: the store catches up with the contents Enqueue returned for.
EnqueuedIsWritten == BW!EnqueuedIsWritten
=============================================================================
