------------------------------- MODULE Stores -------------------------------
(***************************************************************************)
(* kvstore/mapdb: the in-memory store with batched mutations.  A mapDB has *)
(* a lock of its own around the locked map, which Commit holds while it    *)
(* applies a batch key by key.  Iterate does not take it, and the stores   *)
(* WithRealm returns share the map but not the lock: the readers here use  *)
(* Get, on the object the batch belongs to.                                *)
(*                                                                         *)
(* kvstore/flushkv and the StoreHealthTracker, on a store that loses what  *)
(* was not flushed when the process crashes.  The store is external: its   *)
(* writes become durable in the order they were made, at the latest with   *)
(* Flush; a write or a Flush may fail.  A data key holds the version of    *)
(* the program that wrote it, so that a migration is visible.              *)
(*                                                                         *)
(* ads: the authenticated map.  Its tree lives in memory and Commit makes  *)
(* it durable; the raw keys and the size are written with every change.    *)
(* The sparse merkle tree is external: a root stands for the contents it   *)
(* is the hash of, and the stored nodes for the contents they make up.     *)
(***************************************************************************)
EXTENDS Integers, FiniteSets, Sequences, SequencesExt

CONSTANTS Keys, Values, Batches, Readers, MaxMutations, Absent, Nil,
          DataKeys, Versions, MaxPending,
          SizeBits,        \* width of the stored size
          Marks            \* the marks of the health tracker that are made, "dbCorrupted" among them
VARIABLES m,               \* the map of mapDB
          mutex,           \* the batch whose Commit holds the lock, or Nil
          closed,
          batch,           \* setOperations, deleteOperations, what Commit still applies
          mutations,       \* number of mutations put into batches
          committed,       \* the map if commits were atomic (history)
          answer           \* the last answer of each reader and the right one (history)
VARIABLES durable,         \* what a crash leaves of the store
          pending,         \* writes that are not flushed, in order
          call,            \* the call that runs
          storeVersion,    \* of the running program, 0 when it is down
          ready,           \* the program found or made the version correct
          allowed          \* key -> values it may have after a crash (history)
VARIABLES tree,            \* the tree of authenticatedMap: key -> value or Absent, or Nil while down
          imported,        \* the nodes of the stored root were there when the map was opened
          nodes,           \* the contents of which the nodes are stored
          root, size, rawKeys,  \* what the store has of these
          mapCall,         \* the call that holds the mutex
          lastCommit,      \* contents at the last Commit that returned (history)
          intact           \* no call was cut off or failed, and no change was lost (history)
mapVars == <<m, mutex, closed, batch, mutations, committed, answer>>
storeVars == <<durable, pending, call, storeVersion, ready, allowed>>
adsVars == <<tree, imported, nodes, root, size, rawKeys, mapCall, lastCommit, intact>>

Fresh == [sets |-> [k \in Keys |-> Absent], deletes |-> {}, log |-> <<>>, commit |-> "no",
          toSet |-> {}, toDelete |-> {}]
MapInit == /\ m = [k \in Keys |-> Absent] /\ committed = m
           /\ mutex = Nil /\ closed = FALSE /\ mutations = 0
           /\ batch = [b \in Batches |-> Fresh]
           /\ answer = [r \in Readers |-> <<Absent, Absent>>]

\* A write under the lock, of all its keys at once.
Write(keys, v) ==
    /\ ~closed /\ mutex = Nil /\ mutations < MaxMutations
    /\ m' = [k \in Keys |-> IF k \in keys THEN v ELSE m[k]]
    /\ committed' = [k \in Keys |-> IF k \in keys THEN v ELSE committed[k]]
    /\ mutations' = mutations + 1
    /\ UNCHANGED <<mutex, closed, batch, answer>>
\* mapDB.Set, Delete, DeletePrefix and Clear.
Set(k, v) == Write({k}, v)
Delete(k) == Write({k}, Absent)
DeletePrefix(keys) == Write(keys, Absent)
Clear == Write(Keys, Absent)

Free(b) == batch[b].commit # "applies" /\ mutations < MaxMutations
BatchSetMutant(b, k, v) ==
    /\ Free(b)
    /\ batch' = [batch EXCEPT ![b].sets[k] = v, ![b].log = Append(@, <<k, v>>)]
    /\ mutations' = mutations + 1
    /\ UNCHANGED <<m, mutex, closed, committed, answer>>
\* batchedMutations.Set
BatchSet(b, k, v) ==
    /\ Free(b)
    /\ batch' = [batch EXCEPT ![b].sets[k] = v, ![b].deletes = @ \ {k}, ![b].log = Append(@, <<k, v>>)]
    /\ mutations' = mutations + 1
    /\ UNCHANGED <<m, mutex, closed, committed, answer>>

\* batchedMutations.Delete
BatchDelete(b, k) ==
    /\ Free(b)
    /\ batch' = [batch EXCEPT ![b].sets[k] = Absent, ![b].deletes = @ \cup {k},
                              ![b].log = Append(@, <<k, Absent>>)]
    /\ mutations' = mutations + 1
    /\ UNCHANGED <<m, mutex, closed, committed, answer>>

\* batchedMutations.Cancel
Cancel(b) ==
    /\ batch[b].commit # "applies" /\ batch[b].log # <<>>
    /\ batch' = [batch EXCEPT ![b] = [Fresh EXCEPT !.commit = batch[b].commit]]
    /\ UNCHANGED <<m, mutex, closed, mutations, committed, answer>>

\* Commit: the check, before the locks.
Commit(b) ==
    /\ batch[b].commit = "no" /\ ~closed
    /\ batch' = [batch EXCEPT ![b].commit = "checked"]
    /\ UNCHANGED <<m, mutex, closed, mutations, committed, answer>>

\* Commit takes the locks; the mutations of the batch are due in the order they were made.
LockStore(b) ==
    /\ batch[b].commit = "checked" /\ mutex = Nil /\ mutex' = b
    /\ batch' = [batch EXCEPT ![b].commit = "applies", ![b].toDelete = batch[b].deletes,
                    ![b].toSet = {k \in Keys : batch[b].sets[k] # Absent}]
    /\ committed' = FoldLeft(LAMBDA s, op : [s EXCEPT ![op[1]] = op[2]], committed, batch[b].log)
    /\ UNCHANGED <<m, closed, mutations, answer>>

\* Commit: one of the sets, in the order of the map; after the last one, one of the deletes.
ApplySet(b, k) ==
    /\ mutex = b /\ k \in batch[b].toSet
    /\ m' = [m EXCEPT ![k] = batch[b].sets[k]]
    /\ batch' = [batch EXCEPT ![b].toSet = @ \ {k}]
    /\ UNCHANGED <<mutex, closed, mutations, committed, answer>>
ApplyDelete(b, k) ==
    /\ mutex = b /\ batch[b].toSet = {} /\ k \in batch[b].toDelete
    /\ m' = [m EXCEPT ![k] = Absent]
    /\ batch' = [batch EXCEPT ![b].toDelete = @ \ {k}]
    /\ UNCHANGED <<mutex, closed, mutations, committed, answer>>

\* Commit returns.  The batch keeps its mutations and may be committed again.
Unlock(b) ==
    /\ mutex = b /\ batch[b].toSet = {} /\ batch[b].toDelete = {} /\ mutex' = Nil
    /\ batch' = [batch EXCEPT ![b].commit = "no"]
    /\ UNCHANGED <<m, closed, mutations, committed, answer>>

GetMutant(r, k) ==
    /\ ~closed
    /\ answer' = [answer EXCEPT ![r] = <<m[k], committed[k]>>]
    /\ UNCHANGED <<m, mutex, closed, batch, mutations, committed>>
\* mapDB.Get and Has, on the object of the batches.
Get(r, k) ==
    /\ ~closed /\ mutex = Nil
    /\ answer' = [answer EXCEPT ![r] = <<m[k], committed[k]>>]
    /\ UNCHANGED <<m, mutex, closed, batch, mutations, committed>>

\* mapDB.Close
Close == /\ ~closed /\ closed' = TRUE
         /\ UNCHANGED <<m, mutex, batch, mutations, committed, answer>>

MapNext ==
    \/ \E k \in Keys : Delete(k) \/ \E v \in Values : Set(k, v)
    \/ \E keys \in SUBSET Keys : DeletePrefix(keys)
    \/ Clear
    \/ \E b \in Batches :
          \/ \E k \in Keys : \/ \E v \in Values : BatchSet(b, k, v)
                            \/ BatchDelete(b, k) \/ ApplySet(b, k) \/ ApplyDelete(b, k)
          \/ Cancel(b) \/ Commit(b) \/ LockStore(b) \/ Unlock(b)
    \/ \E r \in Readers, k \in Keys : Get(r, k)
    \/ Close

\* Get answers as if every batch were committed at once, with its mutations in the order
\* they were made, and outside of a Commit the map holds just that.
ReadsCommitted ==
    /\ \A r \in Readers : answer[r][1] = answer[r][2]
    /\ mutex = Nil => m = committed
-----------------------------------------------------------------------------
Entries == DataKeys \cup Marks \cup {"dbVersion"}
Applied(s, w) == [k \in Entries |-> IF k \in DOMAIN w THEN w[k] ELSE s[k]]
After(n) == FoldLeft(Applied, durable, SubSeq(pending, 1, n))
View == After(Len(pending))
To(keys, v) == [k \in keys |-> v]

StoreInit == /\ durable = To(Entries, Absent) /\ allowed = To(Entries, {Absent})
             /\ pending = <<>> /\ call = Nil /\ storeVersion = 0 /\ ready = FALSE

\* A call that makes the writes, one after the other, and may set what they write.  It begins
\* with at most MaxPending writes that are not durable yet.
Call(kind, writes) ==
    /\ call = Nil /\ Len(pending) <= MaxPending
    /\ call' = IF writes = <<>> THEN Nil ELSE [kind |-> kind, todo |-> writes, done |-> <<>>]
    /\ allowed' = [k \in Entries |-> allowed[k] \cup
                     {writes[j][k] : j \in {i \in DOMAIN writes : k \in DOMAIN writes[i]}}]
    /\ UNCHANGED <<durable, pending>>

\* NewStoreHealthTracker of a program of version v, with setStoreVersion: a fresh store gets
\* the version of the program, without a Flush.  A program older than one that has touched
\* the store is not started: it would take a migration that was cut off for its own data.
NewStoreHealthTracker(v) ==
    /\ storeVersion = 0 /\ storeVersion' = v /\ UNCHANGED ready
    /\ allowed["dbVersion"] \subseteq {Absent} \cup 1..v
    /\ Call("new", IF View["dbVersion"] = Absent THEN <<To({"dbVersion"}, v)>> ELSE <<>>)

\* CheckCorrectStoreVersion
CheckCorrectStoreVersion ==
    /\ storeVersion # 0 /\ call = Nil /\ ~ready
    /\ ready' = (View["dbVersion"] = storeVersion) /\ ready'
    /\ UNCHANGED <<durable, pending, call, storeVersion, allowed>>

UpdateStoreVersionMutant ==
    /\ storeVersion # 0 /\ ~ready /\ View["dbVersion"] \notin {Absent, storeVersion}
    /\ \E order \in SetToSeqs({k \in DataKeys : View[k] # Absent}) :
          Call("update", <<To({"dbVersion"}, storeVersion)>>
                         \o [j \in DOMAIN order |-> To({order[j]}, storeVersion)])
    /\ UNCHANGED <<storeVersion, ready>>
\* UpdateStoreVersion: the update function rewrites the data key by key, then the version.
UpdateStoreVersion ==
    /\ storeVersion # 0 /\ ~ready /\ View["dbVersion"] \notin {Absent, storeVersion}
    /\ \E order \in SetToSeqs({k \in DataKeys : View[k] # Absent}) :
          Call("update", [j \in DOMAIN order |-> To({order[j]}, storeVersion)]
                         \o <<To({"dbVersion"}, storeVersion)>>)
    /\ UNCHANGED <<storeVersion, ready>>

\* flushKVStore.Set, Delete, DeletePrefix and Clear, and Commit of a batch: one write.
FlushKV(w) == ready /\ Call("flushkv", <<w>>) /\ UNCHANGED <<storeVersion, ready>>
\* MarkCorrupted and MarkTainted; MarkHealthy.
Mark(k) == ready /\ Call("mark", <<To({k}, "set")>>) /\ UNCHANGED <<storeVersion, ready>>
MarkHealthy == ready /\ Call("healthy", <<To({"dbCorrupted"}, Absent)>>) /\ UNCHANGED <<storeVersion, ready>>

FlushesMutant(kind) == kind = "flushkv"
\* The calls that end with Flush; the others return after the last write.
Flushes(kind) == kind \in {"flushkv", "mark"}
\* The call returns without an error: what a flushed call wrote must survive from now on.
Succeeds ==
    /\ call' = Nil /\ ready' = (ready \/ call.kind = "update")
    /\ allowed' = IF call.kind \in {"flushkv", "mark"}
                  THEN [k \in Entries |-> IF \E w \in ToSet(call.done \o call.todo) : k \in DOMAIN w
                                        THEN {View'[k]} ELSE allowed[k]]
                  ELSE allowed

\* A write of the call reaches the store.
StoreWrite ==
    /\ call # Nil /\ call.todo # <<>>
    /\ pending' = Append(pending, Head(call.todo)) /\ UNCHANGED durable
    /\ IF Len(call.todo) = 1 /\ ~Flushes(call.kind)
       THEN Succeeds
       ELSE /\ call' = [call EXCEPT !.todo = Tail(@), !.done = Append(@, Head(call.todo))]
            /\ UNCHANGED <<ready, allowed>>
    /\ UNCHANGED storeVersion

\* Flush at the end of a call: everything that was written is durable.
Flush ==
    /\ call # Nil /\ call.todo = <<>>
    /\ durable' = View /\ pending' = <<>>
    /\ Succeeds /\ UNCHANGED storeVersion

\* A write or a Flush fails and the call returns the error; a program whose tracker was not
\* created does not start.
Fails ==
    /\ call # Nil /\ call' = Nil
    /\ storeVersion' = IF call.kind = "new" THEN 0 ELSE storeVersion
    /\ UNCHANGED <<durable, pending, ready, allowed>>

\* The store makes its oldest write durable by itself.
Persist ==
    /\ pending # <<>>
    /\ durable' = Applied(durable, Head(pending)) /\ pending' = Tail(pending)
    /\ UNCHANGED <<call, storeVersion, ready, allowed>>

\* The process dies.
Crash ==
    /\ storeVersion # 0
    /\ pending' = <<>> /\ call' = Nil /\ storeVersion' = 0 /\ ready' = FALSE
    /\ UNCHANGED <<durable, allowed>>

StoreNext ==
    \/ \E v \in Versions : NewStoreHealthTracker(v)
    \/ CheckCorrectStoreVersion \/ UpdateStoreVersion
    \/ \E keys \in SUBSET DataKeys \ {{}}, v \in {Absent, storeVersion} : FlushKV(To(keys, v))
    \/ \E k \in Marks : Mark(k)
    \/ MarkHealthy \/ StoreWrite \/ Flush \/ Fails \/ Persist \/ Crash

\* Wherever a crash cuts the writes off: every key has the value of the last call that
\* returned without an error after a Flush, or of a later one; the version of the store is
\* there if data is, and no data is older than it.
SurvivesCrash ==
    \A n \in 0..Len(pending) :
        LET s == After(n)
        IN /\ \A k \in Entries : s[k] \in allowed[k]
           /\ \A k \in DataKeys : s[k] # Absent => s["dbVersion"] # Absent /\ s["dbVersion"] <= s[k]
\* A program that runs finds only data of its version.
DataOfVersion == ready => \A k \in DataKeys : View[k] \in {Absent, storeVersion}
-----------------------------------------------------------------------------
Empty == [k \in Keys |-> Absent]
AdsInit == /\ tree = Nil /\ imported = TRUE /\ nodes = Empty /\ root = Nil /\ size = 0 /\ rawKeys = {}
           /\ mapCall = Nil /\ lastCommit = Empty /\ intact = TRUE

\* The contents that newAuthenticatedMap opens: those of the stored root, or none.
Reopened == IF root = Nil THEN Empty ELSE root
\* newAuthenticatedMap.  When the nodes of the root cannot be found, every operation that walks
\* the tree returns an error.
NewAuthenticatedMap ==
    /\ tree = Nil
    /\ tree' = Reopened /\ imported' = (root \in {Nil, nodes})
    /\ UNCHANGED <<nodes, root, size, rawKeys, mapCall, lastCommit, intact>>

\* authenticatedMap.has
has(k) == tree[k] # Absent

\* Set under the mutex, up to the change of the tree.
AdsSet(k, v) ==
    /\ tree # Nil /\ imported /\ mapCall = Nil
    /\ mapCall' = [op |-> "set", key |-> k, delta |-> IF has(k) THEN 0 ELSE 1]
    /\ tree' = [tree EXCEPT ![k] = v]
    /\ UNCHANGED <<imported, nodes, root, size, rawKeys, lastCommit, intact>>

\* Delete of a key that is there, up to the change of the tree.
AdsDelete(k) ==
    /\ tree # Nil /\ imported /\ mapCall = Nil /\ has(k)
    /\ mapCall' = [op |-> "delete", key |-> k, delta |-> -1]
    /\ tree' = [tree EXCEPT ![k] = Absent]
    /\ UNCHANGED <<imported, nodes, root, size, rawKeys, lastCommit, intact>>

\* Set and Delete write the raw key, and return when the size stays.
WriteRawKey ==
    /\ mapCall # Nil /\ mapCall.op \in {"set", "delete"}
    /\ rawKeys' = IF mapCall.op = "set" THEN rawKeys \cup {mapCall.key} ELSE rawKeys \ {mapCall.key}
    /\ mapCall' = IF mapCall.delta = 0 THEN Nil ELSE [mapCall EXCEPT !.op = "size"]
    /\ UNCHANGED <<tree, imported, nodes, root, size, lastCommit, intact>>

\* addSize, in the width of the stored number
addSize ==
    /\ mapCall # Nil /\ mapCall.op = "size" /\ mapCall' = Nil
    /\ size' = (size + mapCall.delta) % 2 ^ SizeBits
    /\ UNCHANGED <<tree, imported, nodes, root, rawKeys, lastCommit, intact>>

\* Commit stores the root, then the nodes.
CommitRoot ==
    /\ tree # Nil /\ imported /\ mapCall = Nil
    /\ root' = tree /\ mapCall' = [op |-> "commit", key |-> Nil, delta |-> 0]
    /\ UNCHANGED <<tree, imported, nodes, size, rawKeys, lastCommit, intact>>
CommitTree ==
    /\ mapCall # Nil /\ mapCall.op = "commit" /\ mapCall' = Nil
    /\ nodes' = tree /\ lastCommit' = tree
    /\ UNCHANGED <<tree, imported, root, size, rawKeys, intact>>

\* A write of the call fails: it returns the error and undoes nothing.
AdsFails ==
    /\ mapCall # Nil /\ mapCall' = Nil /\ intact' = FALSE
    /\ UNCHANGED <<tree, imported, nodes, root, size, rawKeys, lastCommit>>

\* The process stops or dies: the tree is lost.
AdsCrash ==
    /\ tree # Nil /\ tree' = Nil /\ mapCall' = Nil
    /\ intact' = (intact /\ mapCall = Nil /\ tree = lastCommit)
    /\ UNCHANGED <<imported, nodes, root, size, rawKeys, lastCommit>>

AdsNext ==
    \/ NewAuthenticatedMap \/ WriteRawKey \/ addSize \/ CommitRoot \/ CommitTree
    \/ \E k \in Keys : AdsDelete(k) \/ \E v \in Values : AdsSet(k, v)
    \/ AdsFails \/ AdsCrash

\* Stream: the raw keys with their values in the tree.
Stream == [k \in rawKeys |-> tree[k]]
\* authenticatedMap: as long as no write failed and no change was left uncommitted at a restart,
\* Size counts the keys and Stream visits each with its value.
SizeMatchesTree ==
    tree # Nil /\ mapCall = Nil /\ intact =>
        LET present == {k \in Keys : has(k)}
        IN  size = Cardinality(present) /\ Stream = [k \in present |-> tree[k]]
\* Unless a Commit was cut off, a restart brings back what was there at the last one.
CommittedComesBack == root \in {Nil, nodes} => Reopened = lastCommit
=============================================================================
