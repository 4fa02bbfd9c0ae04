----------------------------- MODULE MCServices -----------------------------
(***************************************************************************)
(* The components of web and the TaskExecutor, in one run.  A behaviour    *)
(* uses one of them, its subject.  SubscriptionManager in two              *)
(* configurations: without a limit on the topics of a client, and with a   *)
(* limit that is reached and calls for clients that are not connected.     *)
(* WebsocketHub in two: one client and everything that is done with it,    *)
(* and two clients without messages, one of them with a connection that    *)
(* may break.  TaskExecutor: three tasks, two of them with the same        *)
(* identifier.                                                             *)
(***************************************************************************)
EXTENDS Integers

CONSTANTS Clients, Topics, Callers, MaxCount, Limit
VARIABLES subject, connected, subscribed, topics, events, view
managerVars == <<connected, subscribed, topics, events, view>>

SM == INSTANCE SubscriptionManager WITH
        maxTopicSubscriptionsPerClient <- 0, SubscribeUnconnected <- FALSE
Limited == INSTANCE SubscriptionManager WITH
        maxTopicSubscriptionsPerClient <- Limit, SubscribeUnconnected <- TRUE
ASSUME Assumptions == SM!LimitAssumption /\ Limited!LimitAssumption

CONSTANTS Peers, SendSize, BroadcastSize
VARIABLES ctxDone, shutdownFlag, hub, current, todo, keep, clients, register, unregister,
          broadcast, exit, sendClosed, canceled, closed, sendChan, serve, write, read, ping,
          sender, event
hubVars == <<ctxDone, shutdownFlag, hub, current, todo, keep, clients, register, unregister,
             broadcast, exit, sendClosed, canceled, closed, sendChan, serve, write, read, ping,
             sender, event>>

One == {CHOOSE c \in Peers : TRUE}
Single == INSTANCE WebsocketHub WITH
        Clients <- One, Failing <- One, Receivers <- One, Targets <- One, Broadcasts <- BOOLEAN
Pair == INSTANCE WebsocketHub WITH
        Clients <- Peers, Failing <- One, Receivers <- {}, Targets <- {}, Broadcasts <- {}

CONSTANTS e1, e2, e3, Times, Workers, Stoppers, NonBlocking, FlagSets, maxSize, AddDuringShutdown,
          Overlap
VARIABLES now, heap, key, add, cancel, cut, started, worker, held, isShutdown, shutdownFlags,
          executorDone, caller, queuedElements, mutex
taskVars == <<now, heap, key, add, cancel, cut, started, worker, held, isShutdown, shutdownFlags,
              executorDone, caller, queuedElements, mutex>>

MCIdentifier == [e \in {e1, e2, e3} |-> IF e = e3 THEN "b" ELSE "a"]
TE == INSTANCE TaskExecutor WITH Elements <- {e1, e2, e3}, Identifier <- MCIdentifier,
                                 Callers <- Stoppers, ctxDone <- executorDone
ASSUME ExecutorAssumptions == TE!SizeAssumption /\ TE!FlagsAssumption /\ TE!OverlapAssumption

Init == /\ SM!Init /\ TE!TaskInit
        /\ \/ subject \in {"unlimited", "limited", "single", "TaskExecutor"} /\ Single!Init
           \/ subject = "pair" /\ Pair!Init
Next == /\ \/ subject = "unlimited" /\ SM!Next /\ UNCHANGED <<hubVars, taskVars>>
           \/ subject = "limited" /\ Limited!Next /\ UNCHANGED <<hubVars, taskVars>>
           \/ subject = "single" /\ Single!Next /\ UNCHANGED <<managerVars, taskVars>>
           \/ subject = "pair" /\ Pair!Next /\ UNCHANGED <<managerVars, taskVars>>
           \/ subject = "TaskExecutor" /\ TE!TaskNext /\ UNCHANGED <<managerVars, hubVars>>
        /\ UNCHANGED subject
vars == <<subject, managerVars, hubVars, taskVars>>
Spec == Init /\ [][Next]_vars

\* TopicRemoved is triggered for a topic without subscribers only (no limit).
RemovedMeansUnused == [][subject = "unlimited" => SM!RemovedMeansUnused]_vars
\* Hub.Run never waits for a client that waits for the hub, except while a goroutine of
\* the client to be removed finds the unregister channel full; and when it has returned, all
\* goroutines, connections and events of clients are completed.
HubGoesOn == /\ subject = "single" => Single!HubGoesOn /\ Single!CleanedUp
             /\ subject = "pair" => Pair!HubGoesOn /\ Pair!CleanedUp
=============================================================================
