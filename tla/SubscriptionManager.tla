------------------------ MODULE SubscriptionManager ------------------------
(***************************************************************************)
(* web/subscriptionmanager: the topics every client is subscribed to, with *)
(* counts, and the global count per topic.  A call changes both maps under *)
(* the lock and triggers its events after it has released it; a listener   *)
(* that only hears the events keeps its own view of the subscriptions.     *)
(***************************************************************************)
EXTENDS Integers, SequencesExt, FiniteSetsExt, Functions

CONSTANTS
    Clients, Topics, Callers,       \* Callers: goroutines that use the manager
    MaxCount,                       \* bound on the subscriptions of a client per topic, and on
                                    \* how far the listener is misled about them
    maxTopicSubscriptionsPerClient, \* 0: deactivated
    SubscribeUnconnected            \* whether Subscribe is called for unconnected clients
LimitAssumption == maxTopicSubscriptionsPerClient \in Nat /\ SubscribeUnconnected \in BOOLEAN

VARIABLES
    connected, subscribed, \* the keys of subscribers; count per client and topic, 0 if absent
    topics,                \* global count per topic, 0 if absent
    events,                \* per caller: events it has still to trigger
    view                   \* what the listener has heard
vars == <<connected, subscribed, topics, events, view>>

NoTopic == "none"
Event(kind, c, t) == [kind |-> kind, client |-> c, topic |-> t]
NoCounts == [t \in Topics |-> 0]
Init ==
    /\ connected = {} /\ subscribed = [c \in Clients |-> NoCounts] /\ topics = NoCounts
    /\ events = [p \in Callers |-> <<>>]
    /\ view = [clients |-> {}, topics |-> {}, counts |-> [c \in Clients |-> NoCounts]]

Idle(p) == events[p] = <<>>
Repeat(x, n) == [k \in 1 .. n |-> x]

\* cleanupClientWithoutLocking, given the counts of the client: the global counts
\* it leaves, the topics removed and the events it causes (in the order of a map:
\* here in a fixed one).
TopicsLess(counts) ==
    [t \in Topics |-> IF topics[t] - counts[t] <= 0 THEN 0 ELSE topics[t] - counts[t]]
RemovedTopics(counts) ==
    {t \in Topics : counts[t] > 0 /\ topics[t] > 0 /\ TopicsLess(counts)[t] = 0}
CleanupEvents(c, counts) ==
    LET ts == SetToSeq({t \in Topics : counts[t] > 0})
    IN  [k \in DOMAIN SetToSeq(RemovedTopics(counts)) |->
            Event("TopicRemoved", c, SetToSeq(RemovedTopics(counts))[k])]
        \o FlattenSeq([k \in DOMAIN ts |-> Repeat(Event("TopicUnsubscribed", c, ts[k]), counts[ts[k]])])

\* ClientDisconnected, as the last event of a cleanup.
Disconnected(c) == <<Event("ClientDisconnected", c, NoTopic)>>

Connect(p, c) ==
    /\ Idle(p) /\ connected' = connected \cup {c}
    /\ topics' = IF c \in connected THEN TopicsLess(subscribed[c]) ELSE topics
    /\ subscribed' = [subscribed EXCEPT ![c] = NoCounts]
    /\ events' = [events EXCEPT ![p] =
        (IF c \in connected THEN CleanupEvents(c, subscribed[c]) \o Disconnected(c) ELSE <<>>)
            \o <<Event("ClientConnected", c, NoTopic)>>]
    /\ UNCHANGED view

Disconnect(p, c) ==
    /\ Idle(p) /\ c \in connected /\ connected' = connected \ {c}
    /\ topics' = TopicsLess(subscribed[c]) /\ subscribed' = [subscribed EXCEPT ![c] = NoCounts]
    /\ events' = [events EXCEPT ![p] = CleanupEvents(c, subscribed[c]) \o Disconnected(c)]
    /\ UNCHANGED view

\* The new topic reaches the limit of the client.
Drops(counts, t) ==
    /\ counts[t] = 0 /\ maxTopicSubscriptionsPerClient # 0
    /\ Cardinality({u \in Topics : counts[u] > 0}) + 1 >= maxTopicSubscriptionsPerClient

Subscribe(p, c, t) ==
    /\ Idle(p) /\ subscribed[c][t] < MaxCount
    /\ \/ /\ SubscribeUnconnected /\ c \notin connected  \* the check fails: only the event
          /\ view.counts[c][t] < MaxCount
          /\ events' = [events EXCEPT ![p] = <<Event("TopicSubscribed", c, t)>>]
          /\ UNCHANGED <<connected, subscribed, topics>>
       \/ /\ c \in connected /\ Drops(subscribed[c], t) /\ view.counts[c][t] > -MaxCount
          /\ LET counts == [subscribed[c] EXCEPT ![t] = 1]
             IN  /\ topics' = TopicsLess(counts)
                 /\ events' = [events EXCEPT ![p] =
                        CleanupEvents(c, counts) \o <<Event("DropClient", c, NoTopic)>> \o Disconnected(c)]
          /\ connected' = connected \ {c} /\ subscribed' = [subscribed EXCEPT ![c] = NoCounts]
       \/ /\ c \in connected /\ ~Drops(subscribed[c], t)
          /\ subscribed' = [subscribed EXCEPT ![c][t] = @ + 1]
          /\ topics' = [topics EXCEPT ![t] = @ + 1]
          /\ events' = [events EXCEPT ![p] =
                (IF topics[t] = 0 THEN <<Event("TopicAdded", c, t)>> ELSE <<>>)
                    \o <<Event("TopicSubscribed", c, t)>>]
          /\ UNCHANGED connected
    /\ UNCHANGED view

\* Mutants: the global count is left alone; the topic goes with the last subscription of any one client.
UnsubscribeKeepMutant(p, c, t) ==
    /\ Idle(p) /\ subscribed[c][t] > 0
    /\ subscribed' = [subscribed EXCEPT ![c][t] = @ - 1]
    /\ events' = [events EXCEPT ![p] = <<Event("TopicUnsubscribed", c, t)>>]
    /\ UNCHANGED <<connected, topics, view>>
UnsubscribeMutant(p, c, t) ==
    /\ Idle(p) /\ subscribed[c][t] > 0
    /\ subscribed' = [subscribed EXCEPT ![c][t] = @ - 1]
    /\ topics' = [topics EXCEPT ![t] = IF subscribed[c][t] = 1 THEN 0 ELSE @ - 1]
    /\ events' = [events EXCEPT ![p] =
        (IF topics'[t] = 0 THEN <<Event("TopicRemoved", c, t)>> ELSE <<>>)
            \o <<Event("TopicUnsubscribed", c, t)>>]
    /\ UNCHANGED <<connected, view>>
Unsubscribe(p, c, t) ==
    /\ Idle(p) /\ subscribed[c][t] > 0
    /\ subscribed' = [subscribed EXCEPT ![c][t] = @ - 1]
    /\ topics' = [topics EXCEPT ![t] = IF @ = 0 THEN 0 ELSE @ - 1]
    /\ events' = [events EXCEPT ![p] =
        (IF topics[t] = 1 THEN <<Event("TopicRemoved", c, t)>> ELSE <<>>)
            \o <<Event("TopicUnsubscribed", c, t)>>]
    /\ UNCHANGED <<connected, view>>

\* What a listener makes of an event.
Heard(v, e) ==
    CASE e.kind = "ClientConnected" -> [v EXCEPT !.clients = @ \cup {e.client}]
      [] e.kind = "ClientDisconnected" -> [v EXCEPT !.clients = @ \ {e.client}]
      [] e.kind = "TopicAdded" -> [v EXCEPT !.topics = @ \cup {e.topic}]
      [] e.kind = "TopicRemoved" -> [v EXCEPT !.topics = @ \ {e.topic}]
      [] e.kind = "TopicSubscribed" -> [v EXCEPT !.counts[e.client][e.topic] = @ + 1]
      [] e.kind = "TopicUnsubscribed" -> [v EXCEPT !.counts[e.client][e.topic] = @ - 1]
      [] OTHER -> v

Trigger(p) ==
    /\ ~Idle(p) /\ view' = Heard(view, Head(events[p]))
    /\ events' = [events EXCEPT ![p] = Tail(@)]
    /\ UNCHANGED <<connected, subscribed, topics>>

Next ==
    \E p \in Callers :
        \/ Trigger(p)
        \/ \E c \in Clients :
            \/ Connect(p, c) \/ Disconnect(p, c)
            \/ \E t \in Topics : Subscribe(p, c, t) \/ Unsubscribe(p, c, t)
Spec == Init /\ [][Next]_vars

\* ---------------------------------------------------------------- properties
\* A topic with a global count has a subscriber (TopicHasSubscribers does not lie that
\* way), also when clients are dropped at the limit.
CountedIsSubscribed ==
    \A t \in Topics : topics[t] > 0 => \E c \in connected : subscribed[c][t] > 0

\* "TopicRemoved event is triggered when a topic is not subscribed anymore by any
\* client."  As an action: what a call hands to its events.
RemovedMeansUnused ==
    \A p \in Callers : Idle(p) => \A t \in Topics :
        (\E k \in DOMAIN events'[p] : events'[p][k].kind = "TopicRemoved" /\ events'[p][k].topic = t)
            => \A c \in Clients : subscribed'[c][t] = 0

=============================================================================
