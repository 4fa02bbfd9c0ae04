---------------------------- MODULE ValueNotifier ----------------------------
(***************************************************************************)
(* runtime/valuenotifier: callers create a Listener for a value, Wait on   *)
(* it, and are woken by Notify of that value, which closes the channel the *)
(* listeners of the value share.  The entry of a value counts its          *)
(* listeners; the last one to deregister closes the channel as well.       *)
(*                                                                         *)
(* Wait always deregisters, also after a notification.  Notify has removed *)
(* the entry by then, so the deregistration finds nothing, unless a new    *)
(* listener of the value was created meanwhile: Reuse allows that.  A      *)
(* listener may be deregistered by another goroutine while it is waited    *)
(* for: Outside allows that.                                               *)
(***************************************************************************)
EXTENDS Naturals, FiniteSets

CONSTANTS Listeners, Notifiers, Values, Reuse, Outside, Nil
VARIABLES listeners,    \* value -> the entry of Notifier.listeners, or Nil
          channels,     \* number of channels made
          closed,       \* closed channels
          listener,     \* Listener objects and the call of Wait on each
          notify,       \* the value a Notify that has seen an entry is about
          notified      \* the channels Notify closed (history)
vars == <<listeners, channels, closed, listener, notify, notified>>

Fresh == [value |-> Nil, channel |-> 0, deregistered |-> FALSE, removes |-> FALSE, wait |-> "no"]

TypeOK == /\ channels \in 0..Cardinality(Listeners)
          /\ closed \subseteq 1..channels /\ notified \subseteq closed
          /\ \A v \in Values : listeners[v] # Nil =>
                listeners[v] \in [channel : 1..channels, count : 1..Cardinality(Listeners)]
          /\ \A l \in Listeners : listener[l] \in
                [value : Values \cup {Nil}, channel : 0..channels, deregistered : BOOLEAN,
                 removes : BOOLEAN,
                 wait : {"no", "selects", "notified", "deregistered", "context done"}]
          /\ notify \in [Notifiers -> Values \cup {Nil}]

Init == /\ listeners = [v \in Values |-> Nil]
        /\ channels = 0 /\ closed = {} /\ notified = {}
        /\ listener = [l \in Listeners |-> Fresh]
        /\ notify = [n \in Notifiers |-> Nil]

\* Some listener of v that was served by another entry still has to deregister.
Late(v) == \E l \in Listeners : /\ listener[l].value = v /\ listener[l].channel \in closed
                                /\ listener[l].removes \/ ~listener[l].deregistered

\* Notifier.Listener: join the entry of the value or make one.
Listener(l, v) ==
    /\ listener[l].value = Nil
    /\ Reuse \/ ~Late(v)
    /\ IF listeners[v] # Nil
       THEN /\ listeners' = [listeners EXCEPT ![v].count = @ + 1]
            /\ UNCHANGED channels
       ELSE /\ channels' = channels + 1
            /\ listeners' = [listeners EXCEPT ![v] = [channel |-> channels + 1, count |-> 1]]
    /\ listener' = [listener EXCEPT ![l] = [Fresh EXCEPT !.value = v, !.channel = listeners'[v].channel]]
    /\ UNCHANGED <<closed, notify, notified>>

\* Wait: the check before the select.
Wait(l) ==
    /\ listener[l].value # Nil /\ listener[l].wait = "no"
    /\ listener' = [listener EXCEPT ![l].wait = IF listener[l].deregistered THEN "deregistered" ELSE "selects"]
    /\ UNCHANGED <<listeners, channels, closed, notify, notified>>

\* Deregister: the Swap, the listener's own channel; the entry follows in a step of its own.
Deregistered(r) == IF r.deregistered THEN r ELSE [r EXCEPT !.deregistered = TRUE, !.removes = TRUE]

\* Wait: a case of the select that is ready, and the deferred Deregister.
Selected(l) ==
    /\ listener[l].wait = "selects"
    /\ \E result \in (IF listener[l].channel \in closed THEN {"notified"} ELSE {})
                     \cup (IF listener[l].deregistered THEN {"deregistered"} ELSE {})
                     \cup {"context done"} :
          listener' = [listener EXCEPT ![l] = Deregistered([@ EXCEPT !.wait = result])]
    /\ UNCHANGED <<listeners, channels, closed, notify, notified>>

\* Deregister called by somebody who does not wait.
Deregister(l) ==
    /\ listener[l].value # Nil /\ ~listener[l].deregistered
    /\ listener[l].wait = "no" \/ Outside
    /\ listener' = [listener EXCEPT ![l] = Deregistered(@)]
    /\ UNCHANGED <<listeners, channels, closed, notify, notified>>

removeListenerMutant(l) ==
    LET v == listener[l].value
    IN /\ listener[l].removes
       /\ listener' = [listener EXCEPT ![l].removes = FALSE]
       /\ IF listeners[v] = Nil
          THEN UNCHANGED <<listeners, closed>>
          ELSE /\ closed' = closed \cup {listeners[v].channel}
               /\ listeners' = [listeners EXCEPT ![v] = Nil]
       /\ UNCHANGED <<channels, notify, notified>>
\* removeListener: by value; the last listener closes the channel.
removeListener(l) ==
    LET v == listener[l].value
    IN /\ listener[l].removes
       /\ listener' = [listener EXCEPT ![l].removes = FALSE]
       /\ IF listeners[v] = Nil
          THEN UNCHANGED <<listeners, closed>>
          ELSE IF listeners[v].count = 1
          THEN /\ closed' = closed \cup {listeners[v].channel}
               /\ listeners' = [listeners EXCEPT ![v] = Nil]
          ELSE /\ listeners' = [listeners EXCEPT ![v].count = @ - 1]
               /\ UNCHANGED closed
       /\ UNCHANGED <<channels, notify, notified>>

\* Notify: the look under the read lock; a value without an entry is done with.
Notify(n, v) ==
    /\ notify[n] = Nil /\ listeners[v] # Nil
    /\ notify' = [notify EXCEPT ![n] = v]
    /\ UNCHANGED <<listeners, channels, closed, listener, notified>>

\* Notify: the second look under the lock, close and delete.
Close(n) ==
    LET v == notify[n]
    IN /\ v # Nil
       /\ notify' = [notify EXCEPT ![n] = Nil]
       /\ IF listeners[v] = Nil
          THEN UNCHANGED <<listeners, closed, notified>>
          ELSE /\ closed' = closed \cup {listeners[v].channel}
               /\ notified' = notified \cup {listeners[v].channel}
               /\ listeners' = [listeners EXCEPT ![v] = Nil]
       /\ UNCHANGED <<channels, listener>>

Next == \/ \E l \in Listeners : \/ \E v \in Values : Listener(l, v)
                                \/ Wait(l) \/ Selected(l) \/ Deregister(l) \/ removeListener(l)
        \/ \E n \in Notifiers : (\E v \in Values : Notify(n, v)) \/ Close(n)
Spec == Init /\ [][Next]_vars

\* Wait answers that the listener was notified only after Notify of its value closed the channel.
WokenByNotify == \A l \in Listeners : listener[l].wait = "notified" => listener[l].channel \in notified

\* Notify reaches every listener that has not deregistered: the channel of such a listener
\* is closed by a Notify or it is the channel of the entry of its value.
Reachable ==
    \A l \in Listeners : listener[l].value # Nil /\ ~listener[l].deregistered =>
        \/ listener[l].channel \in notified
        \/ /\ listeners[listener[l].value] # Nil
           /\ listeners[listener[l].value].channel = listener[l].channel
=============================================================================
