---------------------------- MODULE WebsocketHub ----------------------------
(***************************************************************************)
(* web/websockethub: the goroutine of Hub.Run, which alone changes the map *)
(* of clients, and three goroutines per client: writePump, readPump and    *)
(* keepAlive.  They meet on channels.  Where the code nests two selects to *)
(* give the exit signals precedence, a step that leads to the select looks *)
(* at the signals, and in the select any ready case is taken; the hub may  *)
(* still choose a client whose signal has just been set.                   *)
(* A message is a place in a channel; the connection is open or closed.    *)
(***************************************************************************)
EXTENDS Naturals, Sequences, FiniteSets

CONSTANTS
    Clients,        \* each connects once
    Failing,        \* those whose connection may break or be slow
    Receivers,      \* those with a ReceiveChan
    Targets,        \* those a caller of Send sends to
    Broadcasts,     \* the values of dontDrop that BroadcastMsg is called with
    SendSize,       \* clientSendChannelSize
    BroadcastSize   \* broadcastQueueSize

VARIABLES
    ctxDone, shutdownFlag,      \* the context of the hub is canceled; Hub.shutdownFlag
    hub, current, todo, keep,   \* Run: location, client at hand, clients to send to, dontDrop
    clients, register, unregister, broadcast,   \* the map and the three channels
    exit, sendClosed, canceled, \* per client: ExitSignal, sendChanClosed, its context
    closed, sendChan,           \* per client: connection closed; messages in sendChan
    serve, write, read, ping,   \* per client: ServeWebsocket and the three goroutines
    sender,                     \* the client a caller of Send is blocked on, or Nobody
    event                       \* per client: the last event triggered
hubVars == <<hub, current, todo, keep>>
chanVars == <<register, unregister, broadcast>>
signals == <<exit, sendClosed, canceled, closed>>
pumps == <<write, read, ping>>
vars == <<ctxDone, shutdownFlag, hubVars, clients, chanVars, signals, sendChan, serve, pumps, sender, event>>

Nobody == "nobody"
Of(x) == [c \in Clients |-> x]
Init ==
    /\ ctxDone = FALSE /\ shutdownFlag = TRUE
    /\ hub = "new" /\ current = Nobody /\ todo = {} /\ keep = FALSE
    /\ clients = {} /\ register = <<>> /\ unregister = <<>> /\ broadcast = <<>>
    /\ exit = Of(FALSE) /\ sendClosed = Of(FALSE) /\ canceled = Of(FALSE) /\ closed = Of(FALSE)
    /\ sendChan = Of(0) /\ serve = Of("new") /\ write = Of("none") /\ read = Of("none")
    /\ ping = Of("none") /\ sender = Nobody /\ event = Of("none")

\* The context of a client is derived from that of the hub.
Done(c) == ctxDone \/ canceled[c]

-----------------------------------------------------------------------------
\* Run: the flag is cleared; from then on the hub serves its channels.
Run ==
    /\ hub = "new" /\ hub' = "select" /\ shutdownFlag' = FALSE
    /\ UNCHANGED <<ctxDone, current, todo, keep, clients, chanVars, signals, sendChan, serve, pumps, sender, event>>

Cancel ==
    /\ ~ctxDone /\ hub # "new" /\ ctxDone' = TRUE
    /\ UNCHANGED <<shutdownFlag, hubVars, clients, chanVars, signals, sendChan, serve, pumps, sender, event>>

Loop == IF ctxDone THEN "stop" ELSE "select"

\* The start of removeClient.
Removing(c) ==
    /\ clients' = clients \ {c} /\ exit' = [exit EXCEPT ![c] = TRUE]
    /\ hub' = "remove" /\ current' = c

TakeRegister ==
    /\ hub = "select" /\ register # <<>> /\ register' = <<>>
    /\ LET c == Head(register) IN
        /\ clients' = clients \cup {c} /\ current' = c /\ hub' = "connect"
        /\ write' = [write EXCEPT ![c] = "select"] /\ read' = [read EXCEPT ![c] = "reading"]
        /\ ping' = [ping EXCEPT ![c] = "select"]
    /\ UNCHANGED <<ctxDone, shutdownFlag, todo, keep, unregister, broadcast, signals, sendChan, serve, sender, event>>

\* onConnect and ClientConnected, once the goroutines have started.
Connected ==
    /\ hub = "connect" /\ hub' = Loop /\ current' = Nobody
    /\ event' = [event EXCEPT ![current] = "connected"]
    /\ UNCHANGED <<ctxDone, shutdownFlag, todo, keep, clients, chanVars, signals, sendChan, serve, pumps, sender>>

TakeUnregister ==
    /\ hub = "select" /\ unregister # <<>> /\ unregister' = <<>>
    /\ IF Head(unregister) \in clients THEN Removing(Head(unregister))
       ELSE hub' = Loop /\ UNCHANGED <<clients, exit, current>>
    /\ UNCHANGED <<ctxDone, shutdownFlag, todo, keep, register, broadcast, sendClosed, canceled,
                   closed, sendChan, serve, pumps, sender, event>>

\* removeClient: the wait is over; the channel is drained, ClientDisconnected.
Ended(c) == write[c] = "done" /\ read[c] = "done" /\ ping[c] = "done"
\* Mutant: the goroutines of the client are not waited for.
RemovedMutant ==
    /\ hub = "remove"
    /\ hub' = (IF shutdownFlag THEN "stop" ELSE Loop) /\ current' = Nobody
    /\ sendChan' = [sendChan EXCEPT ![current] = 0]
    /\ event' = [event EXCEPT ![current] = "disconnected"]
    /\ UNCHANGED <<ctxDone, shutdownFlag, todo, keep, clients, chanVars, signals, serve, pumps, sender>>
Removed ==
    /\ hub = "remove" /\ Ended(current)
    /\ hub' = (IF shutdownFlag THEN "stop" ELSE Loop) /\ current' = Nobody
    /\ sendChan' = [sendChan EXCEPT ![current] = 0]
    /\ event' = [event EXCEPT ![current] = "disconnected"]
    /\ UNCHANGED <<ctxDone, shutdownFlag, todo, keep, clients, chanVars, signals, serve, pumps, sender>>

\* shutdownAndRemoveAllClients: one client after the other, then Run returns.
Stop ==
    /\ hub = "stop" \/ (hub = "select" /\ ctxDone)
    /\ shutdownFlag' = TRUE
    /\ IF clients = {} THEN hub' = "returned" /\ UNCHANGED <<clients, exit, current>>
       ELSE \E c \in clients : Removing(c)
    /\ UNCHANGED <<ctxDone, todo, keep, chanVars, sendClosed, canceled, closed, sendChan, serve, pumps, sender, event>>

\* A message for the clients that the filter lets pass.
TakeBroadcast ==
    /\ hub = "select" /\ broadcast # <<>> /\ broadcast' = Tail(broadcast)
    /\ hub' = "send" /\ keep' = Head(broadcast) /\ todo' \in SUBSET clients
    /\ UNCHANGED <<ctxDone, shutdownFlag, current, clients, register, unregister, signals, sendChan,
                   serve, pumps, sender, event>>

Put(c) == sendChan[c] < SendSize /\ sendChan' = [sendChan EXCEPT ![c] = @ + 1]
\* Mutant: a message that is not to be dropped ignores that the writer has gone.
SendToMutant(c) ==
    /\ hub = "send" /\ c \in todo /\ todo' = todo \ {c}
    /\ \/ Put(c)
       \/ UNCHANGED sendChan /\ (ctxDone \/ (~keep /\ sendChan[c] = SendSize))
    /\ UNCHANGED <<ctxDone, shutdownFlag, hub, current, keep, clients, chanVars, signals, serve, pumps, sender, event>>
SendTo(c) ==
    /\ hub = "send" /\ c \in todo /\ todo' = todo \ {c}
    /\ \/ Put(c)
       \/ UNCHANGED sendChan /\ (ctxDone \/ sendClosed[c] \/ (~keep /\ sendChan[c] = SendSize))
    /\ UNCHANGED <<ctxDone, shutdownFlag, hub, current, keep, clients, chanVars, signals, serve, pumps, sender, event>>
Sent ==
    /\ hub = "send" /\ todo = {} /\ hub' = Loop
    /\ UNCHANGED <<ctxDone, shutdownFlag, current, todo, keep, clients, chanVars, signals, sendChan,
                   serve, pumps, sender, event>>

Hub == \/ Run \/ TakeRegister \/ Connected \/ TakeUnregister \/ Removed \/ Stop
       \/ TakeBroadcast \/ (\E c \in Clients : SendTo(c)) \/ Sent

-----------------------------------------------------------------------------
\* A loop of a client is entered again, or left because of a signal.
Signaled(c) == Done(c) \/ exit[c]

\* Unregister, by a goroutine of the client: it blocks while the channel is full.
Unregister(c) ==
    \/ ctxDone /\ UNCHANGED unregister
    \/ unregister = <<>> /\ unregister' = <<c>>

hubUnchanged == UNCHANGED <<ctxDone, shutdownFlag, hubVars, clients, register, broadcast, serve, sender, event>>

\* writePump.  An exit signal, not a canceled context, closes the connection here.
WriteSelect(c) ==
    /\ write[c] = "select"
    /\ \/ Done(c) /\ write' = [write EXCEPT ![c] = "exit"] /\ UNCHANGED <<closed, sendChan>>
       \/ /\ exit[c] /\ write' = [write EXCEPT ![c] = "exit"]
          /\ closed' = [closed EXCEPT ![c] = TRUE] /\ UNCHANGED sendChan
       \/ /\ sendChan[c] > 0 /\ sendChan' = [sendChan EXCEPT ![c] = @ - 1]
          /\ write' = [write EXCEPT ![c] = "sending"] /\ UNCHANGED closed
    /\ hubUnchanged /\ UNCHANGED <<unregister, exit, sendClosed, canceled, read, ping>>

\* What ends a write or a ping with an error, at the latest the timeout.
Breaks(c) == c \in Failing \/ closed[c] \/ Done(c)

\* The message is written, or it fails.
WriteSent(c) ==
    /\ write[c] = "sending"
    /\ \/ Breaks(c) /\ write' = [write EXCEPT ![c] = "exit"] /\ UNCHANGED closed
       \/ /\ ~closed[c] /\ ~Done(c)
          /\ write' = [write EXCEPT ![c] = IF exit[c] THEN "exit" ELSE "select"]
          /\ closed' = [closed EXCEPT ![c] = exit[c]]
    /\ hubUnchanged /\ UNCHANGED <<unregister, exit, sendClosed, canceled, sendChan, read, ping>>

\* The deferred function: the hub is told not to send any more ...
WriteExit(c) ==
    /\ write[c] = "exit" /\ write' = [write EXCEPT ![c] = "check"]
    /\ sendClosed' = [sendClosed EXCEPT ![c] = TRUE]
    /\ hubUnchanged /\ UNCHANGED <<unregister, exit, canceled, closed, sendChan, read, ping>>
\* ... and to remove the client, if it does not know; ...
WriteCheck(c) ==
    /\ write[c] = "check"
    /\ write' = [write EXCEPT ![c] = IF Signaled(c) THEN "close" ELSE "unregister"]
    /\ hubUnchanged /\ UNCHANGED <<unregister, signals, sendChan, read, ping>>
WriteUnregister(c) ==
    /\ write[c] = "unregister" /\ write' = [write EXCEPT ![c] = "close"] /\ Unregister(c)
    /\ hubUnchanged /\ UNCHANGED <<signals, sendChan, read, ping>>
\* ... the connection is closed.
WriteClose(c) ==
    /\ write[c] = "close" /\ write' = [write EXCEPT ![c] = "done"]
    /\ closed' = [closed EXCEPT ![c] = TRUE]
    /\ hubUnchanged /\ UNCHANGED <<unregister, exit, sendClosed, canceled, sendChan, read, ping>>
WriteStep(c) == WriteSelect(c) \/ WriteSent(c) \/ WriteExit(c) \/ WriteCheck(c) \/ WriteUnregister(c) \/ WriteClose(c)

\* readPump: Read fails with the connection or the context; a message is handed to ReceiveChan,
\* whose reader may be slow.
ReadFails(c) ==
    /\ \/ read[c] = "reading" /\ (closed[c] \/ Done(c))
       \/ read[c] = "deliver" /\ Signaled(c)
    /\ read' = [read EXCEPT ![c] = "check"]
    /\ hubUnchanged /\ UNCHANGED <<unregister, signals, sendChan, write, ping>>
ReadMessage(c) ==
    /\ read[c] = "reading" /\ ~closed[c] /\ c \in Receivers
    /\ read' = [read EXCEPT ![c] = IF Signaled(c) THEN "check" ELSE "deliver"]
    /\ hubUnchanged /\ UNCHANGED <<unregister, signals, sendChan, write, ping>>
Receive(c) ==
    /\ read[c] = "deliver" /\ read' = [read EXCEPT ![c] = "reading"]
    /\ hubUnchanged /\ UNCHANGED <<unregister, signals, sendChan, write, ping>>
ReadCheck(c) ==
    /\ read[c] = "check"
    /\ read' = [read EXCEPT ![c] = IF Signaled(c) THEN "done" ELSE "unregister"]
    /\ hubUnchanged /\ UNCHANGED <<unregister, signals, sendChan, write, ping>>
ReadUnregister(c) ==
    /\ read[c] = "unregister" /\ read' = [read EXCEPT ![c] = "done"] /\ Unregister(c)
    /\ hubUnchanged /\ UNCHANGED <<signals, sendChan, write, ping>>
ReadStep(c) == ReadFails(c) \/ ReadCheck(c) \/ ReadUnregister(c)

\* keepAlive: a ping is answered or fails, at the latest after pongWait.
PingSelect(c) ==
    /\ ping[c] = "select" /\ Signaled(c) /\ ping' = [ping EXCEPT ![c] = "cancel"]
    /\ hubUnchanged /\ UNCHANGED <<unregister, signals, sendChan, write, read>>
PingTimer(c) ==
    /\ ping[c] = "select" /\ ping' = [ping EXCEPT ![c] = "pinging"]
    /\ hubUnchanged /\ UNCHANGED <<unregister, signals, sendChan, write, read>>
PingAnswer(c) ==
    /\ ping[c] = "pinging"
    /\ \/ ~closed[c] /\ ping' = [ping EXCEPT ![c] = IF Signaled(c) THEN "cancel" ELSE "select"]
       \/ Breaks(c) /\ ping' = [ping EXCEPT ![c] = IF ctxDone THEN "cancel" ELSE "unregister"]
    /\ hubUnchanged /\ UNCHANGED <<unregister, signals, sendChan, write, read>>
PingUnregister(c) ==
    /\ ping[c] = "unregister" /\ ping' = [ping EXCEPT ![c] = "cancel"] /\ Unregister(c)
    /\ hubUnchanged /\ UNCHANGED <<signals, sendChan, write, read>>
PingCancel(c) ==
    /\ ping[c] = "cancel" /\ ping' = [ping EXCEPT ![c] = "done"]
    /\ canceled' = [canceled EXCEPT ![c] = TRUE]
    /\ hubUnchanged /\ UNCHANGED <<unregister, exit, sendClosed, closed, sendChan, write, read>>
PingStep(c) == PingSelect(c) \/ PingAnswer(c) \/ PingUnregister(c) \/ PingCancel(c)

PumpStep(c) == WriteStep(c) \/ ReadStep(c) \/ PingStep(c)

-----------------------------------------------------------------------------
\* The callers.  The peer or the network may break the connection.
PeerFails(c) ==
    /\ c \in Failing /\ write[c] # "none" /\ ~closed[c] /\ closed' = [closed EXCEPT ![c] = TRUE]
    /\ hubUnchanged /\ UNCHANGED <<unregister, exit, sendClosed, canceled, sendChan, pumps>>

\* ServeWebsocket looks at the flag and creates the client; Register.
ServeWebsocket(c) ==
    /\ serve[c] = "new" /\ ~shutdownFlag
    /\ serve' = [serve EXCEPT ![c] = IF ctxDone THEN "refused" ELSE "register"]
    /\ UNCHANGED <<ctxDone, shutdownFlag, hubVars, clients, chanVars, signals, sendChan, pumps, sender, event>>
Register(c) ==
    /\ serve[c] = "register"
    /\ \/ ctxDone /\ serve' = [serve EXCEPT ![c] = "refused"] /\ UNCHANGED register
       \/ register = <<>> /\ register' = <<c>> /\ serve' = [serve EXCEPT ![c] = "returned"]
    /\ UNCHANGED <<ctxDone, shutdownFlag, hubVars, clients, unregister, broadcast, signals, sendChan,
                   pumps, sender, event>>

\* BroadcastMsg: a full queue drops the message, or the caller waits for a place.
BroadcastMsg ==
    /\ ~shutdownFlag /\ ~ctxDone /\ Len(broadcast) < BroadcastSize
    /\ \E dontDrop \in Broadcasts : broadcast' = Append(broadcast, dontDrop)
    /\ UNCHANGED <<ctxDone, shutdownFlag, hubVars, clients, register, unregister, signals, sendChan,
                   serve, pumps, sender, event>>

\* Client.Send: the checks, and the select.
Send(c) ==
    /\ sender = Nobody /\ c \in Targets /\ ~shutdownFlag /\ serve[c] # "new" /\ ~sendClosed[c] /\ ~Signaled(c)
    /\ sender' = c
    /\ UNCHANGED <<ctxDone, shutdownFlag, hubVars, clients, chanVars, signals, sendChan, serve, pumps, event>>
SendReturns ==
    /\ sender # Nobody /\ sender' = Nobody
    /\ \/ Put(sender)
       \/ UNCHANGED sendChan
    /\ UNCHANGED <<ctxDone, shutdownFlag, hubVars, clients, chanVars, signals, serve, pumps, event>>

Next ==
    \/ Hub \/ Cancel \/ BroadcastMsg \/ SendReturns
    \/ \E c \in Clients :
        \/ PumpStep(c) \/ ReadMessage(c) \/ Receive(c) \/ PingTimer(c) \/ PeerFails(c)
        \/ ServeWebsocket(c) \/ Register(c) \/ Send(c)
Spec == Init /\ [][Next]_vars

-----------------------------------------------------------------------------
\* The pump that a removal waits for is itself waiting for a place in unregister.
Crossed ==
    /\ hub = "remove" /\ ~ctxDone /\ unregister # <<>>
    /\ "unregister" \in {write[current], read[current], ping[current]}

\* The hub never waits for a client that waits for the hub: neither in removeClient for
\* its goroutines, nor in a broadcast that must not be dropped for a place in its
\* channel.  The exception is an unregister channel that other goroutines have filled,
\* and it ends with the context.
HubGoesOn ==
    /\ hub = "remove" /\ ~Crossed => ENABLED (Removed \/ PumpStep(current))
    /\ hub = "send" => \A c \in todo : ENABLED (SendTo(c) \/ WriteStep(c))

\* When Run has returned, no goroutine of any client is left, every connection that was
\* served is closed, and each client whose ClientConnected was triggered had its
\* ClientDisconnected.
CleanedUp ==
    hub = "returned" =>
        /\ clients = {}
        /\ \A c \in Clients : write[c] # "none" => Ended(c) /\ closed[c] /\ event[c] = "disconnected"
=============================================================================
