---------------------------- MODULE RealtimeHub ----------------------------
(***************************************************************************)
(* The WebSocket hub and its clients: the goroutine of Hub.Run, and for    *)
(* each connection the HTTP handler that registers it, its ReadPump and    *)
(* its WritePump.                                                          *)
(*                                                                         *)
(* register and unregister are unbuffered channels: the sender and Run     *)
(* meet in one step.  broadcastLocation and send are buffered.  A select   *)
(* with several ready cases takes any of them.  The maps of the hub are    *)
(* written by Run alone, so what it does under the hub's mutex is one      *)
(* step; a broadcast reads a rider's subscriptions and queues the message  *)
(* in two, because the rider's ReadPump runs between them.                 *)
(***************************************************************************)
EXTENDS Integers, Sequences

CONSTANTS
    Drivers, Riders,     \* client ids
    Conns,               \* connections (values of type *Client)
    Owner,               \* [Conns -> Drivers or Riders]: Client.ID and Type
    SendBuffer,          \* capacity of a client's send channel (256)
    BroadcastBuffer,     \* capacity of broadcastLocation (256)
    MaxUpdates,          \* bound: location updates read per connection
    Quiet,               \* bound: connections whose peers stay and send nothing
    None

ASSUME HubAssumption ==
    /\ Owner \in [Conns -> Drivers \cup Riders]
    /\ Drivers \cap Riders = {}
    /\ None \notin Conns
    /\ SendBuffer \in Nat \ {0} /\ BroadcastBuffer \in Nat \ {0} /\ MaxUpdates \in Nat

VARIABLES
    registered,   \* Hub.drivers and Hub.riders: [ids -> Conns or None]
    stopping,     \* the hub's context is cancelled
    hub,          \* local state of Run
    queue,        \* broadcastLocation
    done,         \* [Conns -> BOOLEAN]: Client.done is closed
    sock,         \* [Conns -> state of the WebSocket connection]
    reader,       \* [Conns -> where the handler, then ReadPump, is]
    writer,       \* [Conns -> where WritePump is]
    send,         \* [Conns -> Client.send]
    subscribed,   \* [Conns -> SUBSET Drivers]
    updates,      \* [Conns -> number of location updates read so far]
    stored,       \* updates the location handler has accepted
    seen,         \* [Conns -> [Conns -> last update written to the peer]]
    late          \* [Conns -> [Drivers -> updates sent on since the unsubscribe]]

vars == <<registered, stopping, hub, queue, done, sock, reader, writer, send,
          subscribed, updates, stored, seen, late>>

Ids == Drivers \cup Riders
IsDriver(c) == Owner[c] \in Drivers
RiderConns == {c \in Conns : ~IsDriver(c)}

\* The n-th location update read from the connection by.
Location == [by : Conns, n : Nat]
\* Acknowledgements and errors are all the same message here.
Reply == [by |-> None, n |-> 0]
Message == Location \cup {Reply}

HubState ==
    [pc : {"select", "fanout", "exited"}, loc : Message,
     todo : SUBSET Conns, to : Conns \cup {None}]
AtSelect == [pc |-> "select", loc |-> Reply, todo |-> {}, to |-> None]

ReaderPCs == {"off", "register", "read", "persist", "publish", "unregister", "close", "ended"}

TypeOK ==
    /\ registered \in [Ids -> Conns \cup {None}]
    /\ stopping \in BOOLEAN
    /\ hub \in HubState
    /\ queue \in Seq(Location) /\ Len(queue) <= BroadcastBuffer
    /\ done \in [Conns -> BOOLEAN]
    /\ sock \in [Conns -> {"open", "gone", "closed"}]
    /\ reader \in [Conns -> ReaderPCs]
    /\ writer \in [Conns -> {"off", "run", "ended"}]
    /\ send \in [Conns -> Seq(Message)] /\ \A c \in Conns : Len(send[c]) <= SendBuffer
    /\ subscribed \in [Conns -> SUBSET Drivers]
    /\ updates \in [Conns -> Nat]
    /\ stored \subseteq Location
    /\ seen \in [Conns -> [Conns -> Nat]]
    /\ late \in [Conns -> [Drivers -> Nat]]

Init ==
    /\ registered = [i \in Ids |-> None]
    /\ stopping = FALSE
    /\ hub = AtSelect
    /\ queue = <<>>
    /\ done = [c \in Conns |-> FALSE]
    /\ sock = [c \in Conns |-> "open"]
    /\ reader = [c \in Conns |-> "off"]
    /\ writer = [c \in Conns |-> "off"]
    /\ send = [c \in Conns |-> <<>>]
    /\ subscribed = [c \in Conns |-> {}]
    /\ updates = [c \in Conns |-> 0]
    /\ stored = {}
    /\ seen = [c \in Conns |-> [k \in Conns |-> 0]]
    /\ late = [c \in Conns |-> [d \in Drivers |-> 0]]

\* Mutant: the buffer grows as it must.
UnboundedSendBytes(c, m) == send' = [send EXCEPT ![c] = Append(@, m)]

\* Mutant: the sender waits for room in the buffer.
BlockingSendBytes(c, m) ==
    \/ Len(send[c]) < SendBuffer /\ send' = [send EXCEPT ![c] = Append(@, m)]
    \/ done[c] /\ UNCHANGED send

\* SendBytes: the message is queued if there is room; it is dropped if the
\* buffer is full, and may be if the client is done.
SendBytes(c, m) ==
    \/ Len(send[c]) < SendBuffer /\ send' = [send EXCEPT ![c] = Append(@, m)]
    \/ (done[c] \/ Len(send[c]) >= SendBuffer) /\ UNCHANGED send

GoTo(c, pc) == reader' = [reader EXCEPT ![c] = pc]
Meets(c, pc) == hub.pc = "select" /\ reader[c] = pc

data == <<queue, send, subscribed, updates, stored, seen, late>>

-----------------------------------------------------------------------------
(* The WebSocket handlers: upgrade, Register, then start the two pumps.    *)

Connect(c) ==
    /\ reader[c] = "off"
    /\ GoTo(c, "register")
    /\ UNCHANGED <<registered, stopping, hub, done, sock, writer, data>>

StartPumps(c) == GoTo(c, "read") /\ writer' = [writer EXCEPT ![c] = "run"]

\* registerClient: an earlier connection with the same id is closed.
RegisterClient(c) ==
    /\ Meets(c, "register")
    /\ registered' = [registered EXCEPT ![Owner[c]] = c]
    /\ done' = [k \in Conns |-> done[k] \/ k = registered[Owner[c]]]
    /\ StartPumps(c)
    /\ UNCHANGED <<stopping, hub, sock, data>>

\* Register when the hub's context is done.
RegisterStopped(c) ==
    /\ stopping /\ reader[c] = "register"
    /\ done' = [done EXCEPT ![c] = TRUE]
    /\ StartPumps(c)
    /\ UNCHANGED <<registered, stopping, hub, sock, data>>

-----------------------------------------------------------------------------
(* ReadPump and handleMessage.                                             *)

\* Frames that were received earlier are read even after the socket is closed.
Readable(c) == reader[c] = "read" /\ c \notin Quiet

\* A location_update of a driver: the location handler is called.
ReadLocation(c) ==
    /\ Readable(c) /\ IsDriver(c) /\ updates[c] < MaxUpdates
    /\ updates' = [updates EXCEPT ![c] = @ + 1]
    /\ GoTo(c, "persist")
    /\ UNCHANGED <<registered, stopping, hub, queue, done, sock, writer, send,
                   subscribed, stored, seen, late>>

Current(c) == [by |-> c, n |-> updates[c]]

\* PublishLocation: the handler accepts the update ...
Persist(c) ==
    /\ reader[c] = "persist"
    /\ stored' = stored \cup {Current(c)}
    /\ GoTo(c, "publish")
    /\ UNCHANGED <<registered, stopping, hub, queue, done, sock, writer, send,
                   subscribed, updates, seen, late>>

\* Mutant: the update is published although the handler refused it.
PublishRefused(c) ==
    /\ reader[c] = "persist"
    /\ GoTo(c, "publish")
    /\ UNCHANGED <<registered, stopping, hub, done, sock, writer, data>>

\* ... or refuses it, and the driver is told.
PersistFails(c) ==
    /\ reader[c] = "persist"
    /\ SendBytes(c, Reply)
    /\ GoTo(c, "read")
    /\ UNCHANGED <<registered, stopping, hub, queue, done, sock, writer,
                   subscribed, updates, stored, seen, late>>

Publish(c) ==
    /\ reader[c] = "publish"
    /\ Len(queue) < BroadcastBuffer
    /\ queue' = Append(queue, Current(c))
    /\ GoTo(c, "read")
    /\ UNCHANGED <<registered, stopping, hub, done, sock, writer, send,
                   subscribed, updates, stored, seen, late>>

\* ErrHubClosed.
PublishStopped(c) ==
    /\ reader[c] = "publish" /\ stopping
    /\ SendBytes(c, Reply)
    /\ GoTo(c, "read")
    /\ UNCHANGED <<registered, stopping, hub, queue, done, sock, writer,
                   subscribed, updates, stored, seen, late>>

Subscribe(c, d) ==
    /\ Readable(c) /\ ~IsDriver(c)
    /\ subscribed' = [subscribed EXCEPT ![c] = @ \cup {d}]
    /\ late' = [late EXCEPT ![c][d] = 0]
    /\ SendBytes(c, Reply)
    /\ UNCHANGED <<registered, stopping, hub, queue, done, sock, reader, writer,
                   updates, stored, seen>>

Unsubscribe(c, d) ==
    /\ Readable(c) /\ ~IsDriver(c)
    /\ subscribed' = [subscribed EXCEPT ![c] = @ \ {d}]
    /\ SendBytes(c, Reply)
    /\ UNCHANGED <<registered, stopping, hub, queue, done, sock, reader, writer,
                   updates, stored, seen, late>>

\* A heartbeat, or a message the client's type does not permit: one reply.
ReadOther(c) ==
    /\ Readable(c)
    /\ SendBytes(c, Reply)
    /\ UNCHANGED <<registered, stopping, hub, queue, done, sock, reader, writer,
                   subscribed, updates, stored, seen, late>>

\* ReadMessage fails: the socket is closed, the peer is gone or has been
\* silent for pongWait.
ReadError(c) ==
    /\ reader[c] = "read" /\ sock[c] # "open"
    /\ GoTo(c, "unregister")
    /\ UNCHANGED <<registered, stopping, hub, done, sock, writer, data>>

\* Mutant: whatever connection is registered under the id is removed.
UnregisterById(c) ==
    /\ Meets(c, "unregister")
    /\ registered' = [registered EXCEPT ![Owner[c]] = None]
    /\ done' = [done EXCEPT ![c] = TRUE]
    /\ GoTo(c, "close")
    /\ UNCHANGED <<stopping, hub, sock, writer, data>>

\* unregisterClient: only the connection that is registered is removed.
UnregisterClient(c) ==
    /\ Meets(c, "unregister")
    /\ IF registered[Owner[c]] = c
       THEN /\ registered' = [registered EXCEPT ![Owner[c]] = None]
            /\ done' = [done EXCEPT ![c] = TRUE]
       ELSE UNCHANGED <<registered, done>>
    /\ GoTo(c, "close")
    /\ UNCHANGED <<stopping, hub, sock, writer, data>>

UnregisterStopped(c) ==
    /\ stopping /\ reader[c] = "unregister"
    /\ done' = [done EXCEPT ![c] = TRUE]
    /\ GoTo(c, "close")
    /\ UNCHANGED <<registered, stopping, hub, sock, writer, data>>

\* The rest of ReadPump's deferred function.
ReaderEnds(c) ==
    /\ reader[c] = "close"
    /\ done' = [done EXCEPT ![c] = TRUE]
    /\ sock' = [sock EXCEPT ![c] = "closed"]
    /\ GoTo(c, "ended")
    /\ UNCHANGED <<registered, stopping, hub, writer, data>>

-----------------------------------------------------------------------------
(* WritePump.                                                              *)

EndWriter(c) ==
    /\ writer' = [writer EXCEPT ![c] = "ended"]
    /\ sock' = [sock EXCEPT ![c] = "closed"]

\* The client is done: a close message, and the connection is closed.
WriterDone(c) ==
    /\ writer[c] = "run" /\ done[c]
    /\ EndWriter(c)
    /\ UNCHANGED <<registered, stopping, hub, done, reader, data>>

\* The peer sees a message; one whose connection has failed may not.
See(c, m) ==
    \/ m # Reply /\ seen' = [seen EXCEPT ![c][m.by] = m.n]
    \/ (m = Reply \/ sock[c] = "gone") /\ UNCHANGED seen

\* Mutant: the newest message is written first.
WriteNewest(c) ==
    /\ writer[c] = "run" /\ send[c] # <<>> /\ sock[c] # "closed"
    /\ send' = [send EXCEPT ![c] = SubSeq(@, 1, Len(@) - 1)]
    /\ See(c, send[c][Len(send[c])])
    /\ UNCHANGED <<registered, stopping, hub, queue, done, sock, reader, writer,
                   subscribed, updates, stored, late>>

WriteMessage(c) ==
    /\ writer[c] = "run" /\ send[c] # <<>> /\ sock[c] # "closed"
    /\ send' = [send EXCEPT ![c] = Tail(@)]
    /\ See(c, Head(send[c]))
    /\ UNCHANGED <<registered, stopping, hub, queue, done, sock, reader, writer,
                   subscribed, updates, stored, late>>

\* A message or a ping cannot be written.
WriteError(c) ==
    /\ writer[c] = "run" /\ sock[c] # "open"
    /\ EndWriter(c)
    /\ UNCHANGED <<registered, stopping, hub, done, reader, data>>

-----------------------------------------------------------------------------
(* Hub.Run: the broadcast and the end.                                     *)

\* handleLocationBroadcast visits the registered riders in any order.
StartBroadcast ==
    /\ hub.pc = "select" /\ queue # <<>>
    /\ queue' = Tail(queue)
    /\ hub' = [pc |-> "fanout", loc |-> Head(queue), to |-> None,
               todo |-> {c \in RiderConns : registered[Owner[c]] = c}]
    /\ UNCHANGED <<registered, stopping, done, sock, reader, writer, send,
                   subscribed, updates, stored, seen, late>>

\* Mutant: the update goes to every rider.
VisitAnyRider(c) ==
    /\ hub.pc = "fanout" /\ hub.to = None /\ c \in hub.todo
    /\ hub' = [hub EXCEPT !.todo = @ \ {c}, !.to = c]
    /\ UNCHANGED <<registered, stopping, done, sock, reader, writer, data>>

\* IsSubscribedTo.
VisitRider(c) ==
    /\ hub.pc = "fanout" /\ hub.to = None /\ c \in hub.todo
    /\ hub' = [hub EXCEPT !.todo = @ \ {c},
                          !.to = IF Owner[hub.loc.by] \in subscribed[c] THEN c ELSE None]
    /\ UNCHANGED <<registered, stopping, done, sock, reader, writer, data>>

SendToVisited ==
    /\ hub.to # None
    /\ SendBytes(hub.to, hub.loc)
    /\ hub' = [hub EXCEPT !.to = None]
    /\ LET d == Owner[hub.loc.by]
       IN  late' = [late EXCEPT ![hub.to][d] = IF d \in subscribed[hub.to] THEN 0 ELSE @ + 1]
    /\ UNCHANGED <<registered, stopping, queue, done, sock, reader, writer,
                   subscribed, updates, stored, seen>>

EndBroadcast ==
    /\ hub.pc = "fanout" /\ hub.to = None /\ hub.todo = {}
    /\ hub' = AtSelect
    /\ UNCHANGED <<registered, stopping, done, sock, reader, writer, data>>

\* The context is done: closeAllClients, and Run returns.
CloseAllClients ==
    /\ hub.pc = "select" /\ stopping
    /\ done' = [c \in Conns |-> done[c] \/ registered[Owner[c]] = c]
    /\ registered' = [i \in Ids |-> None]
    /\ hub' = [AtSelect EXCEPT !.pc = "exited"]
    /\ UNCHANGED <<stopping, sock, reader, writer, data>>

-----------------------------------------------------------------------------

\* Stop: the context is cancelled and nobody waits for Run.
Stop ==
    /\ ~stopping
    /\ stopping' = TRUE
    /\ UNCHANGED <<registered, hub, done, sock, reader, writer, data>>

\* The network or the peer ends the connection, or the peer sends a frame
\* that ReadMessage refuses.
PeerGone(c) ==
    /\ reader[c] # "off" /\ sock[c] = "open" /\ c \notin Quiet
    /\ sock' = [sock EXCEPT ![c] = "gone"]
    /\ UNCHANGED <<registered, stopping, hub, done, reader, writer, data>>

ReadStep(c) ==
    \/ ReadLocation(c) \/ ReadOther(c)
    \/ \E d \in Drivers : Subscribe(c, d) \/ Unsubscribe(c, d)

ReaderStep(c) ==
    \/ RegisterClient(c) \/ RegisterStopped(c)
    \/ Persist(c) \/ PersistFails(c) \/ Publish(c) \/ PublishStopped(c)
    \/ ReadError(c) \/ UnregisterClient(c) \/ UnregisterStopped(c) \/ ReaderEnds(c)

WriterStep(c) == WriterDone(c) \/ WriteMessage(c) \/ WriteError(c)

BroadcastStep ==
    StartBroadcast \/ (\E c \in Conns : VisitRider(c)) \/ SendToVisited \/ EndBroadcast

HubNext ==
    \/ \E c \in Conns : ReadStep(c) \/ ReaderStep(c) \/ WriterStep(c) \/ PeerGone(c)
    \/ BroadcastStep \/ CloseAllClients

Next == HubNext \/ Stop \/ \E c \in Conns : Connect(c)

Spec == Init /\ [][Next]_vars

-----------------------------------------------------------------------------
(* Fairness.  Every goroutine that can run is scheduled, and Go's select,  *)
(* which chooses at random among the ready cases, does not pass over a     *)
(* case that stays ready for ever.  Nothing is assumed of the peers: they  *)
(* need not connect, send, read or leave.  A write to a peer that does not *)
(* read need not end, only fail once the connection has.                   *)

FairSpec ==
    /\ Spec
    /\ WF_vars(BroadcastStep) /\ WF_vars(CloseAllClients)
    /\ \A c \in Conns :
        WF_vars(ReaderStep(c)) /\ WF_vars(WriterDone(c) \/ WriteError(c))

-----------------------------------------------------------------------------
(* Properties.                                                             *)

Pumping(c) == reader[c] \in {"read", "persist", "publish", "unregister"}

\* A connection whose pumps are running and that has not been told to close
\* is the one registered under its id: no client is served in vain, and the
\* late unregister of a replaced connection (hub.go:143) does not remove its
\* replacement.  Until the hub stops, what is registered is such a connection.
RegistryExact ==
    \A c \in Conns :
        /\ Pumping(c) /\ ~done[c] => registered[Owner[c]] = c
        /\ registered[Owner[c]] = c => stopping \/ (Pumping(c) /\ ~done[c])

OnTheWay(c) == {send[c][i] : i \in DOMAIN send[c]}

\* Subscribers never observe a location that the backend refused
\* (client.go:180): whatever is queued, sent on, or has been seen was accepted.
ObservedAccepted ==
    /\ \A i \in DOMAIN queue : queue[i] \in stored
    /\ hub.pc = "fanout" => hub.loc \in stored
    /\ \A c \in Conns :
        /\ OnTheWay(c) \subseteq stored \cup {Reply}
        /\ \A k \in Conns : seen[c][k] > 0 => [by |-> k, n |-> seen[c][k]] \in stored

\* After an unsubscribe at most one more update of that driver is sent on:
\* the one whose IsSubscribedTo came before it (hub.go:186).
AtMostOneLate == \A c \in Conns, d \in Drivers : late[c][d] <= 1

\* A rider sees the updates of one driver connection in the order they were
\* sent, whatever the full buffers (client.go:264) drop in between.
InOrder == [][\A c, k \in Conns : seen'[c][k] >= seen[c][k]]_vars

\* A connection that was replaced, whose peer is gone, or that outlives the
\* hub is wound up: both its pumps end.  Neither a hub that has stopped
\* (hub.go:223, hub.go:241) nor clients that do not read, whose full buffers
\* the hub meets (client.go:264), can keep it.
ConnectionEnds ==
    \A c \in Conns \ Quiet :
        (reader[c] # "off" /\ (done[c] \/ sock[c] # "open" \/ stopping))
            ~> (reader[c] = "ended" /\ writer[c] = "ended")
=============================================================================
