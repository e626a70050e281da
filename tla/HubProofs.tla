----------------------------- MODULE HubProofs -----------------------------
(***************************************************************************)
(* What holds of the hub for any number of drivers, riders, connections    *)
(* and updates, and for any capacity of the channels.                      *)
(***************************************************************************)
EXTENDS RealtimeHub, TLAPS

(* The steps that change neither the registry, nor done, nor where a       *)
(* reader stands.                                                          *)

quiet == <<registered, stopping, done, reader>>

-----------------------------------------------------------------------------
(* Type correctness.                                                       *)

\* sendBytes never exceeds the capacity of a client's channel.
LEMMA SendBytesType ==
    ASSUME TypeOK, NEW c \in Conns, NEW m \in Message, SendBytes(c, m)
    PROVE  send' \in [Conns -> Seq(Message)] /\ \A k \in Conns : Len(send'[k]) <= SendBuffer
  <1>1. CASE Len(send[c]) < SendBuffer /\ send' = [send EXCEPT ![c] = Append(@, m)]
    <2>1. Append(send[c], m) \in Seq(Message) /\ Len(Append(send[c], m)) = Len(send[c]) + 1
      BY DEF TypeOK
    <2>2. Len(send[c]) + 1 <= SendBuffer
      BY <1>1, HubAssumption DEF TypeOK
    <2> QED
      BY <1>1, <2>1, <2>2 DEF TypeOK
  <1>2. CASE UNCHANGED send
    BY <1>2 DEF TypeOK
  <1> QED
    BY <1>1, <1>2 DEF SendBytes

\* The reply to a client is one of the messages.
LEMMA ReplyIsMessage == Reply \in Message
  BY DEF Message

\* The hub starts well typed.
LEMMA InitType == Init => TypeOK
  <1> SUFFICES ASSUME Init PROVE TypeOK
    OBVIOUS
  <1>1. hub \in HubState
    BY ReplyIsMessage DEF Init, HubState, AtSelect
  <1>2. queue \in Seq(Location) /\ Len(queue) <= BroadcastBuffer
    BY HubAssumption DEF Init, HubAssumption
  <1>3. send \in [Conns -> Seq(Message)] /\ \A c \in Conns : Len(send[c]) <= SendBuffer
    BY HubAssumption DEF Init, HubAssumption
  <1>4. reader \in [Conns -> ReaderPCs] /\ writer \in [Conns -> {"off", "run", "ended"}]
    BY DEF Init, ReaderPCs
  <1>5. registered \in [Ids -> Conns \cup {None}] /\ stopping \in BOOLEAN
           /\ done \in [Conns -> BOOLEAN] /\ sock \in [Conns -> {"open", "gone", "closed"}]
    BY DEF Init
  <1>6. subscribed \in [Conns -> SUBSET Drivers] /\ updates \in [Conns -> Nat]
           /\ stored \subseteq Location
    BY DEF Init
  <1>7. seen \in [Conns -> [Conns -> Nat]] /\ late \in [Conns -> [Drivers -> Nat]]
    BY DEF Init
  <1> QED
    BY <1>1, <1>2, <1>3, <1>4, <1>5, <1>6, <1>7 DEF TypeOK

\* Every step of the hub and of its clients keeps the types.
LEMMA NextType == TypeOK /\ [Next]_vars => TypeOK'
  <1> SUFFICES ASSUME TypeOK, [Next]_vars PROVE TypeOK'
    OBVIOUS
  <1> USE DEF GoTo, StartPumps, data, EndWriter
  <1>1. ASSUME NEW c \in Conns, Connect(c) PROVE TypeOK'
    BY <1>1 DEF TypeOK, Connect, ReaderPCs
  <1>2. ASSUME NEW c \in Conns, RegisterClient(c) PROVE TypeOK'
    BY <1>2, HubAssumption DEF TypeOK, RegisterClient, ReaderPCs, Ids
  <1>3. ASSUME NEW c \in Conns, RegisterStopped(c) PROVE TypeOK'
    BY <1>3 DEF TypeOK, RegisterStopped, ReaderPCs
  <1>4. ASSUME NEW c \in Conns, ReadLocation(c) PROVE TypeOK'
    BY <1>4 DEF TypeOK, ReadLocation, ReaderPCs
  <1>5. ASSUME NEW c \in Conns, Persist(c) PROVE TypeOK'
    BY <1>5 DEF TypeOK, Persist, ReaderPCs, Current, Location
  <1>6. ASSUME NEW c \in Conns, PersistFails(c) \/ PublishStopped(c) PROVE TypeOK'
    BY <1>6, SendBytesType, ReplyIsMessage DEF TypeOK, PersistFails, PublishStopped, ReaderPCs
  <1>7. ASSUME NEW c \in Conns, Publish(c) PROVE TypeOK'
    <2>1. Current(c) \in Location
      BY DEF TypeOK, Current, Location
    <2>2. queue' \in Seq(Location) /\ Len(queue') <= BroadcastBuffer
      BY <1>7, <2>1, HubAssumption DEF TypeOK, Publish
    <2> QED
      BY <1>7, <2>2 DEF TypeOK, Publish, ReaderPCs
  <1>8. ASSUME NEW c \in Conns, NEW d \in Drivers, Subscribe(c, d) \/ Unsubscribe(c, d)
        PROVE  TypeOK'
    <2>1. send' \in [Conns -> Seq(Message)] /\ \A k \in Conns : Len(send'[k]) <= SendBuffer
      BY <1>8, SendBytesType, ReplyIsMessage DEF Subscribe, Unsubscribe
    <2>2. subscribed' \in [Conns -> SUBSET Drivers] /\ late' \in [Conns -> [Drivers -> Nat]]
      <3>1. subscribed[c] \cup {d} \in SUBSET Drivers /\ subscribed[c] \ {d} \in SUBSET Drivers
        BY DEF TypeOK
      <3>2. CASE Subscribe(c, d)
        BY <3>1, <3>2 DEF TypeOK, Subscribe
      <3>3. CASE Unsubscribe(c, d)
        BY <3>1, <3>3 DEF TypeOK, Unsubscribe
      <3> QED
        BY <1>8, <3>2, <3>3
    <2> QED
      BY <1>8, <2>1, <2>2 DEF TypeOK, Subscribe, Unsubscribe
  <1>9. ASSUME NEW c \in Conns, ReadOther(c) PROVE TypeOK'
    BY <1>9, SendBytesType, ReplyIsMessage DEF TypeOK, ReadOther
  <1>10. ASSUME NEW c \in Conns, ReadError(c) PROVE TypeOK'
    BY <1>10 DEF TypeOK, ReadError, ReaderPCs
  <1>11. ASSUME NEW c \in Conns, UnregisterClient(c) PROVE TypeOK'
    BY <1>11 DEF TypeOK, UnregisterClient, ReaderPCs
  <1>12. ASSUME NEW c \in Conns, UnregisterStopped(c) \/ ReaderEnds(c) PROVE TypeOK'
    BY <1>12 DEF TypeOK, UnregisterStopped, ReaderEnds, ReaderPCs
  <1>13. ASSUME NEW c \in Conns, WriterDone(c) \/ WriteError(c) PROVE TypeOK'
    BY <1>13 DEF TypeOK, WriterDone, WriteError
  <1>14. ASSUME NEW c \in Conns, WriteMessage(c) PROVE TypeOK'
    <2>1. Head(send[c]) \in Message /\ Tail(send[c]) \in Seq(Message)
             /\ Len(Tail(send[c])) <= SendBuffer
      BY <1>14, HubAssumption DEF TypeOK, WriteMessage
    <2>2. seen' \in [Conns -> [Conns -> Nat]]
      <3>1. CASE UNCHANGED seen
        BY <3>1 DEF TypeOK
      <3>2. CASE Head(send[c]) # Reply /\ seen' = [seen EXCEPT ![c][Head(send[c]).by] = Head(send[c]).n]
        <4>1. Head(send[c]).n \in Nat
          BY <2>1, <3>2 DEF Message, Location
        <4> QED
          BY <3>2, <4>1 DEF TypeOK
      <3> QED
        BY <1>14, <3>1, <3>2 DEF WriteMessage, See
    <2> QED
      BY <1>14, <2>1, <2>2 DEF TypeOK, WriteMessage
  <1>15. CASE StartBroadcast
    <2>1. Head(queue) \in Location /\ Tail(queue) \in Seq(Location)
             /\ Len(Tail(queue)) <= BroadcastBuffer
      BY <1>15, HubAssumption DEF TypeOK, StartBroadcast
    <2>2. hub' \in HubState
      BY <1>15, <2>1 DEF StartBroadcast, HubState, Message, RiderConns
    <2> QED
      BY <1>15, <2>1, <2>2 DEF TypeOK, StartBroadcast
  <1>16. ASSUME NEW c \in Conns, VisitRider(c) PROVE TypeOK'
    BY <1>16 DEF TypeOK, VisitRider, HubState
  <1>17. CASE SendToVisited
    <2>1. hub.to \in Conns /\ hub.loc \in Message
      BY <1>17 DEF TypeOK, SendToVisited, HubState
    <2>2. send' \in [Conns -> Seq(Message)] /\ \A k \in Conns : Len(send'[k]) <= SendBuffer
      BY <1>17, <2>1, SendBytesType DEF SendToVisited
    <2>3. hub' \in HubState
      BY <1>17 DEF TypeOK, SendToVisited, HubState
    <2>4. late' \in [Conns -> [Drivers -> Nat]]
      <3> DEFINE d == Owner[hub.loc.by]
                 v == IF d \in subscribed[hub.to] THEN 0 ELSE late[hub.to][d] + 1
      <3>1. d \in Drivers => v \in Nat
        BY <2>1 DEF TypeOK
      <3>2. late' = [late EXCEPT ![hub.to][d] = v]
        BY <1>17 DEF SendToVisited
      <3>3. late \in [Conns -> [Drivers -> Nat]]
        BY DEF TypeOK
      <3> HIDE DEF d, v
      <3> QED
        BY <2>1, <3>1, <3>2, <3>3
    <2> QED
      BY <1>17, <2>2, <2>3, <2>4 DEF TypeOK, SendToVisited
  <1>18. CASE EndBroadcast
    BY <1>18, ReplyIsMessage DEF TypeOK, EndBroadcast, HubState, AtSelect
  <1>19. CASE CloseAllClients
    <2>1. hub' \in HubState
      BY <1>19, ReplyIsMessage DEF CloseAllClients, HubState, AtSelect
    <2> QED
      BY <1>19, <2>1 DEF TypeOK, CloseAllClients
  <1>20. CASE Stop
    BY <1>20 DEF TypeOK, Stop
  <1>21. ASSUME NEW c \in Conns, PeerGone(c) PROVE TypeOK'
    BY <1>21 DEF TypeOK, PeerGone
  <1>22. CASE UNCHANGED vars
    BY <1>22 DEF TypeOK, vars
  <1> QED
    BY <1>1, <1>2, <1>3, <1>4, <1>5, <1>6, <1>7, <1>8, <1>9, <1>10, <1>11, <1>12,
       <1>13, <1>14, <1>15, <1>16, <1>17, <1>18, <1>19, <1>20, <1>21, <1>22
    DEF Next, HubNext, ReadStep, ReaderStep, WriterStep, BroadcastStep

\* The hub and its clients hold what the code stores in them, and no channel
\* is ever filled beyond its capacity (hub.go:67, client.go:262).
THEOREM HubTypeCorrect == Spec => []TypeOK
  BY InitType, NextType, PTL DEF Spec

-----------------------------------------------------------------------------
(* The registry.                                                           *)

\* What makes RegistryExact inductive: a connection is registered under its
\* own id only, and one that has not met the hub yet is neither registered
\* nor done.
OwnId == \A i \in Ids, c \in Conns : registered[i] = c => Owner[c] = i
Unmet ==
    \A c \in Conns : reader[c] \in {"off", "register"} =>
        ~done[c] /\ registered[Owner[c]] # c

RegistryInv == RegistryExact /\ Unmet /\ OwnId

\* Every step keeps the registry and the clients in agreement.
LEMMA NextRegistry == TypeOK /\ RegistryInv /\ [Next]_vars => RegistryInv'
  <1> SUFFICES ASSUME TypeOK, RegistryInv, [Next]_vars PROVE RegistryInv'
    OBVIOUS
  <1> USE DEF GoTo, StartPumps, Meets, RegistryInv, RegistryExact, Unmet, OwnId, Pumping
  <1> DEFINE Typing ==
        /\ registered \in [Ids -> Conns \cup {None}]
        /\ done \in [Conns -> BOOLEAN]
        /\ reader \in [Conns -> ReaderPCs]
        /\ Owner \in [Conns -> Ids]
        /\ None \notin Conns
  <1>0. Typing
    BY HubAssumption DEF HubAssumption, TypeOK, Ids
  <1>1. ASSUME NEW c \in Conns, Connect(c) PROVE RegistryInv'
    BY <1>0, <1>1 DEF Connect
  <1>2. ASSUME NEW c \in Conns, RegisterClient(c) PROVE RegistryInv'
    <2>1. /\ registered[Owner[c]] # c /\ ~done[c]
          /\ reader'[c] = "read" /\ registered'[Owner[c]] = c
          /\ UNCHANGED stopping
      BY <1>0, <1>2 DEF RegisterClient
    <2>2. \A k \in Conns : done'[k] <=> done[k] \/ k = registered[Owner[c]]
      BY <1>0, <1>2 DEF RegisterClient
    <2>3. ~done'[c]
      BY <2>1, <2>2
    <2>4. ASSUME NEW k \in Conns, k # c
          PROVE  /\ reader'[k] = reader[k]
                 /\ Owner[k] = Owner[c] => registered'[Owner[k]] # k
                 /\ Owner[k] # Owner[c] =>
                       registered'[Owner[k]] = registered[Owner[k]] /\ registered[Owner[c]] # k
      <3>1. reader'[k] = reader[k] /\ registered' = [registered EXCEPT ![Owner[c]] = c]
        BY <1>0, <1>2, <2>4 DEF RegisterClient
      <3>2. Owner[k] \in Ids /\ Owner[c] \in Ids
        BY <1>0
      <3>3. registered[Owner[c]] = k => Owner[k] = Owner[c]
        BY <1>0, <1>2
      <3> QED
        BY <1>0, <2>4, <3>1, <3>2, <3>3
    <2>5. ASSUME NEW k \in Conns, k # c
          PROVE  /\ (Pumping(k) /\ ~done[k] => registered[Owner[k]] = k)'
                 /\ (registered[Owner[k]] = k => stopping \/ (Pumping(k) /\ ~done[k]))'
                 /\ (reader[k] \in {"off", "register"} =>
                        ~done[k] /\ registered[Owner[k]] # k)'
      <3>1. CASE Owner[k] = Owner[c]
        BY <1>0, <2>1, <2>2, <2>4, <2>5, <3>1
      <3>2. CASE Owner[k] # Owner[c]
        BY <1>0, <2>1, <2>2, <2>4, <2>5, <3>2
      <3> QED
        BY <3>1, <3>2
    <2>6. OwnId'
      BY <1>0, <1>2 DEF RegisterClient
    <2>7. Pumping(c)' /\ ~done'[c]
      BY <2>1, <2>3
    <2> QED
      BY <2>1, <2>5, <2>6, <2>7
  <1>3. ASSUME NEW c \in Conns, RegisterStopped(c) PROVE RegistryInv'
    BY <1>0, <1>3 DEF RegisterStopped
  <1>4. ASSUME NEW c \in Conns,
               ReadLocation(c) \/ Persist(c) \/ PersistFails(c) \/ Publish(c)
                  \/ PublishStopped(c) \/ ReadError(c)
        PROVE  RegistryInv'
    BY <1>0, <1>4
    DEF ReadLocation, Readable, Persist, PersistFails, Publish, PublishStopped, ReadError
  <1>5. ASSUME NEW c \in Conns, UnregisterClient(c) PROVE RegistryInv'
    BY <1>0, <1>5 DEF UnregisterClient
  <1>6. ASSUME NEW c \in Conns, UnregisterStopped(c) PROVE RegistryInv'
    BY <1>0, <1>6 DEF UnregisterStopped
  <1>7. ASSUME NEW c \in Conns, ReaderEnds(c) PROVE RegistryInv'
    BY <1>0, <1>7 DEF ReaderEnds
  <1>8. CASE CloseAllClients
    BY <1>0, <1>8 DEF CloseAllClients
  <1>9. CASE Stop
    BY <1>0, <1>9 DEF Stop
  <1>10. CASE UNCHANGED quiet
    BY <1>10 DEF quiet
  <1>11. ASSUME NEW c \in Conns, NEW d \in Drivers, Subscribe(c, d) \/ Unsubscribe(c, d)
         PROVE  UNCHANGED quiet
    BY <1>11 DEF quiet, Subscribe, Unsubscribe
  <1>12. ASSUME NEW c \in Conns, ReadOther(c) \/ WriterStep(c) \/ VisitRider(c) \/ PeerGone(c)
         PROVE  UNCHANGED quiet
    BY <1>12
    DEF quiet, ReadOther, WriterStep, WriterDone, WriteMessage, WriteError, EndWriter,
        VisitRider, PeerGone, data
  <1>13. ASSUME StartBroadcast \/ SendToVisited \/ EndBroadcast \/ UNCHANGED vars
         PROVE  UNCHANGED quiet
    BY <1>13 DEF quiet, StartBroadcast, SendToVisited, EndBroadcast, vars
  <1> QED
    BY <1>1, <1>2, <1>3, <1>4, <1>5, <1>6, <1>7, <1>8, <1>9, <1>10, <1>11, <1>12, <1>13
    DEF Next, HubNext, ReadStep, ReaderStep, BroadcastStep

\* The registry starts empty.
LEMMA InitRegistry == Init => RegistryInv
  <1> SUFFICES ASSUME Init PROVE RegistryInv
    OBVIOUS
  <1>1. \A c \in Conns : registered[Owner[c]] = None /\ None # c
    BY HubAssumption DEF HubAssumption, Init, Ids
  <1> QED
    BY <1>1, HubAssumption DEF HubAssumption, Init, RegistryInv, RegistryExact, Unmet, OwnId, Pumping

\* A connection that is being served and was not told to close is the one
\* registered under its id, however registers, replacements, late unregisters
\* (hub.go:143) and the end of the hub interleave.
THEOREM RegistryCorrect == Spec => []RegistryExact
  <1>1. Init => TypeOK /\ RegistryInv
    BY InitType, InitRegistry
  <1>2. TypeOK /\ RegistryInv /\ [Next]_vars => (TypeOK /\ RegistryInv)'
    BY NextType, NextRegistry
  <1>3. RegistryInv => RegistryExact
    BY DEF RegistryInv
  <1> QED
    BY <1>1, <1>2, <1>3, PTL DEF Spec

-----------------------------------------------------------------------------
(* Only accepted locations travel.                                         *)

\* What ReadPump is about to publish was accepted, and the hub sends only
\* while it serves a broadcast.
AcceptedInv ==
    /\ ObservedAccepted
    /\ \A c \in Conns : reader[c] = "publish" => Current(c) \in stored
    /\ hub.to # None => hub.pc = "fanout"

\* sendBytes puts nothing on its way but the message it was called with.
LEMMA SendBytesAccepted ==
    ASSUME TypeOK, NEW c \in Conns, NEW m \in Message, SendBytes(c, m),
           NEW S, m \in S, \A k \in Conns : OnTheWay(k) \subseteq S
    PROVE  \A k \in Conns : OnTheWay(k)' \subseteq S
  <1>1. CASE send' = [send EXCEPT ![c] = Append(@, m)]
    <2>1. send[c] \in Seq(Message) /\ send \in [Conns -> Seq(Message)]
      BY DEF TypeOK
    <2>2. \A i \in DOMAIN Append(send[c], m) : Append(send[c], m)[i] \in S
      <3> TAKE i \in DOMAIN Append(send[c], m)
      <3>1. i \in 1 .. Len(send[c]) + 1
        BY <2>1
      <3>2. i \in DOMAIN send[c] => send[c][i] \in S
        BY DEF OnTheWay
      <3> QED
        BY <2>1, <3>1, <3>2
    <2>3. \A k \in Conns : k # c => send'[k] = send[k]
      BY <1>1, <2>1
    <2>4. send'[c] = Append(send[c], m)
      BY <1>1, <2>1
    <2> QED
      BY <2>2, <2>3, <2>4 DEF OnTheWay
  <1>2. CASE UNCHANGED send
    BY <1>2 DEF OnTheWay
  <1> QED
    BY <1>1, <1>2 DEF SendBytes

\* The steps after which everything on its way is where it was.
atRest == <<queue, hub, send, seen>>

\* A step that moves no message makes none unaccepted.
LEMMA AtRestAccepted ==
    ASSUME ObservedAccepted, UNCHANGED atRest, stored \subseteq stored'
    PROVE  ObservedAccepted'
  BY DEF ObservedAccepted, atRest, OnTheWay

\* Every step sends only what has been stored.
LEMMA NextAccepted == TypeOK /\ AcceptedInv /\ [Next]_vars => AcceptedInv'
  <1> SUFFICES ASSUME TypeOK, AcceptedInv, [Next]_vars PROVE AcceptedInv'
    OBVIOUS
  <1> USE DEF GoTo, StartPumps, EndWriter, data, AcceptedInv
  <1>0. /\ reader \in [Conns -> ReaderPCs] /\ updates \in [Conns -> Nat]
        /\ hub \in HubState
    BY DEF TypeOK
  <1> DEFINE Ready == \A c \in Conns : reader[c] = "publish" => Current(c) \in stored
             Busy == hub.to # None => hub.pc = "fanout"
  <1>1. ASSUME NEW c \in Conns,
               \/ Connect(c) \/ RegisterClient(c) \/ RegisterStopped(c) \/ ReadError(c)
               \/ UnregisterClient(c) \/ UnregisterStopped(c) \/ ReaderEnds(c)
        PROVE  AcceptedInv'
    <2>1. UNCHANGED <<atRest, stored, updates>>
      BY <1>1 DEF Connect, RegisterClient, RegisterStopped, ReadError, UnregisterClient,
                  UnregisterStopped, ReaderEnds, atRest
    <2>2. Ready'
      BY <1>0, <1>1, <2>1 DEF Connect, RegisterClient, RegisterStopped, ReadError,
                  UnregisterClient, UnregisterStopped, ReaderEnds, Current
    <2> QED
      BY <2>1, <2>2, AtRestAccepted DEF atRest
  <1>2. ASSUME NEW c \in Conns, ReadLocation(c) PROVE AcceptedInv'
    <2>1. Ready'
      BY <1>0, <1>2 DEF ReadLocation, Current
    <2> QED
      BY <1>2, <2>1, AtRestAccepted DEF ReadLocation, atRest
  <1>3. ASSUME NEW c \in Conns, Persist(c) PROVE AcceptedInv'
    <2>1. Ready'
      BY <1>0, <1>3 DEF Persist, Current
    <2> QED
      BY <1>3, <2>1, AtRestAccepted DEF Persist, atRest
  <1>4. ASSUME NEW c \in Conns,
               SendBytes(c, Reply), reader' = [reader EXCEPT ![c] = "read"] \/ UNCHANGED reader,
               UNCHANGED <<queue, hub, stored, seen, updates>>
        PROVE  AcceptedInv'
    <2>1. Ready'
      BY <1>0, <1>4 DEF Current
    <2>2. \A k \in Conns : OnTheWay(k)' \subseteq stored \cup {Reply}
      BY <1>4, SendBytesAccepted, ReplyIsMessage DEF ObservedAccepted
    <2> QED
      BY <1>4, <2>1, <2>2 DEF ObservedAccepted
  <1>5. ASSUME NEW c \in Conns, PersistFails(c) \/ PublishStopped(c) \/ ReadOther(c)
        PROVE  AcceptedInv'
    BY <1>4, <1>5 DEF PersistFails, PublishStopped, ReadOther
  <1>6. ASSUME NEW c \in Conns, NEW d \in Drivers, Subscribe(c, d) \/ Unsubscribe(c, d)
        PROVE  AcceptedInv'
    BY <1>4, <1>6 DEF Subscribe, Unsubscribe
  <1>7. ASSUME NEW c \in Conns, Publish(c) PROVE AcceptedInv'
    <2>1. Current(c) \in stored /\ queue \in Seq(Location)
      BY <1>7 DEF Publish, TypeOK
    <2>2. \A i \in DOMAIN queue' : queue'[i] \in stored
      <3> TAKE i \in DOMAIN queue'
      <3>1. i \in 1 .. Len(queue) + 1 /\ queue' = Append(queue, Current(c))
        BY <1>7, <2>1 DEF Publish
      <3> QED
        BY <2>1, <3>1 DEF ObservedAccepted
    <2>3. Ready'
      BY <1>0, <1>7 DEF Publish, Current
    <2> QED
      BY <1>7, <2>2, <2>3 DEF Publish, ObservedAccepted, OnTheWay
  <1>8. ASSUME NEW c \in Conns, WriterDone(c) \/ WriteError(c) \/ PeerGone(c) PROVE AcceptedInv'
    BY <1>8, AtRestAccepted DEF WriterDone, WriteError, PeerGone, atRest, Current
  <1>9. ASSUME NEW c \in Conns, WriteMessage(c) PROVE AcceptedInv'
    <2>1. send \in [Conns -> Seq(Message)] /\ seen \in [Conns -> [Conns -> Nat]]
      BY DEF TypeOK
    <2>2. send[c] # <<>> /\ send' = [send EXCEPT ![c] = Tail(@)] /\ See(c, Head(send[c]))
      BY <1>9 DEF WriteMessage
    <2>3. 1 \in DOMAIN send[c] /\ Head(send[c]) = send[c][1]
      BY <2>1, <2>2
    <2>4. Head(send[c]) \in stored \cup {Reply}
      BY <2>3 DEF ObservedAccepted, OnTheWay
    <2>5. \A k \in Conns : OnTheWay(k)' \subseteq OnTheWay(k)
      <3>1. \A i \in DOMAIN Tail(send[c]) : i + 1 \in DOMAIN send[c] /\ Tail(send[c])[i] = send[c][i + 1]
        BY <2>1, <2>2
      <3> QED
        BY <2>1, <2>2, <3>1 DEF OnTheWay
    <2>6. \A j, k \in Conns : seen'[j][k] > 0 => [by |-> k, n |-> seen'[j][k]] \in stored
      <3>1. CASE seen' = seen
        BY <3>1 DEF ObservedAccepted
      <3>2. CASE seen' # seen
        <4>1. Head(send[c]) \in stored
          BY <2>2, <2>4, <3>2 DEF See
        <4>2. PICK m \in Location : m = Head(send[c]) /\ m \in stored
          BY <4>1 DEF TypeOK
        <4>3. m.by \in Conns /\ m.n \in Nat /\ m = [by |-> m.by, n |-> m.n]
          BY <4>2 DEF Location
        <4>4. seen' = [seen EXCEPT ![c][m.by] = m.n]
          BY <2>2, <3>2, <4>2 DEF See
        <4> QED
          BY <2>1, <4>2, <4>3, <4>4 DEF ObservedAccepted
      <3> QED
        BY <3>1, <3>2
    <2>7. UNCHANGED <<queue, hub, stored, reader, updates>>
      BY <1>9 DEF WriteMessage
    <2> QED
      BY <2>5, <2>6, <2>7 DEF ObservedAccepted, Current
  <1>10. CASE StartBroadcast
    <2>1. queue \in Seq(Location) /\ queue # <<>>
      BY <1>10 DEF StartBroadcast, TypeOK
    <2>2. 1 \in DOMAIN queue /\ Head(queue) = queue[1]
      BY <2>1
    <2>3. \A i \in DOMAIN Tail(queue) : i + 1 \in DOMAIN queue /\ Tail(queue)[i] = queue[i + 1]
      BY <2>1
    <2>4. hub'.loc \in stored /\ hub'.to = None
      BY <1>10, <2>2 DEF StartBroadcast, ObservedAccepted
    <2>5. \A i \in DOMAIN queue' : queue'[i] \in stored
      BY <1>10, <2>3 DEF StartBroadcast, ObservedAccepted
    <2> QED
      BY <1>10, <2>4, <2>5 DEF StartBroadcast, ObservedAccepted, OnTheWay, Current
  <1>11. ASSUME NEW c \in Conns, VisitRider(c) PROVE AcceptedInv'
    <2>1. hub'.loc = hub.loc /\ hub'.pc = hub.pc /\ hub.pc = "fanout"
      BY <1>0, <1>11 DEF VisitRider, HubState
    <2> QED
      BY <1>11, <2>1 DEF VisitRider, ObservedAccepted, OnTheWay, Current
  <1>12. CASE SendToVisited
    <2>1. hub.to \in Conns /\ hub.loc \in Message /\ hub.pc = "fanout"
      BY <1>0, <1>12 DEF SendToVisited, HubState
    <2>2. \A k \in Conns : OnTheWay(k)' \subseteq stored \cup {Reply}
      BY <1>12, <2>1, SendBytesAccepted DEF SendToVisited, ObservedAccepted
    <2>3. hub'.loc = hub.loc /\ hub'.to = None
      BY <1>0, <1>12 DEF SendToVisited, HubState
    <2> QED
      BY <1>12, <2>1, <2>2, <2>3 DEF SendToVisited, ObservedAccepted, Current
  <1>13. CASE EndBroadcast \/ CloseAllClients
    <2>1. hub'.pc # "fanout" /\ hub'.to = None
      BY <1>13 DEF EndBroadcast, CloseAllClients, AtSelect
    <2> QED
      BY <1>13, <2>1 DEF EndBroadcast, CloseAllClients, ObservedAccepted, OnTheWay, Current
  <1>14. CASE Stop \/ UNCHANGED vars
    BY <1>14, AtRestAccepted DEF Stop, vars, atRest, Current
  <1> QED
    BY <1>1, <1>2, <1>3, <1>5, <1>6, <1>7, <1>8, <1>9, <1>10, <1>11, <1>12, <1>13, <1>14
    DEF Next, HubNext, ReadStep, ReaderStep, WriterStep, BroadcastStep

\* Nothing is on its way at the start.
LEMMA InitAccepted == Init => AcceptedInv
  BY DEF Init, AcceptedInv, ObservedAccepted, OnTheWay, AtSelect

\* No rider ever observes a location the backend refused (client.go:180),
\* whatever is dropped and whoever disconnects.
THEOREM OnlyAcceptedObserved == Spec => []ObservedAccepted
  <1>1. Init => TypeOK /\ AcceptedInv
    BY InitType, InitAccepted
  <1>2. TypeOK /\ AcceptedInv /\ [Next]_vars => (TypeOK /\ AcceptedInv)'
    BY NextType, NextAccepted
  <1>3. AcceptedInv => ObservedAccepted
    BY DEF AcceptedInv
  <1> QED
    BY <1>1, <1>2, <1>3, PTL DEF Spec

-----------------------------------------------------------------------------
(* Unsubscribing.                                                          *)

\* Nothing is late while a subscription lasts, nor yet when the hub has just
\* found one.
LateInv ==
    /\ AtMostOneLate
    /\ \A c \in Conns, d \in Drivers : d \in subscribed[c] => late[c][d] = 0
    /\ hub.to # None => \A d \in Drivers : d = Owner[hub.loc.by] => late[hub.to][d] = 0

\* Every step keeps to one late update per subscription that ended.
LEMMA NextLate == TypeOK /\ LateInv /\ [Next]_vars => LateInv'
  <1> SUFFICES ASSUME TypeOK, LateInv, [Next]_vars PROVE LateInv'
    OBVIOUS
  <1> USE DEF LateInv, AtMostOneLate
  <1>0. /\ late \in [Conns -> [Drivers -> Nat]]
        /\ subscribed \in [Conns -> SUBSET Drivers]
        /\ hub \in HubState
        /\ None \notin Conns
    BY HubAssumption DEF TypeOK, HubAssumption
  <1>1. ASSUME UNCHANGED <<late, subscribed>>, UNCHANGED hub \/ hub'.to = None
        PROVE  LateInv'
    BY <1>1
  <1>2. ASSUME NEW c \in Conns, NEW d \in Drivers, Subscribe(c, d) PROVE LateInv'
    BY <1>0, <1>2 DEF Subscribe, HubState
  <1>3. ASSUME NEW c \in Conns, NEW d \in Drivers, Unsubscribe(c, d) PROVE LateInv'
    BY <1>0, <1>3 DEF Unsubscribe
  <1>4. ASSUME NEW c \in Conns, VisitRider(c) PROVE LateInv'
    <2>1. hub'.loc = hub.loc /\ UNCHANGED <<late, subscribed>>
      BY <1>0, <1>4 DEF VisitRider, HubState, data
    <2>2. hub'.to = IF Owner[hub.loc.by] \in subscribed[c] THEN c ELSE None
      BY <1>0, <1>4 DEF VisitRider, HubState
    <2> QED
      BY <1>0, <1>4, <2>1, <2>2
  <1>5. CASE SendToVisited
    <2> DEFINE e == Owner[hub.loc.by]
               v == IF e \in subscribed[hub.to] THEN 0 ELSE late[hub.to][e] + 1
    <2>1. hub'.to = None /\ hub.to \in Conns /\ UNCHANGED subscribed
      BY <1>0, <1>5 DEF SendToVisited, HubState
    <2>2. late' = [late EXCEPT ![hub.to][e] = v]
      BY <1>5 DEF SendToVisited
    <2>3. e \in Drivers => v <= 1 /\ (e \in subscribed[hub.to] => v = 0)
      BY <1>0, <1>5, <2>1 DEF SendToVisited
    <2> HIDE DEF e, v
    <2>4. \A c \in Conns, d \in Drivers :
             late'[c][d] = IF c = hub.to /\ d = e THEN v ELSE late[c][d]
      BY <1>0, <2>1, <2>2
    <2> QED
      BY <1>0, <2>1, <2>3, <2>4
  <1>6. ASSUME NEW c \in Conns, ReaderStep(c) \/ WriterStep(c) \/ PeerGone(c) \/ Connect(c)
                  \/ ReadLocation(c) \/ ReadOther(c)
        PROVE  LateInv'
    BY <1>1, <1>6
    DEF ReaderStep, RegisterClient, RegisterStopped, Persist, PersistFails, Publish,
        PublishStopped, ReadError, UnregisterClient, UnregisterStopped, ReaderEnds,
        WriterStep, WriterDone, WriteMessage, WriteError, PeerGone, Connect, ReadLocation,
        ReadOther, data
  <1>7. CASE StartBroadcast \/ EndBroadcast \/ CloseAllClients \/ Stop \/ UNCHANGED vars
    <2>1. UNCHANGED <<late, subscribed>> /\ (UNCHANGED hub \/ hub'.to = None)
      BY <1>7 DEF StartBroadcast, EndBroadcast, CloseAllClients, AtSelect, Stop, vars, data
    <2> QED
      BY <1>1, <2>1
  <1> QED
    BY <1>2, <1>3, <1>4, <1>5, <1>6, <1>7 DEF Next, HubNext, ReadStep, BroadcastStep

\* Nothing is late at the start.
LEMMA InitLate == Init => LateInv
  BY DEF Init, LateInv, AtMostOneLate, AtSelect

\* After an unsubscribe at most one update of that driver still reaches the
\* rider's queue: the one the hub had already decided to send (hub.go:186).
THEOREM OneLateAtMost == Spec => []AtMostOneLate
  <1>1. Init => TypeOK /\ LateInv
    BY InitType, InitLate
  <1>2. TypeOK /\ LateInv /\ [Next]_vars => (TypeOK /\ LateInv)'
    BY NextType, NextLate
  <1>3. LateInv => AtMostOneLate
    BY DEF LateInv
  <1> QED
    BY <1>1, <1>2, <1>3, PTL DEF Spec

-----------------------------------------------------------------------------
(* The order of the updates of one connection.                             *)

\* No update of k that is queued, or will be, is older than the n-th.
Queued(k, n) ==
    /\ n <= updates[k]
    /\ \A i \in DOMAIN queue : queue[i].by = k => n <= queue[i].n

\* Nor is the one that is being broadcast.
Sent(k, n) ==
    /\ Queued(k, n)
    /\ hub.pc = "fanout" /\ hub.loc.by = k => n <= hub.loc.n

SortedBy(s, k) ==
    \A i, j \in DOMAIN s : i <= j /\ s[i].by = k /\ s[j].by = k => s[i].n <= s[j].n

\* From the peer back to the reader, the updates of a connection get newer:
\* what the peer of c has seen, what waits to be written to it, what the hub
\* is sending on, ...
PeerOrder(c) ==
    \A k \in Conns :
        /\ SortedBy(send[c], k)
        /\ Sent(k, seen[c][k])
        /\ \A i \in DOMAIN send[c] : send[c][i].by = k =>
              Sent(k, send[c][i].n) /\ seen[c][k] <= send[c][i].n

\* ... the queue of the hub, and the update being published.
HubOrder ==
    /\ hub.to # None => hub.pc = "fanout"
    /\ \A k \in Conns : SortedBy(queue, k)
    /\ \A i \in DOMAIN queue : queue[i].n <= updates[queue[i].by]
    /\ hub.pc = "fanout" => hub.loc \in Location /\ Queued(hub.loc.by, hub.loc.n)

OrderInv == HubOrder /\ \A c \in Conns : PeerOrder(c)

\* The last element of a sequence is the only one that Append adds, and Tail
\* only takes the first one away.
LEMMA AppendSorted ==
    ASSUME NEW S, NEW s \in Seq(S), NEW m, NEW k, SortedBy(s, k),
           m.n <= m.n,
           \A i \in DOMAIN s : s[i].by = k /\ m.by = k => s[i].n <= m.n
    PROVE  SortedBy(Append(s, m), k)
  <1> SUFFICES ASSUME NEW i \in DOMAIN Append(s, m), NEW j \in DOMAIN Append(s, m), i <= j,
                      Append(s, m)[i].by = k, Append(s, m)[j].by = k
               PROVE  Append(s, m)[i].n <= Append(s, m)[j].n
    BY DEF SortedBy
  <1>1. i \in 1 .. Len(s) + 1 /\ j \in 1 .. Len(s) + 1 /\ Len(s) \in Nat /\ DOMAIN s = 1 .. Len(s)
    OBVIOUS
  <1>2. CASE j = Len(s) + 1 /\ i = j
    BY <1>1, <1>2
  <1>3. CASE j = Len(s) + 1 /\ i # j
    <2>1. i \in DOMAIN s /\ Append(s, m)[i] = s[i] /\ Append(s, m)[j] = m
      BY <1>1, <1>3
    <2> QED
      BY <2>1
  <1>4. CASE j # Len(s) + 1
    <2>1. /\ i \in DOMAIN s /\ Append(s, m)[i] = s[i]
          /\ j \in DOMAIN s /\ Append(s, m)[j] = s[j]
      BY <1>1, <1>4
    <2> QED
      BY <2>1 DEF SortedBy
  <1> QED
    BY <1>2, <1>3, <1>4

\* What is left of an ordered channel is ordered and follows its head.
LEMMA TailSorted ==
    ASSUME NEW S, NEW s \in Seq(S), s # <<>>, NEW k, SortedBy(s, k)
    PROVE  /\ SortedBy(Tail(s), k)
           /\ 1 \in DOMAIN s /\ Head(s) = s[1]
           /\ \A i \in DOMAIN Tail(s) :
                i + 1 \in DOMAIN s /\ Tail(s)[i] = s[i + 1]
                /\ (s[1].by = k /\ s[i + 1].by = k => s[1].n <= s[i + 1].n)
  <1>1. \A i \in DOMAIN Tail(s) : i \in Nat /\ i + 1 \in DOMAIN s /\ Tail(s)[i] = s[i + 1]
    OBVIOUS
  <1>2. 1 \in DOMAIN s /\ Head(s) = s[1]
    OBVIOUS
  <1>3. \A i, j \in DOMAIN Tail(s) : i <= j => i + 1 <= j + 1
    BY <1>1
  <1>4. SortedBy(Tail(s), k)
    BY <1>1, <1>3 DEF SortedBy
  <1>5. \A i \in DOMAIN Tail(s) : 1 <= i + 1
    BY <1>1
  <1> QED
    BY <1>1, <1>2, <1>4, <1>5 DEF SortedBy

-----------------------------------------------------------------------------
(* A step of the hub or of a reader leaves every update that is on its way *)
(* behind those that follow it.                                            *)

pipe == <<queue, hub, updates>>

\* Every step keeps the broadcast queue in the order of publication.
LEMMA HubOrderStep ==
    ASSUME TypeOK, HubOrder, [Next]_vars
    PROVE  /\ HubOrder'
           /\ \A k \in Conns, n \in Nat : Sent(k, n) => Sent(k, n)'
  <1> DEFINE Goal == HubOrder' /\ \A k \in Conns, n \in Nat : Sent(k, n) => Sent(k, n)'
  <1>0. /\ hub \in HubState /\ updates \in [Conns -> Nat] /\ queue \in Seq(Location)
        /\ \A i \in DOMAIN queue : queue[i] \in Location /\ queue[i].by \in Conns /\ queue[i].n \in Nat
    <2>1. hub \in HubState /\ updates \in [Conns -> Nat] /\ queue \in Seq(Location)
      BY DEF TypeOK
    <2>2. \A i \in DOMAIN queue : queue[i] \in Location
      BY <2>1
    <2>3. \A m \in Location : m.by \in Conns /\ m.n \in Nat
      BY DEF Location
    <2> QED
      BY <2>1, <2>2, <2>3
  <1>1. CASE UNCHANGED pipe
    BY <1>1 DEF pipe, HubOrder, Sent, Queued
  <1>2. ASSUME NEW c \in Conns, ReadLocation(c) PROVE Goal
    <2>1. /\ UNCHANGED <<queue, hub>>
          /\ \A k \in Conns : updates'[k] \in Nat /\ updates[k] \in Nat /\ updates[k] <= updates'[k]
      BY <1>0, <1>2 DEF ReadLocation
    <2>2. \A k \in Conns, n \in Nat : Queued(k, n) => Queued(k, n)'
      BY <2>1 DEF Queued
    <2>3. \A i \in DOMAIN queue : queue[i].n <= updates'[queue[i].by]
      BY <1>0, <2>1 DEF HubOrder
    <2>4. hub.pc = "fanout" => hub.loc.by \in Conns /\ hub.loc.n \in Nat
      BY DEF HubOrder, Location
    <2> QED
      BY <2>1, <2>2, <2>3, <2>4 DEF HubOrder, Sent
  <1>3. ASSUME NEW c \in Conns, Publish(c) PROVE Goal
    <2> DEFINE m == Current(c)
    <2>1. queue' = Append(queue, m) /\ UNCHANGED <<hub, updates>>
      BY <1>3 DEF Publish
    <2>2. m.by = c /\ m.n = updates[c] /\ m.n \in Nat
      BY <1>0 DEF Current
    <2> HIDE DEF m
    <2>3. \A i \in DOMAIN queue' : (i \in DOMAIN queue /\ queue'[i] = queue[i]) \/ queue'[i] = m
      BY <1>0, <2>1
    <2>4. \A k \in Conns : SortedBy(queue', k)
      <3> TAKE k \in Conns
      <3>1. SortedBy(queue, k) /\ m.n <= m.n
               /\ \A i \in DOMAIN queue : queue[i].by = k /\ m.by = k => queue[i].n <= m.n
        BY <2>2 DEF HubOrder
      <3> QED
        BY <1>0, <2>1, <3>1, AppendSorted
    <2>5. \A k \in Conns, n \in Nat : Queued(k, n) => Queued(k, n)'
      BY <2>1, <2>2, <2>3 DEF Queued
    <2>6. \A i \in DOMAIN queue' : queue'[i].n <= updates[queue'[i].by]
      BY <2>2, <2>3 DEF HubOrder
    <2>7. hub.pc = "fanout" => hub.loc.by \in Conns /\ hub.loc.n \in Nat
      BY DEF HubOrder, Location
    <2> QED
      BY <2>1, <2>4, <2>5, <2>6, <2>7 DEF HubOrder, Sent
  <1>4. CASE StartBroadcast
    <2>1. /\ queue # <<>> /\ queue' = Tail(queue) /\ UNCHANGED updates
          /\ hub'.pc = "fanout" /\ hub'.loc = Head(queue) /\ hub'.to = None
      BY <1>4 DEF StartBroadcast
    <2>2. \A k \in Conns : SortedBy(queue, k)
      BY DEF HubOrder
    <2>3. \A k \in Conns : SortedBy(queue', k)
      BY <1>0, <2>1, <2>2, TailSorted
    <2>4. Head(queue) = queue[1] /\ 1 \in DOMAIN queue
      BY <1>0, <2>1
    <2>5. \A i \in DOMAIN queue' : i + 1 \in DOMAIN queue /\ queue'[i] = queue[i + 1]
      BY <1>0, <2>1
    <2>6. \A i \in DOMAIN queue' : queue'[i].by = queue[1].by => queue[1].n <= queue'[i].n
      <3>1. queue[1].by \in Conns
        BY <1>0, <2>4
      <3> QED
        BY <1>0, <2>1, <2>2, <3>1, TailSorted
    <2>7. Queued(hub.loc.by, hub.loc.n)' /\ hub'.loc \in Location
      BY <1>0, <2>1, <2>4, <2>6 DEF Queued, HubOrder
    <2>8. \A k \in Conns, n \in Nat : Sent(k, n) => Sent(k, n)'
      BY <2>1, <2>4, <2>5 DEF Sent, Queued
    <2>9. \A i \in DOMAIN queue' : queue'[i].n <= updates'[queue'[i].by]
      BY <2>1, <2>5 DEF HubOrder
    <2> QED
      BY <2>1, <2>3, <2>7, <2>8, <2>9 DEF HubOrder
  <1>5. ASSUME UNCHANGED <<queue, updates>>,
               (hub'.loc = hub.loc /\ hub'.pc = hub.pc) \/ hub'.pc # "fanout",
               hub'.to # None => hub'.pc = "fanout"
        PROVE  Goal
    BY <1>5 DEF HubOrder, Sent, Queued
  <1>6. ASSUME NEW c \in Conns, VisitRider(c) PROVE Goal
    BY <1>0, <1>5, <1>6 DEF VisitRider, HubState, data
  <1>7. CASE SendToVisited
    BY <1>0, <1>5, <1>7 DEF SendToVisited, HubState
  <1>8. CASE EndBroadcast \/ CloseAllClients
    <2>1. hub'.pc # "fanout" /\ hub'.to = None
      BY <1>8 DEF EndBroadcast, CloseAllClients, AtSelect
    <2> QED
      BY <1>5, <1>8, <2>1 DEF EndBroadcast, CloseAllClients, data
  <1>9. ASSUME NEW c \in Conns,
               \/ Connect(c) \/ RegisterClient(c) \/ RegisterStopped(c) \/ Persist(c)
               \/ PersistFails(c) \/ PublishStopped(c) \/ ReadOther(c) \/ ReadError(c)
               \/ UnregisterClient(c) \/ UnregisterStopped(c) \/ ReaderEnds(c)
               \/ WriterStep(c) \/ PeerGone(c)
        PROVE  UNCHANGED pipe
    BY <1>9 DEF Connect, RegisterClient, RegisterStopped, Persist, PersistFails, PublishStopped,
                ReadOther, ReadError, UnregisterClient, UnregisterStopped, ReaderEnds,
                WriterStep, WriterDone, WriteMessage, WriteError, PeerGone, pipe, data
  <1>10. ASSUME NEW c \in Conns, NEW d \in Drivers, Subscribe(c, d) \/ Unsubscribe(c, d)
         PROVE  UNCHANGED pipe
    BY <1>10 DEF Subscribe, Unsubscribe, pipe
  <1>11. CASE Stop \/ UNCHANGED vars
    BY <1>1, <1>11 DEF Stop, vars, pipe, data
  <1> QED
    BY <1>1, <1>2, <1>3, <1>4, <1>6, <1>7, <1>8, <1>9, <1>10, <1>11
    DEF Next, HubNext, ReadStep, ReaderStep, BroadcastStep

-----------------------------------------------------------------------------
(* What a step does to the messages of one connection.                     *)

SentStays == \A k \in Conns, n \in Nat : Sent(k, n) => Sent(k, n)'

\* The messages of a connection are replies or published locations.
LEMMA PeerTypes ==
    ASSUME TypeOK, NEW c \in Conns
    PROVE  /\ send[c] \in Seq(Message) /\ DOMAIN send[c] = 1 .. Len(send[c]) /\ Len(send[c]) \in Nat
           /\ seen[c] \in [Conns -> Nat]
           /\ \A i \in DOMAIN send[c] : send[c][i] \in Message /\ send[c][i].n \in Nat
           /\ \A m \in Message : m.by \in Conns => m \in Location
           /\ \A m \in Location : m.by \in Conns /\ m.n \in Nat
  <1>1. send[c] \in Seq(Message) /\ seen[c] \in [Conns -> Nat]
    BY DEF TypeOK
  <1>2. DOMAIN send[c] = 1 .. Len(send[c]) /\ Len(send[c]) \in Nat
           /\ \A i \in DOMAIN send[c] : send[c][i] \in Message
    BY <1>1
  <1>3. \A m \in Location : m.by \in Conns /\ m.n \in Nat
    BY DEF Location
  <1>4. \A m \in Message : m.n \in Nat /\ (m.by \in Conns => m \in Location)
    BY <1>3, HubAssumption DEF Message, Reply, HubAssumption
  <1> QED
    BY <1>1, <1>2, <1>3, <1>4

\* A step that leaves a connection's messages alone keeps their order.
LEMMA PeerKept ==
    ASSUME TypeOK, NEW c \in Conns, PeerOrder(c), SentStays,
           send'[c] = send[c], seen'[c] = seen[c]
    PROVE  PeerOrder(c)'
  BY PeerTypes DEF PeerOrder, SentStays, Sent, Queued, SortedBy

\* A reply in between leaves the order of the updates.
LEMMA PeerReply ==
    ASSUME TypeOK, NEW c \in Conns, PeerOrder(c), SentStays,
           NEW k \in Conns, SendBytes(k, Reply), UNCHANGED seen
    PROVE  PeerOrder(c)'
  <1>1. CASE send'[c] = send[c]
    BY <1>1, PeerKept
  <1>2. CASE send'[c] = Append(send[c], Reply)
    <2>1. Reply.by \notin Conns /\ Reply.n <= Reply.n
      BY HubAssumption DEF Reply, HubAssumption
    <2>2. \A q \in Conns : SortedBy(send'[c], q)
      <3> TAKE q \in Conns
      <3>1. SortedBy(send[c], q)
        BY DEF PeerOrder
      <3> HIDE DEF Reply
      <3> QED
        BY <1>2, <2>1, <3>1, AppendSorted, PeerTypes
    <2>3. \A i \in DOMAIN send'[c] : (i \in DOMAIN send[c] /\ send'[c][i] = send[c][i])
                                        \/ send'[c][i].by \notin Conns
      BY <1>2, <2>1, PeerTypes
    <2> QED
      BY <2>2, <2>3, PeerTypes DEF PeerOrder, SentStays, Sent, Queued
  <1> QED
    BY <1>1, <1>2 DEF SendBytes, TypeOK

\* The update the hub fans out is not older than those queued before.
LEMMA PeerUpdate ==
    ASSUME TypeOK, HubOrder, NEW c \in Conns, PeerOrder(c), SentStays, SendToVisited
    PROVE  PeerOrder(c)'
  <1> DEFINE m == hub.loc
  <1>1. hub.to \in Conns /\ hub.pc = "fanout" /\ UNCHANGED seen /\ SendBytes(hub.to, m)
    BY DEF SendToVisited, HubOrder, TypeOK, HubState
  <1>2. m \in Location /\ m.by \in Conns /\ m.n \in Nat /\ Sent(m.by, m.n)
    BY <1>1, PeerTypes DEF HubOrder, Sent
  <1>3. CASE send'[c] = send[c]
    BY <1>1, <1>3, PeerKept
  <1>4. CASE send'[c] = Append(send[c], m)
    <2>1. \A i \in DOMAIN send[c] : send[c][i].by = m.by => send[c][i].n <= m.n
      BY <1>1, <1>2 DEF PeerOrder, Sent
    <2>2. seen[c][m.by] <= m.n
      BY <1>1, <1>2 DEF PeerOrder, Sent
    <2> HIDE DEF m
    <2>3. \A q \in Conns : SortedBy(send'[c], q)
      <3> TAKE q \in Conns
      <3>1. SortedBy(send[c], q) /\ m.n <= m.n
        BY <1>2 DEF PeerOrder
      <3> QED
        BY <1>4, <2>1, <3>1, AppendSorted, PeerTypes
    <2>4. \A i \in DOMAIN send'[c] : (i \in DOMAIN send[c] /\ send'[c][i] = send[c][i])
                                        \/ send'[c][i] = m
      BY <1>4, PeerTypes
    <2>5. \A k \in Conns : seen'[c][k] \in Nat /\ Sent(k, seen'[c][k])
      BY <1>1, PeerTypes DEF PeerOrder
    <2>6. \A k \in Conns, i \in DOMAIN send'[c] : send'[c][i].by = k =>
              Sent(k, send'[c][i].n) /\ send'[c][i].n \in Nat /\ seen'[c][k] <= send'[c][i].n
      BY <1>1, <1>2, <2>2, <2>4, PeerTypes DEF PeerOrder
    <2> QED
      BY <2>3, <2>5, <2>6 DEF PeerOrder, SentStays, Sent, Queued
  <1> QED
    BY <1>1, <1>3, <1>4 DEF SendBytes, TypeOK

\* What is written to the peer is at least as new as what it has seen, and
\* no newer than what waits behind it.
LEMMA PeerWrite ==
    ASSUME TypeOK, NEW c \in Conns, PeerOrder(c), SentStays, WriteMessage(c)
    PROVE  PeerOrder(c)' /\ \A k \in Conns : seen'[c][k] >= seen[c][k]
  <1> DEFINE m == send[c][1]
  <1>1. send[c] # <<>> /\ send'[c] = Tail(send[c]) /\ See(c, Head(send[c]))
    BY DEF WriteMessage, TypeOK
  <1>2. 1 \in DOMAIN send[c] /\ Head(send[c]) = m /\ m \in Message /\ m.n \in Nat
    BY <1>1, PeerTypes
  <1>3. \A k \in Conns : SortedBy(send[c], k)
    BY DEF PeerOrder
  <1>4. \A k \in Conns : SortedBy(send'[c], k)
    BY <1>1, <1>3, PeerTypes, TailSorted
  <1>5. \A i \in DOMAIN send'[c] : i + 1 \in DOMAIN send[c] /\ send'[c][i] = send[c][i + 1]
    BY <1>1, PeerTypes
  <1>6. \A i \in DOMAIN send'[c] : m.by \in Conns /\ send'[c][i].by = m.by => m.n <= send'[c][i].n
    BY <1>1, <1>3, PeerTypes, TailSorted
  <1>7. \A k \in Conns : m.by = k => Sent(k, m.n) /\ seen[c][k] <= m.n
    BY <1>2 DEF PeerOrder
  <1> HIDE DEF m
  <1>8. \A k \in Conns : seen'[c][k] = seen[c][k] \/ (k = m.by /\ seen'[c][k] = m.n)
    <2>1. CASE UNCHANGED seen
      BY <2>1
    <2>2. CASE seen' = [seen EXCEPT ![c][m.by] = m.n]
      BY <2>2, PeerTypes DEF TypeOK
    <2> QED
      BY <1>1, <1>2, <2>1, <2>2 DEF See
  <1>9. \A k \in Conns : /\ Sent(k, seen[c][k]) /\ seen[c][k] \in Nat
                          /\ \A i \in DOMAIN send[c] : send[c][i].by = k =>
                                Sent(k, send[c][i].n) /\ seen[c][k] <= send[c][i].n
                                /\ send[c][i].n \in Nat
    BY PeerTypes DEF PeerOrder
  <1>10. \A k \in Conns : seen'[c][k] \in Nat /\ Sent(k, seen'[c][k]) /\ seen'[c][k] >= seen[c][k]
    BY <1>2, <1>7, <1>8, <1>9
  <1>11. \A k \in Conns, i \in DOMAIN send'[c] : send'[c][i].by = k =>
            Sent(k, send'[c][i].n) /\ send'[c][i].n \in Nat /\ seen'[c][k] <= send'[c][i].n
    BY <1>5, <1>6, <1>8, <1>9
  <1> QED
    BY <1>4, <1>10, <1>11 DEF PeerOrder, SentStays, Sent, Queued

\* Every step keeps the updates of every connection in order.
LEMMA NextOrder ==
    ASSUME TypeOK, OrderInv, [Next]_vars
    PROVE  OrderInv' /\ \A c, k \in Conns : seen'[c][k] >= seen[c][k]
  <1>1. HubOrder' /\ SentStays
    BY HubOrderStep DEF OrderInv, SentStays
  <1> SUFFICES ASSUME NEW c \in Conns
               PROVE  PeerOrder(c)' /\ \A k \in Conns : seen'[c][k] >= seen[c][k]
    BY <1>1 DEF OrderInv
  <1> DEFINE Goal == PeerOrder(c)' /\ \A k \in Conns : seen'[c][k] >= seen[c][k]
  <1>2. PeerOrder(c) /\ HubOrder
    BY DEF OrderInv
  <1>3. ASSUME seen'[c] = seen[c] PROVE \A k \in Conns : seen'[c][k] >= seen[c][k]
    BY <1>3, PeerTypes
  <1>4. CASE send'[c] = send[c] /\ seen'[c] = seen[c]
    BY <1>1, <1>2, <1>3, <1>4, PeerKept
  <1>5. ASSUME NEW k \in Conns, SendBytes(k, Reply), UNCHANGED seen PROVE Goal
    BY <1>1, <1>2, <1>3, <1>5, PeerReply
  <1>6. ASSUME NEW k \in Conns, NEW d \in Drivers, Subscribe(k, d) \/ Unsubscribe(k, d)
        PROVE  Goal
    BY <1>5, <1>6 DEF Subscribe, Unsubscribe
  <1>7. ASSUME NEW k \in Conns, PersistFails(k) \/ PublishStopped(k) \/ ReadOther(k) PROVE Goal
    BY <1>5, <1>7 DEF PersistFails, PublishStopped, ReadOther
  <1>8. CASE SendToVisited
    <2>1. UNCHANGED seen
      BY <1>8 DEF SendToVisited
    <2> QED
      BY <1>1, <1>2, <1>3, <1>8, <2>1, PeerUpdate
  <1>9. ASSUME NEW k \in Conns, WriteMessage(k) PROVE Goal
    <2>1. CASE k = c
      BY <1>1, <1>2, <1>9, <2>1, PeerWrite
    <2>2. CASE k # c
      <3>1. send'[c] = send[c]
        BY <1>9, <2>2 DEF WriteMessage, TypeOK
      <3>2. seen'[c] = seen[c]
        BY <1>9, <2>2 DEF WriteMessage, See, TypeOK
      <3> QED
        BY <1>4, <3>1, <3>2
    <2> QED
      BY <2>1, <2>2
  <1>10. ASSUME NEW k \in Conns,
                \/ Connect(k) \/ RegisterClient(k) \/ RegisterStopped(k) \/ ReadLocation(k)
                \/ Persist(k) \/ Publish(k) \/ ReadError(k) \/ UnregisterClient(k)
                \/ UnregisterStopped(k) \/ ReaderEnds(k) \/ WriterDone(k) \/ WriteError(k)
                \/ PeerGone(k) \/ VisitRider(k)
         PROVE  UNCHANGED <<send, seen>>
    BY <1>10 DEF Connect, RegisterClient, RegisterStopped, ReadLocation, Persist, Publish,
                 ReadError, UnregisterClient, UnregisterStopped, ReaderEnds, WriterDone,
                 WriteError, PeerGone, VisitRider, data
  <1>11. CASE StartBroadcast \/ EndBroadcast \/ CloseAllClients \/ Stop \/ UNCHANGED vars
    BY <1>4, <1>11 DEF StartBroadcast, EndBroadcast, CloseAllClients, Stop, vars, data
  <1> QED
    BY <1>4, <1>6, <1>7, <1>8, <1>9, <1>10, <1>11
    DEF Next, HubNext, ReadStep, ReaderStep, WriterStep, BroadcastStep

\* Nothing is out of order at the start.
LEMMA InitOrder == Init => OrderInv
  BY HubAssumption DEF Init, OrderInv, HubOrder, PeerOrder, SortedBy, Sent, Queued, AtSelect

\* What a peer has seen of a connection never goes back: the buffered
\* channels between ReadPump, Hub.Run and WritePump keep the order of the
\* updates, and what SendBytes drops (client.go:264) does not change it.
THEOREM UpdatesInOrder == Spec => InOrder
  <1>1. Init => TypeOK /\ OrderInv
    BY InitType, InitOrder
  <1>2. TypeOK /\ OrderInv /\ [Next]_vars => (TypeOK /\ OrderInv)'
    BY NextType, NextOrder
  <1>3. TypeOK /\ OrderInv /\ [Next]_vars
          => [\A c, k \in Conns : seen'[c][k] >= seen[c][k]]_vars
    BY NextOrder
  <1> QED
    BY <1>1, <1>2, <1>3, PTL DEF Spec, InOrder
=============================================================================
