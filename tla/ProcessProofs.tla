--------------------------- MODULE ProcessProofs ---------------------------
(***************************************************************************)
(* The server process for any number of requests, clients and connections: *)
(* it runs the hub as RealtimeHub specifies it, and closes Redis last.     *)
(***************************************************************************)
EXTENDS ServerProcess, HubProofs

\* Redis is open from New to the deferred Close; Shutdown has returned without
\* a request left by the time StopHub is called, and nothing is accepted then.
Drain ==
    /\ main # "exited" => ~forced
    /\ ~forced /\ redis => main \in {"serving", "shutdown", "stopHub", "closeRedis"}
    /\ ~forced /\ ~redis => main \in {"new", "return", "exited"}
    /\ ~forced /\ main \in {"stopHub", "closeRedis", "return", "exited"} => active = {}
    /\ ~forced /\ main \in {"closeRedis", "return", "exited"} => stopping

-----------------------------------------------------------------------------
(* The process runs the hub.                                               *)

\* Every step of the process is a step of the hub or leaves it alone.
LEMMA StepsOfHub == [ProcessNext]_all => [Next]_vars
  <1> SUFFICES ASSUME [ProcessNext]_all PROVE [Next]_vars
    OBVIOUS
  <1>1. CASE MainStep
    BY <1>1 DEF MainStep, Start, StartFails, ListenFails, Signal, Drained, DrainTimeout,
                StopHub, CloseRedis, Exit, Fatal, Next
  <1>2. CASE HubStep
    BY <1>2 DEF HubStep, Next
  <1>3. ASSUME NEW x, Accept(x) \/ Respond(x) PROVE UNCHANGED vars
    BY <1>3 DEF Accept, Respond
  <1>4. ASSUME NEW c \in Conns, Upgrade(c) PROVE Next
    BY <1>4 DEF Upgrade, Next
  <1>5. CASE UNCHANGED all
    BY <1>5 DEF all
  <1> QED
    BY <1>1, <1>2, <1>3, <1>4, <1>5 DEF ProcessNext

\* Whatever main and the HTTP server do, the hub and its clients behave as
\* RealtimeHub allows; what is proved of the hub holds in the process.
THEOREM ProcessRunsHub == ProcessSpec => Spec
  <1>1. ProcessInit => Init
    BY DEF ProcessInit
  <1> QED
    BY <1>1, StepsOfHub, PTL DEF ProcessSpec, Spec

-----------------------------------------------------------------------------
(* Types and the order of the deferred calls.                              *)

ProcessVarsOK ==
    /\ main \in MainPCs
    /\ forced \in BOOLEAN
    /\ active \subseteq served
    /\ served \subseteq Requests \cup Conns
    /\ redis \in BOOLEAN
    /\ stopping \in BOOLEAN

\* Every step keeps the order in which main closes things.
LEMMA ProcessStep == ProcessVarsOK /\ Drain /\ [ProcessNext]_all => (ProcessVarsOK /\ Drain)'
  <1> SUFFICES ASSUME ProcessVarsOK, Drain, [ProcessNext]_all
               PROVE  ProcessVarsOK' /\ Drain'
    OBVIOUS
  <1> USE DEF ProcessVarsOK, Drain, MainPCs
  <1>1. ASSUME NEW pc \in MainPCs, pc # "exited", Fatal(pc) PROVE ProcessVarsOK' /\ Drain'
    BY <1>1 DEF Fatal, vars
  <1>2. CASE Start
    BY <1>2 DEF Start, Continue, vars
  <1>3. CASE Signal
    BY <1>3 DEF Signal, Continue, vars
  <1>4. CASE Drained
    BY <1>4 DEF Drained, Continue, vars
  <1>5. CASE StopHub
    BY <1>5 DEF StopHub, Continue, Stop
  <1>6. CASE CloseRedis
    BY <1>6 DEF CloseRedis, Continue, vars
  <1>7. CASE Exit
    BY <1>7 DEF Exit, Continue, vars
  <1>8. CASE StartFails \/ ListenFails \/ DrainTimeout
    BY <1>1, <1>8 DEF StartFails, ListenFails, DrainTimeout
  <1>9. CASE HubStep
    <2>1. UNCHANGED <<process, stopping>>
      BY <1>9 DEF HubStep, HubNext, ReadStep, ReadLocation, ReadOther, Subscribe, Unsubscribe,
                  ReaderStep, RegisterClient, RegisterStopped, Persist, PersistFails, Publish,
                  PublishStopped, ReadError, UnregisterClient, UnregisterStopped, ReaderEnds,
                  WriterStep, WriterDone, WriteMessage, WriteError, PeerGone, BroadcastStep,
                  StartBroadcast, VisitRider, SendToVisited, EndBroadcast, CloseAllClients
    <2> QED
      BY <2>1 DEF process
  <1>10. ASSUME NEW x \in Requests \cup Conns, Accept(x) PROVE ProcessVarsOK' /\ Drain'
    BY <1>10 DEF Accept, vars
  <1>11. ASSUME NEW x \in Requests \cup Conns, Respond(x) PROVE ProcessVarsOK' /\ Drain'
    BY <1>11 DEF Respond, Ends, vars
  <1>12. ASSUME NEW c \in Conns, Upgrade(c) PROVE ProcessVarsOK' /\ Drain'
    BY <1>12 DEF Upgrade, Ends, Connect
  <1>13. CASE UNCHANGED all
    BY <1>13 DEF all, process, vars
  <1> QED
    BY <1>2, <1>3, <1>4, <1>5, <1>6, <1>7, <1>8, <1>9, <1>10, <1>11, <1>12, <1>13
    DEF ProcessNext, MainStep

\* The process starts with nothing open.
LEMMA ProcessStart == ProcessInit => ProcessVarsOK /\ Drain
  BY DEF ProcessInit, Init, ProcessVarsOK, Drain, MainPCs

\* main, the HTTP server and the hub they run hold what the code stores in
\* them, the bounds of the hub's channels included (main.go:26).
THEOREM ProcessTypeCorrect == ProcessSpec => []ProcessTypeOK
  <1>1. TypeOK /\ ProcessVarsOK => ProcessTypeOK
    BY DEF ProcessVarsOK, ProcessTypeOK
  <1>2. ProcessSpec => [](ProcessVarsOK /\ Drain)
    BY ProcessStart, ProcessStep, PTL DEF ProcessSpec
  <1> QED
    BY <1>1, <1>2, ProcessRunsHub, HubTypeCorrect, PTL

\* When the Redis client has been closed no HTTP handler uses it any more and
\* the context of the hub is cancelled (main.go:29-34, 61), whichever requests
\* and connections were being served when the signal came.
THEOREM RedisIsClosedLast == ProcessSpec => []RedisClosedLast
  <1>1. ProcessVarsOK /\ Drain => RedisClosedLast
    BY DEF Drain, RedisClosedLast
  <1> QED
    BY <1>1, ProcessStart, ProcessStep, PTL DEF ProcessSpec

\* In the running process too, a served connection is the registered one: the
\* registry of the hub survives whatever main does to it (hub.go:143).
THEOREM ProcessRegistry == ProcessSpec => []RegistryExact
  BY ProcessRunsHub, RegistryCorrect, PTL
=============================================================================
