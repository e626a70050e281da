--------------------------- MODULE ServerProcess ---------------------------
(***************************************************************************)
(* The life of the server process around the hub: main, the HTTP server    *)
(* it shuts down, and the deferred StopHub and Redis.Close.                *)
(*                                                                         *)
(* http.Server.Shutdown waits for the requests that are being served, but  *)
(* not for connections an upgrade has taken over.                          *)
(***************************************************************************)
EXTENDS RealtimeHub

CONSTANT Requests    \* HTTP requests whose handlers use Redis

VARIABLES
    main,     \* where main is
    forced,   \* the process ended by log.Fatalf, which skips deferred calls
    active,   \* requests and upgrades the HTTP server is serving
    served,   \* those it has ever accepted
    redis     \* the Redis client is open

process == <<main, forced, active, served, redis>>
all == <<vars, process>>

MainPCs == {"new", "serving", "shutdown", "stopHub", "closeRedis", "return", "exited"}

ProcessTypeOK ==
    /\ TypeOK
    /\ main \in MainPCs
    /\ forced \in BOOLEAN
    /\ active \subseteq served
    /\ served \subseteq Requests \cup Conns
    /\ redis \in BOOLEAN

ProcessInit ==
    /\ Init
    /\ main = "new" /\ forced = FALSE
    /\ active = {} /\ served = {}
    /\ redis = FALSE

Continue(from, to) == main = from /\ main' = to

\* log.Fatalf
Fatal(from) ==
    /\ main = from /\ main' = "exited"
    /\ forced' = TRUE
    /\ UNCHANGED <<vars, active, served, redis>>

\* server.New and StartHub.
Start ==
    /\ Continue("new", "serving")
    /\ redis' = TRUE
    /\ UNCHANGED <<vars, forced, active, served>>

StartFails == Fatal("new")

\* ListenAndServe returns an error other than ErrServerClosed.
ListenFails == Fatal("serving")

Signal ==
    /\ Continue("serving", "shutdown")
    /\ UNCHANGED <<vars, forced, active, served, redis>>

\* Mutant: main does not wait for the requests that are being served.
DrainedAtOnce ==
    /\ Continue("shutdown", "stopHub")
    /\ UNCHANGED <<vars, forced, active, served, redis>>

\* Shutdown returns nil.
Drained ==
    /\ Continue("shutdown", "stopHub")
    /\ active = {}
    /\ UNCHANGED <<vars, forced, active, served, redis>>

\* Mutant: Shutdown gets a context without a deadline.
DrainForever == FALSE /\ UNCHANGED all

\* Shutdown returns the error of its context, five seconds later.  It polls,
\* so the last request may have ended since it looked.
DrainTimeout == Fatal("shutdown")

StopHub ==
    /\ Continue("stopHub", "closeRedis")
    /\ Stop
    /\ UNCHANGED <<forced, active, served, redis>>

CloseRedis ==
    /\ Continue("closeRedis", "return")
    /\ redis' = FALSE
    /\ UNCHANGED <<vars, forced, active, served>>

\* main returns: the process ends with all its goroutines.
Exit ==
    /\ Continue("return", "exited")
    /\ UNCHANGED <<vars, forced, active, served, redis>>

-----------------------------------------------------------------------------
(* The HTTP server.                                                        *)

\* Mutant: a connection is served that the server does not keep track of.
AcceptUntracked(x) ==
    /\ main \in {"serving", "shutdown"} /\ x \notin served
    /\ active' = active \cup {x}
    /\ UNCHANGED <<vars, main, forced, served, redis>>

\* A connection the listener had accepted before Shutdown closed it may be
\* served while Shutdown waits, which then waits for it too.
Accept(x) ==
    /\ main \in {"serving", "shutdown"} /\ x \notin served
    /\ served' = served \cup {x} /\ active' = active \cup {x}
    /\ UNCHANGED <<vars, main, forced, redis>>

Ends(x) == main # "exited" /\ x \in active /\ active' = active \ {x}

\* A handler returns; so does a WebSocket handler that refuses the upgrade.
Respond(x) ==
    /\ Ends(x)
    /\ UNCHANGED <<vars, main, forced, served, redis>>

\* The upgrade takes the connection over from the HTTP server.
Upgrade(c) ==
    /\ Ends(c)
    /\ Connect(c)
    /\ UNCHANGED <<main, forced, served, redis>>

\* The hub and its clients run as in RealtimeHub; nothing is persisted once
\* the Redis client is closed.
HubStep ==
    /\ main # "exited" /\ HubNext
    /\ stored' # stored => redis
    /\ UNCHANGED process

MainStep ==
    \/ Start \/ StartFails \/ ListenFails \/ Signal \/ Drained \/ DrainTimeout
    \/ StopHub \/ CloseRedis \/ Exit

ProcessNext ==
    \/ MainStep
    \/ HubStep
    \/ \E x \in Requests \cup Conns : Accept(x) \/ Respond(x)
    \/ \E c \in Conns : Upgrade(c)

ProcessSpec == ProcessInit /\ [][ProcessNext]_all

\* Once the signal has come, main goes on.  No handler need ever return.
ProcessFairSpec ==
    ProcessSpec /\ WF_all(Drained \/ DrainTimeout \/ StopHub \/ CloseRedis \/ Exit)

-----------------------------------------------------------------------------
(* Properties.                                                             *)

\* The deferred calls come in the right order (main.go:29-34, 61): by the
\* time the Redis client is closed no HTTP handler is using it, and the
\* context of every location handler of the hub is cancelled.
RedisClosedLast == main # "new" /\ ~forced /\ ~redis => active = {} /\ stopping

\* A signal always ends the process, even with a handler that hangs
\* (main.go:58): the deadline of Shutdown sees to it.
SignalEnds == main = "shutdown" ~> main = "exited"
=============================================================================
