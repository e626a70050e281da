------------------------------ MODULE Handlers ------------------------------
(***************************************************************************)
(* What the handlers of the service have in common.  Each HTTP request or  *)
(* WebSocket message is served by a goroutine of its own (a member of      *)
(* Procs); between two Redis calls it holds only the local variables in    *)
(* h[p], and other handlers run.  A handler starts with its first Redis    *)
(* call and is idle again once it has made its last.                       *)
(*                                                                         *)
(* A Redis call of the go-redis client has one of these outcomes:          *)
(*   "reply"  it is executed and its reply reaches the handler;            *)
(*   "retry"  it is executed, the reply is lost and the client sends the   *)
(*            command again (go-redis retries three times by default);     *)
(*   "lost"   it is executed, and the handler sees an error;               *)
(* or it is not executed and the handler sees an error (CallFails), or the *)
(* handler's context is cancelled or the server stops, after which none of *)
(* its calls is executed any more (Abort).                                 *)
(***************************************************************************)
EXTENDS DispatchStore, SequencesExt

CONSTANTS
    Procs,        \* goroutines that serve requests: bounds concurrency
    DemoRiders,   \* demoRiderIDs, in the order a demo reset visits them
    Kinds,        \* the requests clients make in this instance
    Faults        \* what goes wrong in this instance

VARIABLE h        \* [Procs -> local variables of the handler]

ASSUME DemoRidersAssumption == DemoRiders \in Seq(Riders)
ASSUME DriversAssumption == IsFiniteSet(Drivers)
ASSUME KindsAssumption ==
    Kinds \subseteq {"dispatch", "legacy", "cancel", "arrive", "location",
                     "status", "geo", "reset"}
ASSUME FaultsAssumption ==
    Faults \subseteq {"retry", "lost", "error", "abort",
                      "lock", "settledLock", "status", "record", "lease"}

DispatchPCs ==
    {"ride", "nearby", "statuses", "lock", "owner", "busy", "create",
     "unlockNext", "unlockErr", "relUnlock", "relAvail",
     "confUnlock", "confRefresh", "confAvail"}
RidePCs  == {"cancelRun", "arriveGeo", "arriveRun", "locRefresh", "locBeat", "locAvail"}
ResetPCs == {"resetKey", "resetGet", "resetCancelGet", "resetCancelRun",
             "resetClearActive", "resetClear"}

\* Local variables: q, r, d the request, rider and driver at hand; a the
\* request found under the rider's active key; x a position; todo and avail
\* the nearby drivers still to try and the statuses read for them; n the
\* index of the demo rider being reset.
HandlerState ==
    [pc : {"idle"} \cup DispatchPCs \cup RidePCs \cup ResetPCs,
     q : Requests \cup {None}, r : Riders \cup {None}, d : Drivers \cup {None},
     a : Requests \cup {None}, x : Places \cup {None},
     todo : Seq(Drivers), avail : SUBSET Drivers, n : Nat]

Idle == [pc |-> "idle", q |-> None, r |-> None, d |-> None, a |-> None,
         x |-> None, todo |-> <<>>, avail |-> {}, n |-> 0]

At(p, pc) == h[p].pc = pc
Goto(s, pc) == [s EXCEPT !.pc = pc]

\* The loop of FindAndAssign moves to the nearest driver left that was
\* available when the statuses were read, or ends with ErrNoDriversAvailable.
NextCandidate(s) ==
    LET I == {i \in DOMAIN s.todo : s.todo[i] \in s.avail}
    IN  IF I = {} THEN Idle
        ELSE [s EXCEPT !.pc = "lock", !.d = s.todo[Min(I)],
                       !.todo = SubSeq(s.todo, Min(I) + 1, Len(s.todo))]

\* Where a handler goes when the call it is at returns an error.
OnError(s) ==
    CASE s.pc \in {"owner", "busy"}           -> Goto(s, "unlockErr")
      [] s.pc = "create"                      -> Goto(s, "relUnlock")
      [] s.pc = "confUnlock"                  -> Goto(s, "confRefresh")
      [] s.pc \in {"unlockNext", "confAvail"} -> NextCandidate(s)
      [] OTHER                                -> Idle

Outcomes == {"reply"} \cup (Faults \cap {"retry", "lost"})

\* The handler p after a call with outcome k whose reply leads it to s.
Proceed(p, k, s) ==
    h' = [h EXCEPT ![p] = CASE k = "reply" -> s
                            [] k = "retry" -> h[p]
                            [] k = "lost"  -> OnError(h[p])]

Begin(p, s) == h[p] = Idle /\ h' = [h EXCEPT ![p] = s]

CallFails(p) ==
    /\ "error" \in Faults /\ ~At(p, "idle")
    /\ h' = [h EXCEPT ![p] = OnError(h[p])]
    /\ UNCHANGED store

Abort(p) ==
    /\ "abort" \in Faults /\ ~At(p, "idle")
    /\ h' = [h EXCEPT ![p] = Idle]
    /\ UNCHANGED store
=============================================================================
