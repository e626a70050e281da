---------------------------- MODULE ClaimProofs ----------------------------
(***************************************************************************)
(* What the driver locks, the statuses and the demo reset guarantee, for   *)
(* any number of drivers, riders, requests and handlers.  Unlike the       *)
(* theorems of DispatchProofs, most of these need that some faults do not  *)
(* happen, or that some requests are not made; each theorem says which.    *)
(***************************************************************************)
EXTENDS DispatchProofs

-----------------------------------------------------------------------------
(* The way of a claim through a dispatch request.                          *)

ClaimEdges ==
    {<<"lock", "owner">>, <<"owner", "busy">>, <<"owner", "unlockNext">>, <<"owner", "unlockErr">>,
     <<"busy", "create">>, <<"busy", "unlockNext">>, <<"busy", "unlockErr">>,
     <<"create", "relUnlock">>, <<"create", "confUnlock">>, <<"relUnlock", "relAvail">>,
     <<"confUnlock", "confRefresh">>, <<"confRefresh", "confAvail">>}

\* A handler gets to a place where it holds a driver only along these edges,
\* or stays there, and keeps its request, rider and driver meanwhile.
Moves(s, t) ==
    t.pc \in ClaimPCs \cup BusyPCs =>
        /\ t.q = s.q /\ t.r = s.r /\ t.d = s.d
        /\ s.pc = t.pc \/ <<s.pc, t.pc>> \in ClaimEdges

MovesAlone(p) == Moves(h[p], h'[p]) /\ \A o \in Procs : o # p => h'[o] = h[o]

\* A handler that ends, or stays where it is, moves along no other edge.
LEMMA IdleMoves == \A s : Moves(s, Idle) /\ Moves(s, s)
  BY DEF Moves, Idle, ClaimPCs, BusyPCs

\* The loop of FindAndAssign reaches its next driver without holding it.
LEMMA CandidateMoves ==
    ASSUME NEW s, NEW t \in HandlerState
    PROVE  Moves(s, NextCandidate(t))
  <1>1. NextCandidate(t) = Idle \/ NextCandidate(t).pc = "lock"
    BY NextCandidateType
  <1> QED
    BY <1>1, IdleMoves DEF Moves, ClaimPCs, BusyPCs

\* A handler that goes on along an edge keeps its request, rider and driver.
LEMMA GotoMoves ==
    ASSUME NEW s \in HandlerState, NEW pc, <<s.pc, pc>> \in ClaimEdges
    PROVE  Moves(s, Goto(s, pc))
  BY DEF Moves, Goto, HandlerState

\* The error paths of tryAssignDriver follow the edges as well.
LEMMA OnErrorMoves ==
    ASSUME NEW s \in HandlerState
    PROVE  Moves(s, OnError(s))
  <1>1. CASE s.pc \in {"owner", "busy"}
    BY <1>1, GotoMoves DEF OnError, ClaimEdges
  <1>2. CASE s.pc \in {"create"}
    BY <1>2, GotoMoves DEF OnError, ClaimEdges
  <1>3. CASE s.pc = "confUnlock"
    BY <1>3, GotoMoves DEF OnError, ClaimEdges
  <1>4. CASE s.pc \in {"unlockNext", "confAvail"}
    BY <1>4, CandidateMoves DEF OnError
  <1>5. CASE s.pc \notin {"owner", "busy", "create", "confUnlock", "unlockNext", "confAvail"}
    BY <1>5, IdleMoves DEF OnError
  <1> QED
    BY <1>1, <1>2, <1>3, <1>4, <1>5

\* A call is replied to, repeated or seen as an error; no other handler moves.
LEMMA OutcomeCases ==
    ASSUME IInv, NEW p \in Procs, NEW k \in Outcomes, NEW s, Proceed(p, k, s)
    PROVE  /\ h[p] \in HandlerState
           /\ \A o \in Procs : o # p => h'[o] = h[o]
           /\ \/ k = "reply" /\ h'[p] = s
              \/ k = "retry" /\ k \in Faults /\ h'[p] = h[p]
              \/ k = "lost" /\ k \in Faults /\ h'[p] = OnError(h[p])
  <1>1. h \in [Procs -> HandlerState]
    BY DEF IInv, TypeOK
  <1>2. k = "reply" \/ (k = "retry" /\ k \in Faults) \/ (k = "lost" /\ k \in Faults)
    BY DEF Outcomes
  <1> QED
    BY <1>1, <1>2 DEF Proceed

\* Whatever the outcome of a call, its handler moves along the edges.
LEMMA ProceedMoves ==
    ASSUME IInv, NEW p \in Procs, NEW k \in Outcomes, NEW s, Proceed(p, k, s), Moves(h[p], s)
    PROVE  MovesAlone(p)
  BY OutcomeCases, OnErrorMoves, IdleMoves DEF MovesAlone

\* Places that are not on that way.
LEMMA OtherMoves ==
    ASSUME NEW s, NEW t, t.pc \notin ClaimPCs \cup BusyPCs
    PROVE  Moves(s, t)
  BY DEF Moves

\* Every step of a handler follows the way of a claim.
LEMMA StepMoves ==
    ASSUME IInv, NEW p \in Procs, NEW k \in Outcomes, Step(p, k)
    PROVE  MovesAlone(p)
  <1> DEFINE s == h[p]
  <1>0. s \in HandlerState
    BY DEF IInv, TypeOK
  <1>a. ASSUME NEW t, t = Idle \/ t = NextCandidate(s) \/ t.pc \notin ClaimPCs \cup BusyPCs
        PROVE  Moves(s, t)
    BY <1>0, <1>a, IdleMoves, CandidateMoves, OtherMoves
  <1>b. ASSUME NEW pc \in {"lock", "owner", "busy", "create", "unlockNext", "unlockErr", "relUnlock",
                          "relAvail", "confUnlock", "confRefresh", "confAvail"},
               <<s.pc, pc>> \in ClaimEdges
        PROVE  Moves(s, Goto(s, pc))
    BY <1>0, <1>b, GotoMoves
  <1>c. ASSUME NEW pc \in RidePCs \cup ResetPCs PROVE Moves(s, Goto(s, pc))
    <2>1. Goto(s, pc).pc = pc
      BY <1>0 DEF Goto, HandlerState
    <2> QED
      BY <1>a, <1>c, <2>1 DEF RidePCs, ResetPCs, ClaimPCs, BusyPCs
  <1>d. ASSUME NEW t, NEW pc \in RidePCs \cup ResetPCs \cup {"nearby", "statuses"}, t.pc = pc
        PROVE  Moves(s, t)
    BY <1>a, <1>d DEF RidePCs, ResetPCs, ClaimPCs, BusyPCs
  <1>1. CASE ReadActiveRide(p, k)
    <2>1. Moves(s, [s EXCEPT !.pc = "nearby", !.a = None])
      <3>1. [s EXCEPT !.pc = "nearby", !.a = None].pc = "nearby"
        BY <1>0 DEF HandlerState
      <3> QED
        BY <1>d, <3>1
    <2> QED
      BY <1>1, <1>a, <2>1, ProceedMoves DEF ReadActiveRide
  <1>2. CASE FindNearby(p, k)
    <2>1. ASSUME NEW t PROVE Moves(s, [s EXCEPT !.pc = "statuses", !.todo = t])
      <3>1. [s EXCEPT !.pc = "statuses", !.todo = t].pc = "statuses"
        BY <1>0 DEF HandlerState
      <3> QED
        BY <1>d, <3>1
    <2> QED
      BY <1>2, <1>a, <2>1, ProceedMoves DEF FindNearby
  <1>3. CASE GetStatuses(p, k)
    <2> DEFINE t == [s EXCEPT !.avail = {d \in Drivers : status[d] = "available"}]
    <2>1. t \in HandlerState
      BY <1>0 DEF HandlerState
    <2>2. Moves(s, NextCandidate(t))
      BY <2>1, CandidateMoves
    <2> QED
      BY <1>3, <2>2, ProceedMoves DEF GetStatuses
  <1>4. CASE TryLock(p, k)
    <2>1. Moves(s, Goto(s, "owner"))
      BY <1>4, <1>b DEF TryLock, At, ClaimEdges
    <2> QED
      BY <1>4, <1>a, <2>1, ProceedMoves DEF TryLock
  <1>5. CASE CheckOwner(p, k)
    <2>1. Moves(s, Goto(s, "busy")) /\ Moves(s, Goto(s, "unlockNext"))
      BY <1>5, <1>b DEF CheckOwner, At, ClaimEdges
    <2> QED
      BY <1>5, <2>1, ProceedMoves DEF CheckOwner
  <1>6. CASE SetBusy(p, k)
    <2>1. Moves(s, Goto(s, "create")) /\ Moves(s, Goto(s, "unlockNext"))
      BY <1>6, <1>b DEF SetBusy, At, ClaimEdges
    <2> QED
      BY <1>6, <1>a, <2>1, ProceedMoves DEF SetBusy
  <1>7. CASE Create(p, k)
    <2>1. Moves(s, Goto(s, "relUnlock")) /\ Moves(s, Goto(s, "confUnlock"))
      BY <1>7, <1>b DEF Create, At, ClaimEdges
    <2> QED
      BY <1>7, <1>a, <2>1, ProceedMoves DEF Create
  <1>8. CASE UnlockAndContinue(p, k) \/ UnlockAndReturn(p, k) \/ ReleaseSetAvailable(p, k)
             \/ ConflictSetAvailable(p, k)
    BY <1>8, <1>a, ProceedMoves
    DEF UnlockAndContinue, UnlockAndReturn, ReleaseSetAvailable, ConflictSetAvailable
  <1>9. CASE ReleaseUnlock(p, k)
    <2>1. Moves(s, Goto(s, "relAvail"))
      BY <1>9, <1>b DEF ReleaseUnlock, At, ClaimEdges
    <2> QED
      BY <1>9, <1>a, <2>1, ProceedMoves DEF ReleaseUnlock
  <1>10. CASE ConflictUnlock(p, k) \/ ConflictRefresh(p, k)
    <2>1. CASE ConflictUnlock(p, k)
      <3>1. Moves(s, Goto(s, "confRefresh"))
        BY <2>1, <1>b DEF ConflictUnlock, At, ClaimEdges
      <3> QED
        BY <2>1, <3>1, ProceedMoves DEF ConflictUnlock
    <2>2. CASE ConflictRefresh(p, k)
      <3>1. Moves(s, Goto(s, "confAvail"))
        BY <2>2, <1>b DEF ConflictRefresh, At, ClaimEdges
      <3> QED
        BY <2>2, <1>a, <3>1, ProceedMoves DEF ConflictRefresh
    <2> QED
      BY <1>10, <2>1, <2>2
  <1>11. CASE RideStep(p, k)
    <2>1. Moves(s, [s EXCEPT !.pc = "arriveRun", !.x = None])
      <3>1. [s EXCEPT !.pc = "arriveRun", !.x = None].pc = "arriveRun"
        BY <1>0 DEF HandlerState
      <3> QED
        BY <1>d, <3>1 DEF RidePCs
    <2>2. Moves(s, Goto(s, "locBeat")) /\ Moves(s, Goto(s, "locAvail"))
      BY <1>c DEF RidePCs
    <2> QED
      BY <1>11, <1>a, <2>1, <2>2, ProceedMoves
      DEF RideStep, RunCancel, CheckPosition, RunArrive, RefreshActiveDriver, Heartbeat, BringOnline
  <1>12. CASE ResetStep(p, k)
    <2>1. Moves(s, NextRider(s))
      <3>1. [Idle EXCEPT !.pc = "resetKey", !.n = s.n + 1].pc = "resetKey"
        BY DEF Idle
      <3> QED
        BY <1>a, <1>d, <3>1 DEF NextRider, ResetPCs
    <2>2. Moves(s, Goto(s, "resetClear")) /\ Moves(s, Goto(s, "resetClearActive"))
      BY <1>c DEF ResetPCs
    <2>3. ASSUME NEW q PROVE Moves(s, [s EXCEPT !.pc = "resetGet", !.q = q])
      <3>1. [s EXCEPT !.pc = "resetGet", !.q = q].pc = "resetGet"
        BY <1>0 DEF HandlerState
      <3> QED
        BY <1>d, <3>1 DEF ResetPCs
    <2>4. ASSUME NEW r PROVE Moves(s, [s EXCEPT !.pc = "resetCancelRun", !.r = r])
      <3>1. [s EXCEPT !.pc = "resetCancelRun", !.r = r].pc = "resetCancelRun"
        BY <1>0 DEF HandlerState
      <3> QED
        BY <1>d, <3>1 DEF ResetPCs
    <2>5. ASSUME NEW d, NEW pc \in {"resetCancelGet", "resetClear"}
          PROVE  Moves(s, [s EXCEPT !.d = d, !.pc = pc])
      <3>1. [s EXCEPT !.d = d, !.pc = pc].pc = pc
        BY <1>0 DEF HandlerState
      <3> QED
        BY <1>d, <2>5, <3>1 DEF ResetPCs
    <2>6. CASE ResetReadKey(p, k)
      BY <2>1, <2>3, <2>6, ProceedMoves DEF ResetReadKey
    <2>7. CASE ResetReadRide(p, k)
      BY <2>2, <2>5, <2>7, ProceedMoves DEF ResetReadRide
    <2>8. CASE ResetCancelRead(p, k)
      BY <1>a, <2>2, <2>4, <2>8, ProceedMoves DEF ResetCancelRead
    <2>9. CASE ResetCancelRun(p, k)
      BY <1>a, <2>1, <2>2, <2>9, ProceedMoves DEF ResetCancelRun
    <2>10. CASE ResetClearActive(p, k) \/ ResetClear(p, k)
      BY <2>1, <2>10, ProceedMoves DEF ResetClearActive, ResetClear
    <2> QED
      BY <1>12, <2>6, <2>7, <2>8, <2>9, <2>10 DEF ResetStep
  <1> QED
    BY <1>1, <1>2, <1>3, <1>4, <1>5, <1>6, <1>7, <1>8, <1>9, <1>10, <1>11, <1>12
    DEF Step, DispatchStep

\* A handler that starts, fails or is aborted reaches no driver either.
LEMMA StartMoves ==
    ASSUME IInv, NEW p \in Procs, Start(p) \/ CallFails(p) \/ Abort(p)
    PROVE  MovesAlone(p) /\ UNCHANGED <<status, asg, riderActive, driverActive>>
  <1>1. h \in [Procs -> HandlerState]
    BY DEF IInv, TypeOK
  <1>2. UNCHANGED <<status, asg, riderActive, driverActive>>
    BY DEF Start, StartDispatch, StartLegacyDispatch, StartCancel, StartArrive, StartLocationUpdate,
           StartReset, ResetLeaseScript, GeoAdd, CallFails, Abort, store
  <1>3. PICK s : h' = [h EXCEPT ![p] = s] /\ Moves(h[p], s)
    <2>1. CASE CallFails(p) \/ Abort(p)
      BY <1>1, <2>1, OnErrorMoves, IdleMoves DEF CallFails, Abort
    <2>2. ASSUME NEW s, s.pc \notin ClaimPCs \cup BusyPCs, Begin(p, s)
          PROVE  h' = [h EXCEPT ![p] = s] /\ Moves(h[p], s)
      BY <2>2, OtherMoves DEF Begin
    <2>3. ASSUME NEW q \in Requests, NEW r \in Riders, StartDispatch(p, q, r)
          PROVE  \E s : h' = [h EXCEPT ![p] = s] /\ Moves(h[p], s)
      <3> DEFINE s == [Idle EXCEPT !.pc = IF riderActive[r] = None THEN "nearby" ELSE "ride",
                                   !.q = q, !.r = r, !.a = riderActive[r]]
      <3>1. s.pc \notin ClaimPCs \cup BusyPCs
        BY DEF Idle, ClaimPCs, BusyPCs
      <3>2. Begin(p, s)
        BY <2>3 DEF StartDispatch
      <3> HIDE DEF s
      <3> QED
        BY <2>2, <3>1, <3>2
    <2>4. ASSUME NEW q \in Requests, StartLegacyDispatch(p, q)
          PROVE  \E s : h' = [h EXCEPT ![p] = s] /\ Moves(h[p], s)
      <3> DEFINE s == [Idle EXCEPT !.pc = "nearby", !.q = q]
      <3>1. s.pc \notin ClaimPCs \cup BusyPCs
        BY DEF Idle, ClaimPCs, BusyPCs
      <3>2. Begin(p, s)
        BY <2>4 DEF StartLegacyDispatch
      <3> HIDE DEF s
      <3> QED
        BY <2>2, <3>1, <3>2
    <2>5. ASSUME NEW q \in Requests, StartCancel(p, q)
          PROVE  \E s : h' = [h EXCEPT ![p] = s] /\ Moves(h[p], s)
      <3> DEFINE s == [Idle EXCEPT !.pc = "cancelRun", !.q = q, !.r = asg[q].r, !.d = asg[q].d]
      <3>1. s.pc \notin ClaimPCs \cup BusyPCs
        BY DEF Idle, ClaimPCs, BusyPCs
      <3>2. Begin(p, s)
        BY <2>5 DEF StartCancel
      <3> HIDE DEF s
      <3> QED
        BY <2>2, <3>1, <3>2
    <2>6. ASSUME NEW q \in Requests, StartArrive(p, q)
          PROVE  \E s : h' = [h EXCEPT ![p] = s] /\ Moves(h[p], s)
      <3> DEFINE s == [Idle EXCEPT !.pc = "arriveGeo", !.q = q, !.r = asg[q].r,
                                   !.d = asg[q].d, !.x = asg[q].x]
      <3>1. s.pc \notin ClaimPCs \cup BusyPCs
        BY DEF Idle, ClaimPCs, BusyPCs
      <3>2. Begin(p, s)
        BY <2>6 DEF StartArrive
      <3> HIDE DEF s
      <3> QED
        BY <2>2, <3>1, <3>2
    <2>7. ASSUME NEW d \in Drivers, NEW x \in Places, StartLocationUpdate(p, d, x)
          PROVE  \E s : h' = [h EXCEPT ![p] = s] /\ Moves(h[p], s)
      <3> DEFINE s == [Idle EXCEPT !.pc = "locRefresh", !.d = d]
      <3>1. s.pc \notin ClaimPCs \cup BusyPCs
        BY DEF Idle, ClaimPCs, BusyPCs
      <3>2. Begin(p, s)
        BY <2>7 DEF StartLocationUpdate
      <3> HIDE DEF s
      <3> QED
        BY <2>2, <3>1, <3>2
    <2>8. ASSUME NEW e \in Sessions, NEW force \in BOOLEAN, NEW clearLocks \in BOOLEAN,
                 StartReset(p, e, force, clearLocks)
          PROVE  \E s : h' = [h EXCEPT ![p] = s] /\ Moves(h[p], s)
      <3>1. NextRider(Idle).pc \notin ClaimPCs \cup BusyPCs /\ Idle.pc \notin ClaimPCs \cup BusyPCs
        BY DEF NextRider, Idle, ClaimPCs, BusyPCs
      <3>2. Begin(p, NextRider(Idle)) \/ Begin(p, Idle)
        BY <2>8 DEF StartReset
      <3> QED
        BY <2>2, <3>1, <3>2
    <2> QED
      BY <2>1, <2>3, <2>4, <2>5, <2>6, <2>7, <2>8 DEF Start
  <1>4. MovesAlone(p)
    BY <1>1, <1>3 DEF MovesAlone
  <1> QED
    BY <1>2, <1>4

-----------------------------------------------------------------------------
(* A driver is on a ride if its key names a ride that is open.             *)

Riding(d) == driverActive[d] # None /\ IsOpen(driverActive[d])

\* By KeysOK the driver's key tells whether the driver has a ride in progress.
LEMMA RidingIsOnRide ==
    ASSUME StoreOK, NEW d \in Drivers
    PROVE  OnRide(d) <=> Riding(d)
  <1>1. ASSUME NEW q \in Requests, InProgress(q), asg[q].d = d PROVE Riding(d)
    <2>1. IsOpen(q) /\ driverActive[d] = q /\ q # None
      BY <1>1, NoneAssumption DEF StoreOK, KeysOK, InProgress, IsOpen
    <2> QED
      BY <2>1 DEF Riding
  <1>2. ASSUME Riding(d) PROVE OnRide(d)
    <2> DEFINE q == driverActive[d]
    <2>1. q \in Requests /\ IsOpen(q) /\ asg[q].d = d
      BY <1>2 DEF StoreOK, StoreTypeOK, KeysOK, Riding, Dangling, IsOpen
    <2>2. InProgress(q)
      BY <2>1 DEF StoreOK, KeysOK, InProgress, IsOpen
    <2> QED
      BY <2>1, <2>2 DEF OnRide
  <1> QED
    BY <1>1, <1>2 DEF OnRide

\* What a script does to the rides of the drivers.
LEMMA RidingSame ==
    ASSUME UNCHANGED <<asg, driverActive>>
    PROVE  \A d \in Drivers : Riding(d)' <=> Riding(d)
  BY DEF Riding, IsOpen

\* createAssignmentScript gives a ride to the driver it was called for only.
LEMMA RidingCreate ==
    ASSUME StoreOK, NEW q \in Requests, NEW r \in Riders, NEW d \in Drivers, NEW x \in Places,
           asg[q].st # "expired", CreateScript(q, r, d, x)
    PROVE  /\ UNCHANGED <<status, lock>>
           /\ \A e \in Drivers : e # d => (Riding(e)' <=> Riding(e)) /\ driverActive'[e] = driverActive[e]
           /\ CreateResult(q, r, d) = 1 => Riding(d)' /\ driverActive[d] \in {None, q}
           /\ CreateResult(q, r, d) # 1 => UNCHANGED <<asg, driverActive>>
  <1>1. CASE CreateResult(q, r, d) # 1
    BY <1>1, RidingSame DEF CreateScript, store
  <1>2. CASE CreateResult(q, r, d) = 1
    <2>1. /\ UNCHANGED <<status, lock>> /\ driverActive[d] \in {None, q}
          /\ driverActive' = [driverActive EXCEPT ![d] = q]
          /\ \A o \in Requests : o # q => asg'[o] = asg[o]
          /\ asg'[q].st = "en_route" /\ ~Exists(q)
      BY <1>2 DEF CreateScript, CreateResult, StoreOK, StoreTypeOK
    <2>2. \A e \in Drivers : driverActive[e] # q
      BY <2>1, NoneAssumption DEF StoreOK, KeysOK, Dangling, IsOpen, Exists
    <2>3. \A e \in Drivers : e # d => driverActive'[e] = driverActive[e]
      BY <2>1 DEF StoreOK, StoreTypeOK
    <2>4. Riding(d)'
      BY <2>1, NoneAssumption DEF StoreOK, StoreTypeOK, Riding, IsOpen
    <2>5. \A e \in Drivers : e # d => (Riding(e)' <=> Riding(e))
      BY <2>1, <2>2, <2>3 DEF StoreOK, StoreTypeOK, Riding, IsOpen
    <2> QED
      BY <1>2, <2>1, <2>3, <2>4, <2>5
  <1> QED
    BY <1>1, <1>2

\* cancelAssignmentScript ends the ride of its driver, frees it and deletes its
\* lock; or it changes nothing.
LEMMA RidingCancel ==
    ASSUME StoreOK, NEW q \in Requests, NEW r \in Riders, NEW d \in Drivers, CancelScript(q, r, d)
    PROVE  \/ UNCHANGED store
           \/ /\ asg[q].st = "en_route" /\ asg[q].d = d /\ asg'[q].st = "cancelled"
              /\ \A o \in Requests : o # q => asg'[o] = asg[o]
              /\ Riding(d) /\ ~Riding(d)' /\ status'[d] # "busy"
              /\ lock'[d] = None
              /\ \A e \in Drivers : e # d => /\ Riding(e)' <=> Riding(e)
                                             /\ status'[e] = status[e] /\ lock'[e] = lock[e]
              /\ \A e \in Drivers : driverActive'[e] \in {driverActive[e], None}
  <1>1. CASE CancelResult(q, r, d) # 1
    BY <1>1 DEF CancelScript
  <1>2. CASE CancelResult(q, r, d) = 1
    <2>1. /\ asg[q].st = "en_route" /\ asg[q].d = d /\ driverActive[d] = q
          /\ status' = [status EXCEPT ![d] = IF @ = "busy" THEN "available" ELSE @]
          /\ asg' = [asg EXCEPT ![q].st = "cancelled"]
          /\ lock' = [lock EXCEPT ![d] = None]
          /\ driverActive' = [driverActive EXCEPT ![d] = None]
      BY <1>2 DEF CancelScript, CancelResult
    <2>2. asg'[q].st = "cancelled" /\ \A o \in Requests : o # q => asg'[o] = asg[o]
      BY <2>1 DEF StoreOK, StoreTypeOK, Assignment
    <2>3. status'[d] # "busy" /\ lock'[d] = None /\ driverActive'[d] = None
      BY <2>1 DEF StoreOK, StoreTypeOK
    <2>4. \A e \in Drivers : e # d => /\ status'[e] = status[e] /\ lock'[e] = lock[e]
                                      /\ driverActive'[e] = driverActive[e]
      BY <2>1 DEF StoreOK, StoreTypeOK
    <2>5. Riding(d) /\ ~Riding(d)'
      BY <2>1, <2>3, NoneAssumption DEF Riding, IsOpen
    <2>6. \A e \in Drivers : e # d /\ driverActive[e] # None => driverActive[e] # q
      BY <2>1 DEF StoreOK, KeysOK, Dangling
    <2>7. \A e \in Drivers : e # d => (Riding(e)' <=> Riding(e))
      BY <2>2, <2>4, <2>6 DEF StoreOK, StoreTypeOK, Riding, IsOpen
    <2> QED
      BY <2>1, <2>2, <2>3, <2>4, <2>5, <2>7
  <1> QED
    BY <1>1, <1>2

\* arriveAssignmentScript leaves every driver its ride.
LEMMA RidingArrive ==
    ASSUME StoreOK, NEW q \in Requests, NEW r \in Riders, NEW d \in Drivers, ArriveScript(q, r, d)
    PROVE  /\ UNCHANGED <<status, lock, driverActive>>
           /\ \A e \in Drivers : Riding(e)' <=> Riding(e)
           /\ \A o \in Requests : asg'[o].st = "en_route" => asg'[o] = asg[o]
  <1>1. UNCHANGED <<status, lock, driverActive>>
    BY DEF ArriveScript
  <1>2. \A o \in Requests :
            asg'[o] = asg[o] \/ (asg[o].st = "en_route" /\ asg'[o].st = "arrived")
    BY DEF ArriveScript, ArriveResult, StoreOK, StoreTypeOK, Assignment
  <1> QED
    BY <1>1, <1>2 DEF Riding, IsOpen, StoreOK, StoreTypeOK

\* A reset and an expiry only end rides.
LEMMA RidingEnds ==
    ASSUME StoreOK,
           \A e \in Drivers : driverActive'[e] \in {driverActive[e], None},
           \A o \in Requests : asg'[o] = asg[o] \/ asg'[o] = Expired
    PROVE  \A e \in Drivers : Riding(e)' => Riding(e)
  <1>1. Expired.st = "expired"
    BY DEF Expired, NoRide
  <1> QED
    BY <1>1 DEF Riding, IsOpen, StoreOK, StoreTypeOK

-----------------------------------------------------------------------------
(* A handler serves a request that clients make.                           *)

LocationPCs == {"locRefresh", "locBeat", "locAvail"}

KindOK(s) ==
    /\ s.pc \in DispatchPCs => s.r \in Riders \/ "legacy" \in Kinds
    /\ s.pc = "cancelRun" => "cancel" \in Kinds
    /\ s.pc \in LocationPCs => "location" \in Kinds
    /\ s.pc \in ResetPCs => "reset" \in Kinds

KindsInv == \A p \in Procs : KindOK(h[p])

\* An idle handler serves no request.
LEMMA IdleKind == KindOK(Idle)
  BY DEF KindOK, Idle, DispatchPCs, LocationPCs, ResetPCs

\* The next candidate is for the same rider.
LEMMA CandidateKind ==
    ASSUME NEW s \in HandlerState, s.r \in Riders \/ "legacy" \in Kinds
    PROVE  KindOK(NextCandidate(s))
  <1> DEFINE I == {i \in DOMAIN s.todo : s.todo[i] \in s.avail}
             t == [s EXCEPT !.pc = "lock", !.d = s.todo[Min(I)],
                            !.todo = SubSeq(s.todo, Min(I) + 1, Len(s.todo))]
  <1>1. NextCandidate(s) = Idle \/ NextCandidate(s) = t
    BY DEF NextCandidate
  <1>2. t.pc = "lock" /\ t.r = s.r
    BY DEF HandlerState
  <1> HIDE DEF t
  <1> QED
    BY <1>1, <1>2, IdleKind DEF KindOK, LocationPCs, ResetPCs

\* A handler that stays within its kind of request serves a request clients make.
LEMMA SameKind ==
    ASSUME NEW s, NEW t, KindOK(s), t.pc = "idle" \/ t.r = s.r,
           \/ t.pc = "idle"
           \/ t.pc \in DispatchPCs /\ s.pc \in DispatchPCs
           \/ t.pc \in LocationPCs /\ s.pc \in LocationPCs
           \/ t.pc = "arriveRun"
    PROVE  KindOK(t)
  BY DEF KindOK, DispatchPCs, LocationPCs, ResetPCs

\* An error does not turn a request into one of another kind.
LEMMA OnErrorKind ==
    ASSUME NEW s \in HandlerState, KindOK(s)
    PROVE  KindOK(OnError(s))
  <1>1. CASE s.pc \in {"owner", "busy", "create", "confUnlock"}
    <2>1. PICK pc \in {"unlockErr", "relUnlock", "confRefresh"} : OnError(s) = Goto(s, pc)
      BY <1>1 DEF OnError
    <2>2. Goto(s, pc).pc = pc /\ Goto(s, pc).r = s.r
      BY DEF Goto, HandlerState
    <2> QED
      BY <1>1, <2>1, <2>2, SameKind DEF DispatchPCs
  <1>2. CASE s.pc \in {"unlockNext", "confAvail"}
    <2>1. OnError(s) = NextCandidate(s) /\ (s.r \in Riders \/ "legacy" \in Kinds)
      BY <1>2 DEF OnError, KindOK, DispatchPCs
    <2> QED
      BY <2>1, CandidateKind
  <1>3. CASE s.pc \notin {"owner", "busy", "create", "confUnlock", "unlockNext", "confAvail"}
    BY <1>3, IdleKind DEF OnError
  <1> QED
    BY <1>1, <1>2, <1>3

\* Nor does any outcome of a call.
LEMMA ProceedKind ==
    ASSUME IInv, KindsInv, NEW p \in Procs, NEW k \in Outcomes, NEW s, Proceed(p, k, s), KindOK(s)
    PROVE  KindsInv'
  <1>1. \A o \in Procs : KindOK(h[o])
    BY DEF KindsInv
  <1>2. KindOK(h'[p])
    BY <1>1, OutcomeCases, OnErrorKind
  <1>3. \A o \in Procs : o # p => h'[o] = h[o]
    BY OutcomeCases
  <1> QED
    BY <1>1, <1>2, <1>3 DEF KindsInv, KindOK

\* A step of a handler stays within its request.
LEMMA StepKind ==
    ASSUME IInv, KindsInv, NEW p \in Procs, NEW k \in Outcomes, Step(p, k)
    PROVE  KindsInv'
  <1> DEFINE s == h[p]
  <1>1. s \in HandlerState /\ KindOK(s)
    BY DEF IInv, TypeOK, KindsInv
  <1>2. ASSUME NEW pc \in DispatchPCs, s.pc \in DispatchPCs PROVE KindOK(Goto(s, pc))
    <2>1. Goto(s, pc).pc = pc /\ Goto(s, pc).r = s.r
      BY <1>1 DEF Goto, HandlerState
    <2> QED
      BY <1>1, <1>2, <2>1, SameKind
  <1>3. CASE DispatchStep(p, k)
    <2>1. s.pc \in DispatchPCs
      BY <1>3 DEF DispatchStep, ReadActiveRide, FindNearby, GetStatuses, TryLock, CheckOwner, SetBusy,
                  Create, UnlockAndContinue, UnlockAndReturn, ReleaseUnlock, ReleaseSetAvailable,
                  ConflictUnlock, ConflictRefresh, ConflictSetAvailable, At, DispatchPCs
    <2>2. KindOK(NextCandidate(s)) /\ KindOK(Idle)
      BY <1>1, <2>1, CandidateKind, IdleKind DEF KindOK
    <2>3. \A pc \in DispatchPCs : KindOK(Goto(s, pc))
      BY <1>2, <2>1
    <2>4. CASE ReadActiveRide(p, k)
      <3> DEFINE t == [s EXCEPT !.pc = "nearby", !.a = None]
      <3>1. t.pc = "nearby" /\ t.r = s.r
        BY <1>1 DEF HandlerState
      <3> HIDE DEF t
      <3>2. KindOK(t)
        BY <1>1, <2>1, <3>1, SameKind DEF DispatchPCs
      <3> QED
        BY <2>2, <2>4, <3>2, ProceedKind DEF ReadActiveRide, t
    <2>5. CASE FindNearby(p, k)
      <3>1. ASSUME NEW u PROVE KindOK([s EXCEPT !.pc = "statuses", !.todo = u])
        <4> DEFINE t == [s EXCEPT !.pc = "statuses", !.todo = u]
        <4>1. t.pc = "statuses" /\ t.r = s.r
          BY <1>1 DEF HandlerState
        <4> HIDE DEF t
        <4>2. KindOK(t)
          BY <1>1, <2>1, <4>1, SameKind DEF DispatchPCs
        <4> QED
          BY <4>2 DEF t
      <3> QED
        BY <2>2, <2>5, <3>1, ProceedKind DEF FindNearby
    <2>6. CASE GetStatuses(p, k)
      <3> DEFINE t == [s EXCEPT !.avail = {d \in Drivers : status[d] = "available"}]
      <3>1. t \in HandlerState /\ t.r = s.r
        BY <1>1 DEF HandlerState
      <3> HIDE DEF t
      <3>2. KindOK(NextCandidate(t))
        BY <1>1, <2>1, <3>1, CandidateKind DEF KindOK
      <3> QED
        BY <2>6, <3>2, ProceedKind DEF GetStatuses, t
    <2>7. CASE \/ TryLock(p, k) \/ CheckOwner(p, k) \/ SetBusy(p, k) \/ UnlockAndContinue(p, k)
               \/ UnlockAndReturn(p, k) \/ ReleaseUnlock(p, k)
      <3>1. KindOK(Goto(s, "owner")) /\ KindOK(Goto(s, "busy")) /\ KindOK(Goto(s, "unlockNext"))
               /\ KindOK(Goto(s, "create")) /\ KindOK(Goto(s, "relAvail"))
        BY <2>3 DEF DispatchPCs
      <3> QED
        BY <2>2, <2>7, <3>1, ProceedKind
        DEF TryLock, CheckOwner, SetBusy, UnlockAndContinue, UnlockAndReturn, ReleaseUnlock
    <2>8. CASE \/ Create(p, k) \/ ReleaseSetAvailable(p, k) \/ ConflictUnlock(p, k)
               \/ ConflictRefresh(p, k) \/ ConflictSetAvailable(p, k)
      <3>1. KindOK(Goto(s, "confUnlock")) /\ KindOK(Goto(s, "relUnlock"))
               /\ KindOK(Goto(s, "confRefresh")) /\ KindOK(Goto(s, "confAvail"))
        BY <2>3 DEF DispatchPCs
      <3> QED
        BY <2>2, <2>8, <3>1, ProceedKind
        DEF Create, ReleaseSetAvailable, ConflictUnlock, ConflictRefresh, ConflictSetAvailable
    <2> QED
      BY <1>3, <2>4, <2>5, <2>6, <2>7, <2>8 DEF DispatchStep
  <1>4. CASE RideStep(p, k)
    <2>1. ASSUME s.pc \in LocationPCs, NEW pc \in LocationPCs PROVE KindOK(Goto(s, pc))
      <3>1. Goto(s, pc).pc = pc /\ Goto(s, pc).r = s.r
        BY <1>1 DEF Goto, HandlerState
      <3> QED
        BY <1>1, <2>1, <3>1, SameKind
    <2>2. CASE RunCancel(p, k) \/ RunArrive(p, k) \/ BringOnline(p, k)
      BY <2>2, IdleKind, ProceedKind DEF RunCancel, RunArrive, BringOnline
    <2>3. CASE RefreshActiveDriver(p, k) \/ Heartbeat(p, k)
      <3>1. KindOK(Goto(s, "locBeat")) /\ KindOK(Goto(s, "locAvail"))
        BY <2>1, <2>3 DEF RefreshActiveDriver, Heartbeat, At, LocationPCs
      <3> QED
        BY <2>3, <3>1, IdleKind, ProceedKind DEF RefreshActiveDriver, Heartbeat
    <2>4. CASE CheckPosition(p, k)
      <3> DEFINE t == [s EXCEPT !.pc = "arriveRun", !.x = None]
      <3>1. t.pc = "arriveRun"
        BY <1>1 DEF HandlerState
      <3> HIDE DEF t
      <3>2. KindOK(t)
        BY <3>1 DEF KindOK, DispatchPCs, LocationPCs, ResetPCs
      <3> QED
        BY <2>4, <3>2, IdleKind, ProceedKind DEF CheckPosition, t
    <2> QED
      BY <1>4, <2>2, <2>3, <2>4 DEF RideStep
  <1>5. CASE ResetStep(p, k)
    <2>1. s.pc \in ResetPCs /\ "reset" \in Kinds
      BY <1>1, <1>5 DEF ResetStep, ResetReadKey, ResetReadRide, ResetCancelRead, ResetCancelRun,
                        ResetClearActive, ResetClear, At, ResetPCs, KindOK
    <2>2. ASSUME NEW t, t.pc \in ResetPCs PROVE KindOK(t)
      BY <2>1, <2>2 DEF KindOK, ResetPCs, DispatchPCs, LocationPCs
    <2>3. KindOK(NextRider(s))
      <3>1. [Idle EXCEPT !.pc = "resetKey", !.n = s.n + 1].pc \in ResetPCs
        BY DEF Idle, ResetPCs
      <3> QED
        BY <2>2, <3>1, IdleKind DEF NextRider
    <2>4. KindOK(Goto(s, "resetClear")) /\ KindOK(Goto(s, "resetClearActive"))
      <3>1. Goto(s, "resetClear").pc \in ResetPCs /\ Goto(s, "resetClearActive").pc \in ResetPCs
        BY <1>1 DEF Goto, HandlerState, ResetPCs
      <3> QED
        BY <2>2, <3>1
    <2>5. ASSUME NEW q PROVE KindOK([s EXCEPT !.pc = "resetGet", !.q = q])
      <3>1. [s EXCEPT !.pc = "resetGet", !.q = q].pc \in ResetPCs
        BY <1>1 DEF HandlerState, ResetPCs
      <3> QED
        BY <2>2, <3>1
    <2>6. ASSUME NEW r PROVE KindOK([s EXCEPT !.pc = "resetCancelRun", !.r = r])
      <3>1. [s EXCEPT !.pc = "resetCancelRun", !.r = r].pc \in ResetPCs
        BY <1>1 DEF HandlerState, ResetPCs
      <3> QED
        BY <2>2, <3>1
    <2>7. ASSUME NEW d, NEW pc \in {"resetCancelGet", "resetClear"}
          PROVE  KindOK([s EXCEPT !.d = d, !.pc = pc])
      <3>1. [s EXCEPT !.d = d, !.pc = pc].pc \in ResetPCs
        BY <1>1, <2>7 DEF HandlerState, ResetPCs
      <3> QED
        BY <2>2, <3>1
    <2>8. CASE ResetReadKey(p, k)
      BY <2>3, <2>5, <2>8, ProceedKind DEF ResetReadKey
    <2>9. CASE ResetReadRide(p, k)
      BY <2>4, <2>7, <2>9, ProceedKind DEF ResetReadRide
    <2>10. CASE ResetCancelRead(p, k)
      BY <2>4, <2>6, <2>10, IdleKind, ProceedKind DEF ResetCancelRead
    <2>11. CASE ResetCancelRun(p, k)
      BY <2>3, <2>4, <2>11, IdleKind, ProceedKind DEF ResetCancelRun
    <2>12. CASE ResetClearActive(p, k) \/ ResetClear(p, k)
      BY <2>3, <2>12, ProceedKind DEF ResetClearActive, ResetClear
    <2> QED
      BY <1>5, <2>8, <2>9, <2>10, <2>11, <2>12 DEF ResetStep
  <1> QED
    BY <1>3, <1>4, <1>5 DEF Step

\* A handler starts with a request that clients make.
LEMMA StartKind ==
    ASSUME IInv, KindsInv, NEW p \in Procs, Start(p) \/ CallFails(p) \/ Abort(p)
    PROVE  KindsInv'
  <1>1. h \in [Procs -> HandlerState] /\ \A o \in Procs : KindOK(h[o])
    BY DEF IInv, TypeOK, KindsInv
  <1>2. ASSUME NEW s, KindOK(s), h' = [h EXCEPT ![p] = s] PROVE KindsInv'
    <2>1. \A o \in Procs : h'[o] = IF o = p THEN s ELSE h[o]
      BY <1>1, <1>2
    <2> QED
      BY <1>1, <1>2, <2>1 DEF KindsInv, KindOK
  <1>3. CASE CallFails(p) \/ Abort(p)
    BY <1>1, <1>2, <1>3, OnErrorKind, IdleKind DEF CallFails, Abort
  <1>4. ASSUME NEW q \in Requests, NEW r \in Riders, StartDispatch(p, q, r)
        PROVE  KindsInv'
    <2> DEFINE s == [Idle EXCEPT !.pc = IF riderActive[r] = None THEN "nearby" ELSE "ride",
                                 !.q = q, !.r = r, !.a = riderActive[r]]
    <2>1. s.pc \in {"nearby", "ride"} /\ s.r = r /\ h' = [h EXCEPT ![p] = s]
      BY <1>4 DEF Idle, StartDispatch, Begin
    <2> HIDE DEF s
    <2> QED
      BY <1>2, <2>1 DEF KindOK, LocationPCs, ResetPCs
  <1>5. ASSUME NEW q \in Requests, StartLegacyDispatch(p, q)
        PROVE  KindsInv'
    <2> DEFINE s == [Idle EXCEPT !.pc = "nearby", !.q = q]
    <2>1. s.pc = "nearby" /\ h' = [h EXCEPT ![p] = s] /\ "legacy" \in Kinds
      BY <1>5 DEF Idle, StartLegacyDispatch, Begin
    <2> HIDE DEF s
    <2> QED
      BY <1>2, <2>1 DEF KindOK, LocationPCs, ResetPCs
  <1>6. ASSUME NEW q \in Requests, StartCancel(p, q)
        PROVE  KindsInv'
    <2> DEFINE s == [Idle EXCEPT !.pc = "cancelRun", !.q = q, !.r = asg[q].r, !.d = asg[q].d]
    <2>1. s.pc = "cancelRun" /\ h' = [h EXCEPT ![p] = s] /\ "cancel" \in Kinds
      BY <1>6 DEF Idle, StartCancel, Begin
    <2> HIDE DEF s
    <2> QED
      BY <1>2, <2>1 DEF KindOK, DispatchPCs, LocationPCs, ResetPCs
  <1>7. ASSUME NEW q \in Requests, StartArrive(p, q)
        PROVE  KindsInv'
    <2> DEFINE s == [Idle EXCEPT !.pc = "arriveGeo", !.q = q, !.r = asg[q].r,
                                 !.d = asg[q].d, !.x = asg[q].x]
    <2>1. s.pc = "arriveGeo" /\ h' = [h EXCEPT ![p] = s]
      BY <1>7 DEF Idle, StartArrive, Begin
    <2> HIDE DEF s
    <2> QED
      BY <1>2, <2>1 DEF KindOK, DispatchPCs, LocationPCs, ResetPCs
  <1>8. ASSUME NEW d \in Drivers, NEW x \in Places, StartLocationUpdate(p, d, x)
        PROVE  KindsInv'
    <2> DEFINE s == [Idle EXCEPT !.pc = "locRefresh", !.d = d]
    <2>1. s.pc = "locRefresh" /\ h' = [h EXCEPT ![p] = s] /\ "location" \in Kinds
      BY <1>8 DEF Idle, StartLocationUpdate, Begin
    <2> HIDE DEF s
    <2> QED
      BY <1>2, <2>1 DEF KindOK, DispatchPCs, ResetPCs
  <1>9. ASSUME NEW e \in Sessions, NEW force \in BOOLEAN, NEW clearLocks \in BOOLEAN,
               StartReset(p, e, force, clearLocks)
        PROVE  KindsInv'
    <2>1. "reset" \in Kinds /\ \E s \in {Idle, NextRider(Idle)} : h' = [h EXCEPT ![p] = s]
      BY <1>9 DEF StartReset, Begin
    <2>2. NextRider(Idle) = Idle \/ NextRider(Idle).pc = "resetKey"
      BY DEF NextRider, Idle
    <2>3. KindOK(NextRider(Idle))
      BY <2>1, <2>2, IdleKind DEF KindOK, DispatchPCs, LocationPCs, ResetPCs
    <2> QED
      BY <1>2, <2>1, <2>3, IdleKind
  <1> QED
    BY <1>3, <1>4, <1>5, <1>6, <1>7, <1>8, <1>9 DEF Start

\* The steps that are not a handler's.
OutsideStep ==
    \/ \E d \in Drivers, s \in DriverStatus : SetDriverStatus(d, s)
    \/ \E d \in Drivers, x \in Places : AddLocation(d, x)
    \/ Expire

\* A step of the service is a handler's or comes from outside.
LEMMA NextSteps ==
    ASSUME Next
    PROVE  \/ \E p \in Procs : Start(p) \/ CallFails(p) \/ Abort(p)
           \/ \E p \in Procs, k \in Outcomes : Step(p, k)
           \/ OutsideStep
  BY DEF Next, OutsideStep

\* A step from outside leaves the local variables of the handlers alone.
LEMMA OutsideKeepsHandlers ==
    ASSUME OutsideStep
    PROVE  UNCHANGED h
  BY DEF OutsideStep, SetDriverStatus, AddLocation, Expire

\* Every handler serves a request that clients make.
LEMMA KindsInvariant == Spec => []KindsInv
  <1>1. Init => KindsInv
    BY IdleKind DEF Init, KindsInv
  <1>2. IInv /\ KindsInv /\ [Next]_vars => KindsInv'
    <2>1. ASSUME KindsInv, UNCHANGED h PROVE KindsInv'
      BY <2>1 DEF KindsInv, KindOK
    <2>2. UNCHANGED vars => UNCHANGED h
      BY DEF vars
    <2> QED
      BY <2>1, <2>2, NextSteps, OutsideKeepsHandlers, StartKind, StepKind
  <1> QED
    BY <1>1, <1>2, InductiveInvariant, PTL DEF Spec

-----------------------------------------------------------------------------
(* Who may make a driver available.                                        *)

\* The statuses of drivers are written by dispatch, cancel and reset alone,
\* and every call whose reply is lost was not executed.
StatusesKept == Faults \cap {"lost", "retry"} = {} /\ Kinds \cap {"location", "status"} = {}

Holds(p, d) == h[p].d = d /\ h[p].pc \in BusyPCs

\* Between SetBusy and the end of its claim a request has the driver to
\* itself: nobody else sets it busy, and it has no ride.
FreeAt(d) ==
    /\ status[d] = "available" => ~Riding(d) /\ \A p \in Procs : ~Holds(p, d)
    /\ \A p \in Procs : Holds(p, d) => ~Riding(d)
    /\ \A p1, p2 \in Procs : Holds(p1, d) /\ Holds(p2, d) => p1 = p2

FreeInv == \A d \in Drivers : FreeAt(d)

\* The four kinds of step a driver can see.
FreeQuiet(d) ==
    /\ status'[d] = "available" => status[d] = "available"
    /\ Riding(d)' => Riding(d)
    /\ \A p \in Procs : Holds(p, d)' => Holds(p, d)

FreeClaim(d) ==
    /\ status[d] = "available" /\ status'[d] # "available"
    /\ Riding(d)' => Riding(d)
    /\ \E p \in Procs : \A o \in Procs : o # p /\ Holds(o, d)' => Holds(o, d)

FreeSettle(d) ==
    \E p \in Procs :
        /\ Holds(p, d) /\ ~Holds(p, d)'
        /\ status'[d] = "available" => status[d] = "available" \/ (Riding(d)' => Riding(d))
        /\ \A o \in Procs : Holds(o, d)' => Holds(o, d)

FreeCancel(d) ==
    /\ Riding(d) /\ ~Riding(d)'
    /\ \A p \in Procs : Holds(p, d)' => Holds(p, d)

\* Each of them keeps the driver to one request.
LEMMA FreeSteps ==
    ASSUME NEW d \in Drivers, FreeAt(d),
           FreeQuiet(d) \/ FreeClaim(d) \/ FreeSettle(d) \/ FreeCancel(d)
    PROVE  FreeAt(d)'
  <1>1. CASE FreeQuiet(d)
    BY <1>1 DEF FreeQuiet, FreeAt
  <1>2. CASE FreeClaim(d)
    BY <1>2 DEF FreeClaim, FreeAt
  <1>3. CASE FreeSettle(d)
    BY <1>3 DEF FreeSettle, FreeAt
  <1>4. CASE FreeCancel(d)
    BY <1>4 DEF FreeCancel, FreeAt
  <1> QED
    BY <1>1, <1>2, <1>3, <1>4

\* The only way to hold a driver is through SetBusy.
LEMMA HoldsMoves ==
    ASSUME NEW p \in Procs, MovesAlone(p), NEW d \in Drivers, NEW o \in Procs, Holds(o, d)'
    PROVE  \/ Holds(o, d)
           \/ o = p /\ h[p].pc = "busy" /\ h'[p].pc = "create" /\ h[p].d = d
  <1>1. CASE o # p
    BY <1>1 DEF MovesAlone, Holds
  <1>2. CASE o = p
    BY <1>2 DEF MovesAlone, Moves, Holds, BusyPCs, ClaimEdges
  <1> QED
    BY <1>1, <1>2

\* A step that makes no driver available and starts no ride is quiet for every
\* driver, unless it is SetBusy.
LEMMA QuietMoves ==
    ASSUME NEW p \in Procs, MovesAlone(p), h[p].pc # "busy",
           \A d \in Drivers : status'[d] = "available" => status[d] = "available",
           \A d \in Drivers : Riding(d)' => Riding(d)
    PROVE  \A d \in Drivers : FreeQuiet(d)
  BY HoldsMoves DEF FreeQuiet

\* Where a call is made that writes a status, a ride or a driver's key.
WritePCs == {"busy", "create", "relAvail", "confRefresh", "confAvail", "cancelRun", "arriveRun",
             "locRefresh", "locAvail", "resetCancelRun", "resetClearActive", "resetClear"}

\* The other calls leave the statuses, the rides and their keys alone.
LEMMA CalmStep ==
    ASSUME NEW p \in Procs, NEW k \in Outcomes, Step(p, k), h[p].pc \notin WritePCs
    PROVE  UNCHANGED <<status, asg, riderActive, driverActive>>
  <1>1. CASE DispatchStep(p, k)
    BY <1>1 DEF DispatchStep, ReadActiveRide, FindNearby, GetStatuses, TryLock, CheckOwner, SetBusy,
                Create, UnlockAndContinue, UnlockAndReturn, ReleaseUnlock, ReleaseSetAvailable,
                ConflictUnlock, ConflictRefresh, ConflictSetAvailable, At, WritePCs, store, SetNX,
                UnlockScript
  <1>2. CASE RideStep(p, k)
    BY <1>2 DEF RideStep, RunCancel, CheckPosition, RunArrive, RefreshActiveDriver, Heartbeat,
                BringOnline, At, WritePCs, store
  <1>3. CASE ResetStep(p, k)
    BY <1>3 DEF ResetStep, ResetReadKey, ResetReadRide, ResetCancelRead, ResetCancelRun,
                ResetClearActive, ResetClear, At, WritePCs, store
  <1> QED
    BY <1>1, <1>2, <1>3 DEF Step

\* The handler at each of these calls makes that call.
LEMMA WriteStep ==
    ASSUME NEW p \in Procs, NEW k \in Outcomes, Step(p, k)
    PROVE  /\ At(p, "owner") => CheckOwner(p, k)
           /\ At(p, "busy") => SetBusy(p, k)
           /\ At(p, "create") => Create(p, k)
           /\ At(p, "relUnlock") => ReleaseUnlock(p, k)
           /\ At(p, "relAvail") => ReleaseSetAvailable(p, k)
           /\ At(p, "confUnlock") => ConflictUnlock(p, k)
           /\ At(p, "confRefresh") => ConflictRefresh(p, k)
           /\ At(p, "confAvail") => ConflictSetAvailable(p, k)
           /\ At(p, "cancelRun") => RunCancel(p, k)
           /\ At(p, "arriveRun") => RunArrive(p, k)
           /\ At(p, "locRefresh") => RefreshActiveDriver(p, k)
           /\ At(p, "locAvail") => BringOnline(p, k)
           /\ At(p, "resetCancelRun") => ResetCancelRun(p, k)
           /\ At(p, "resetClearActive") => ResetClearActive(p, k)
           /\ At(p, "resetClear") => ResetClear(p, k)
           /\ At(p, "lock") => TryLock(p, k)
           /\ At(p, "unlockNext") => UnlockAndContinue(p, k)
           /\ At(p, "unlockErr") => UnlockAndReturn(p, k)
  <1>1. CASE DispatchStep(p, k)
    BY <1>1 DEF DispatchStep, ReadActiveRide, FindNearby, GetStatuses, TryLock, CheckOwner, SetBusy,
                Create, UnlockAndContinue, UnlockAndReturn, ReleaseUnlock, ReleaseSetAvailable,
                ConflictUnlock, ConflictRefresh, ConflictSetAvailable, At
  <1>2. CASE RideStep(p, k)
    BY <1>2 DEF RideStep, RunCancel, CheckPosition, RunArrive, RefreshActiveDriver, Heartbeat,
                BringOnline, At
  <1>3. CASE ResetStep(p, k)
    BY <1>3 DEF ResetStep, ResetReadKey, ResetReadRide, ResetCancelRead, ResetCancelRun,
                ResetClearActive, ResetClear, At
  <1> QED
    BY <1>1, <1>2, <1>3 DEF Step

\* What IInv says of a handler that writes.
LEMMA WriterLocals ==
    ASSUME IInv, NEW p \in Procs
    PROVE  /\ StoreOK
           /\ h[p] \in HandlerState
           /\ h[p].pc \in DispatchPCs => h[p].q \in Requests /\ asg[h[p].q].st # "expired"
           /\ h[p].pc \in ClaimPCs \cup BusyPCs \cup {"lock"} => h[p].d \in Drivers
           /\ h[p].pc = "create" => h[p].r \in Riders
           /\ h[p].pc \in {"cancelRun", "arriveRun", "resetCancelRun"} =>
                 h[p].q \in Requests /\ h[p].r \in Riders /\ h[p].d \in Drivers
           /\ h[p].pc \in LocationPCs => h[p].d \in Drivers
           /\ h[p].pc = "resetClear" => h[p].q \in Requests /\ h[p].d \in Drivers
           /\ h[p].pc \in {"resetClear", "resetClearActive"} => DemoRiders[h[p].n] \in Riders
  <1>1. StoreOK /\ h[p] \in HandlerState /\ LocalOK(h[p], asg)
    BY DEF IInv, TypeOK, StoreOK, HandlersOK
  <1>2. h[p].pc \in {"resetClear", "resetClearActive"} => h[p].n \in 1..Len(DemoRiders)
    BY <1>1 DEF LocalOK, ResetPCs
  <1>3. h[p].pc \in {"resetClear", "resetClearActive"} => DemoRiders[h[p].n] \in Riders
    BY <1>2, DemoRidersAssumption
  <1> QED
    BY <1>1, <1>3 DEF LocalOK, DispatchPCs, ClaimPCs, BusyPCs, LocationPCs, ResetPCs

\* The demo reset's two clearing scripts end a ride or leave it.
LEMMA RidingClears ==
    ASSUME IInv, NEW p \in Procs, NEW k \in Outcomes, ResetClear(p, k) \/ ResetClearActive(p, k)
    PROVE  /\ UNCHANGED <<status, lock, asg>>
           /\ \A e \in Drivers : driverActive'[e] \in {driverActive[e], None}
           /\ \A e \in Drivers : Riding(e)' => Riding(e)
  <1>1. StoreOK
    BY WriterLocals
  <1>2. UNCHANGED <<status, lock, asg>>
    BY DEF ResetClear, ResetClearActive, ClearResetScript, ClearActiveScript
  <1>3. \A e \in Drivers : driverActive'[e] \in {driverActive[e], None}
    BY <1>1 DEF ResetClear, ResetClearActive, ClearResetScript, ClearActiveScript, StoreOK, StoreTypeOK
  <1> QED
    BY <1>1, <1>2, <1>3, RidingEnds

\* Every step of a handler keeps every driver to one request.
LEMMA FreeStep ==
    ASSUME StatusesKept, IInv, KindsInv, FreeInv, NEW p \in Procs, NEW k \in Outcomes, Step(p, k)
    PROVE  FreeInv'
  <1> DEFINE s == h[p]
  <1>1. /\ StoreOK /\ s \in HandlerState /\ MovesAlone(p)
        /\ \A d \in Drivers : FreeAt(d)
        /\ k = "reply"
        /\ s.pc \notin LocationPCs
    BY WriterLocals, StepMoves DEF FreeInv, StatusesKept, Outcomes, KindsInv, KindOK
  <1>0. PICK c : c = s.d
    OBVIOUS
  <1>2. ASSUME \A d \in Drivers : FreeQuiet(d) \/ FreeClaim(d) \/ FreeSettle(d) \/ FreeCancel(d)
        PROVE  FreeInv'
    BY <1>1, <1>2, FreeSteps DEF FreeInv
  <1>3. ASSUME s.pc # "busy",
               \A d \in Drivers : status'[d] = "available" => status[d] = "available",
               \A d \in Drivers : Riding(d)' => Riding(d)
        PROVE  FreeInv'
    BY <1>1, <1>2, <1>3, QuietMoves
  <1>4. CASE s.pc \notin WritePCs
    <2>1. UNCHANGED <<status, asg, riderActive, driverActive>>
      BY <1>4, CalmStep
    <2> QED
      BY <1>1, <1>3, <1>4, <2>1 DEF Riding, IsOpen, WritePCs
  <1>5. CASE s.pc = "busy"
    <2>1. SetBusy(p, k) /\ s.d \in Drivers
      BY <1>5, WriteStep, WriterLocals DEF At, ClaimPCs
    <2>2. /\ UNCHANGED <<asg, driverActive>>
          /\ status' = [status EXCEPT ![s.d] = IF @ = "available" THEN "busy" ELSE @]
          /\ status[s.d] # "available" => h'[p] = Goto(s, "unlockNext")
      BY <1>1, <2>1, OutcomeCases DEF SetBusy, SetBusyScript, StatusesKept
    <2>3. \A d \in Drivers : Riding(d)' => Riding(d)
      BY <2>2 DEF Riding, IsOpen
    <2>4. ASSUME NEW d \in Drivers, NEW o \in Procs, Holds(o, d)', ~Holds(o, d)
          PROVE  o = p /\ s.d = d /\ h'[p].pc = "create"
      BY <1>1, <2>4, HoldsMoves
    <2>5. ASSUME NEW d \in Drivers PROVE FreeQuiet(d) \/ FreeClaim(d)
      <3>1. CASE d = s.d /\ status[d] = "available"
        <4>1. status'[d] # "available"
          BY <1>1, <2>2, <3>1 DEF StoreOK, StoreTypeOK
        <4> QED
          BY <2>3, <2>4, <3>1, <4>1 DEF FreeClaim
      <3>2. CASE d = s.d /\ status[d] # "available"
        <4>1. status'[d] = status[d] /\ h'[p].pc # "create"
          BY <1>1, <2>2, <3>2 DEF StoreOK, StoreTypeOK, Goto, HandlerState
        <4> QED
          BY <2>3, <2>4, <4>1 DEF FreeQuiet
      <3>3. CASE d # s.d
        <4>1. status'[d] = status[d]
          BY <1>1, <2>2, <3>3 DEF StoreOK, StoreTypeOK
        <4> QED
          BY <2>3, <2>4, <3>3, <4>1 DEF FreeQuiet
      <3> QED
        BY <3>1, <3>2, <3>3
    <2> QED
      BY <1>2, <2>5
  <1>6. ASSUME s.pc \in BusyPCs, c \in Drivers, h'[p].pc \notin BusyPCs,
               \A d \in Drivers : d # c =>
                   status'[d] = status[d] /\ (Riding(d)' => Riding(d)),
               status'[c] = status[c] \/ (Riding(c)' => Riding(c))
        PROVE  FreeInv'
    <2>1. \A d \in Drivers, o \in Procs : Holds(o, d)' => Holds(o, d)
      BY <1>1, <1>6, HoldsMoves DEF BusyPCs
    <2>2. FreeSettle(c)
      BY <1>0, <1>6, <2>1 DEF FreeSettle, Holds
    <2>3. \A d \in Drivers : d # c => FreeQuiet(d)
      BY <1>6, <2>1 DEF FreeQuiet
    <2> QED
      BY <1>2, <2>2, <2>3
  <1>7. CASE s.pc = "create"
    <2>1. Create(p, k) /\ s.q \in Requests /\ s.r \in Riders /\ s.d \in Drivers /\ asg[s.q].st # "expired"
      BY <1>7, WriteStep, WriterLocals DEF At, ClaimPCs, DispatchPCs
    <2>2. PICK x \in Places : CreateScript(s.q, s.r, s.d, x)
      BY <2>1 DEF Create
    <2>3. /\ UNCHANGED <<status, lock>>
          /\ \A e \in Drivers : e # s.d => (Riding(e)' <=> Riding(e))
          /\ CreateResult(s.q, s.r, s.d) # 1 => UNCHANGED <<asg, driverActive>>
      BY <1>1, <2>1, <2>2, RidingCreate
    <2>4. CASE CreateResult(s.q, s.r, s.d) = 1
      <3>1. h'[p] = Idle
        BY <1>1, <2>1, <2>4, OutcomeCases DEF Create, StatusesKept
      <3>2. h'[p].pc \notin BusyPCs
        BY <3>1 DEF Idle, BusyPCs
      <3> QED
        BY <1>0, <1>6, <1>7, <2>1, <2>3, <3>2 DEF BusyPCs
    <2>5. CASE CreateResult(s.q, s.r, s.d) # 1
      BY <1>3, <1>7, <2>3, <2>5 DEF Riding, IsOpen
    <2> QED
      BY <2>4, <2>5
  <1>8. CASE s.pc \in {"relAvail", "confAvail"}
    <2>1. (ReleaseSetAvailable(p, k) \/ ConflictSetAvailable(p, k)) /\ s.d \in Drivers
      BY <1>8, WriteStep, WriterLocals DEF At, BusyPCs
    <2>2. /\ UNCHANGED <<asg, driverActive>>
          /\ status' = [status EXCEPT ![s.d] = "available"]
          /\ h'[p] \in {Idle, NextCandidate(s)}
      BY <1>1, <2>1, OutcomeCases DEF ReleaseSetAvailable, ConflictSetAvailable, SetStatus, StatusesKept
    <2>3. h'[p].pc \in {"idle", "lock"}
      BY <1>1, <2>2, NextCandidateType DEF Idle
    <2>4. \A d \in Drivers : d # s.d => status'[d] = status[d]
      BY <1>1, <2>2 DEF StoreOK, StoreTypeOK
    <2> QED
      BY <1>0, <1>6, <1>8, <2>1, <2>2, <2>3, <2>4 DEF BusyPCs, Riding, IsOpen
  <1>9. CASE s.pc = "confRefresh"
    <2>1. ConflictRefresh(p, k) /\ s.d \in Drivers
      BY <1>9, WriteStep, WriterLocals DEF At, BusyPCs
    <2>2. /\ UNCHANGED <<asg, driverActive>>
          /\ \A d \in Drivers : status'[d] \in {status[d], "busy"}
      BY <1>1, <2>1 DEF ConflictRefresh, RefreshScript, StoreOK, StoreTypeOK
    <2> QED
      BY <1>3, <1>9, <2>2 DEF Riding, IsOpen
  <1>10. CASE s.pc \in {"cancelRun", "resetCancelRun"}
    <2>1. CancelScript(s.q, s.r, s.d) /\ s.q \in Requests /\ s.r \in Riders /\ s.d \in Drivers
      BY <1>10, WriteStep, WriterLocals DEF At, RunCancel, ResetCancelRun
    <2>2. CASE UNCHANGED store
      BY <1>3, <1>10, <2>2 DEF store, Riding, IsOpen
    <2>3. CASE ~UNCHANGED store
      <3>1. /\ c \in Drivers /\ Riding(c) /\ ~Riding(c)'
            /\ \A e \in Drivers : e # c => (Riding(e)' <=> Riding(e)) /\ status'[e] = status[e]
        BY <1>0, <1>1, <2>1, <2>3, RidingCancel
      <3>2. \A d \in Drivers, o \in Procs : Holds(o, d)' => Holds(o, d)
        BY <1>1, <1>10, HoldsMoves
      <3>3. FreeCancel(c) /\ \A d \in Drivers : d # c => FreeQuiet(d)
        BY <3>1, <3>2 DEF FreeCancel, FreeQuiet
      <3> QED
        BY <1>2, <3>3
    <2> QED
      BY <2>2, <2>3
  <1>11. CASE s.pc = "arriveRun"
    <2>1. ArriveScript(s.q, s.r, s.d) /\ s.q \in Requests /\ s.r \in Riders /\ s.d \in Drivers
      BY <1>11, WriteStep, WriterLocals DEF At, RunArrive
    <2> QED
      BY <1>1, <1>3, <1>11, <2>1, RidingArrive
  <1>12. CASE s.pc \in {"resetClear", "resetClearActive"}
    BY <1>3, <1>12, WriteStep, RidingClears DEF At
  <1> QED
    BY <1>1, <1>4, <1>5, <1>7, <1>8, <1>9, <1>10, <1>11, <1>12 DEF WritePCs, LocationPCs

\* So does a handler that starts, fails or is aborted.
LEMMA FreeStart ==
    ASSUME IInv, FreeInv, NEW p \in Procs, Start(p) \/ CallFails(p) \/ Abort(p)
    PROVE  FreeInv'
  <1>1. MovesAlone(p) /\ UNCHANGED <<status, asg, riderActive, driverActive>>
    BY StartMoves
  <1>2. h[p] \in HandlerState /\ h \in [Procs -> HandlerState]
    BY DEF IInv, TypeOK
  <1>3. ~(h[p].pc = "busy" /\ h'[p].pc = "create")
    <2>1. CASE Start(p)
      <3>1. h[p] = Idle
        BY <2>1 DEF Start, StartDispatch, StartLegacyDispatch, StartCancel, StartArrive,
                    StartLocationUpdate, StartReset, Begin
      <3> QED
        BY <3>1 DEF Idle
    <2>2. CASE CallFails(p) /\ h[p].pc = "busy"
      <3>1. h'[p] = Goto(h[p], "unlockErr")
        BY <1>2, <2>2 DEF CallFails, OnError
      <3>2. h'[p].pc = "unlockErr"
        BY <1>2, <3>1 DEF Goto, HandlerState
      <3> QED
        BY <3>2
    <2>3. CASE Abort(p)
      <3>1. h'[p] = Idle
        BY <1>2, <2>3 DEF Abort
      <3> QED
        BY <3>1 DEF Idle
    <2> QED
      BY <2>1, <2>2, <2>3
  <1>4. \A d \in Drivers, o \in Procs : Holds(o, d)' => Holds(o, d)
    BY <1>1, <1>3, HoldsMoves
  <1>5. \A d \in Drivers : FreeQuiet(d)
    BY <1>1, <1>4 DEF FreeQuiet, Riding, IsOpen
  <1> QED
    BY <1>5, FreeSteps DEF FreeInv

\* What the steps that are not a handler's do to the rides and the locks.
LEMMA OutsideRiding ==
    ASSUME IInv, OutsideStep
    PROVE  /\ \A e \in Drivers : Riding(e)' => Riding(e)
           /\ \A e \in Drivers : driverActive'[e] \in {driverActive[e], None}
           /\ \A o \in Requests : asg'[o] = asg[o] \/ asg'[o] = Expired
  <1>1. StoreOK
    BY DEF IInv, TypeOK, StoreOK
  <1>2. \A e \in Drivers : driverActive'[e] \in {driverActive[e], None}
    BY <1>1 DEF OutsideStep, SetDriverStatus, AddLocation, Expire, SetStatus, GeoAdd, LockExpires,
                StatusExpires, AssignmentExpires, RiderKeyExpires, DriverKeyExpires, LeaseExpires,
                StoreOK, StoreTypeOK
  <1>3. \A o \in Requests : asg'[o] = asg[o] \/ asg'[o] = Expired
    BY <1>1 DEF OutsideStep, SetDriverStatus, AddLocation, Expire, SetStatus, GeoAdd, LockExpires,
                StatusExpires, AssignmentExpires, RiderKeyExpires, DriverKeyExpires, LeaseExpires,
                StoreOK, StoreTypeOK
  <1> QED
    BY <1>1, <1>2, <1>3, RidingEnds

\* So do the expiries.
LEMMA FreeOutside ==
    ASSUME StatusesKept, IInv, FreeInv, OutsideStep
    PROVE  FreeInv'
  <1>1. StoreOK
    BY DEF IInv, TypeOK, StoreOK
  <1>2. \A e \in Drivers : status'[e] = "available" => status[e] = "available"
    BY <1>1 DEF StatusesKept, OutsideStep, SetDriverStatus, AddLocation, Expire, SetStatus, GeoAdd,
                LockExpires, StatusExpires, AssignmentExpires, RiderKeyExpires, DriverKeyExpires,
                LeaseExpires, StoreOK, StoreTypeOK
  <1>3. \A d \in Drivers : FreeQuiet(d)
    BY <1>2, OutsideRiding, OutsideKeepsHandlers DEF FreeQuiet, Holds
  <1> QED
    BY <1>3, FreeSteps DEF FreeInv

\* At most one request holds a driver, and an available driver has neither a
\* request that holds it nor a ride.
LEMMA FreeInvariant ==
    ASSUME StatusesKept
    PROVE  Spec => []FreeInv
  <1>1. Init => FreeInv
    <2> SUFFICES ASSUME Init PROVE FreeInv
      OBVIOUS
    <2>1. \A d \in Drivers : driverActive[d] = None
      BY DEF Init, StoreInit
    <2>2. \A p \in Procs : h[p].pc = "idle"
      BY DEF Init, Idle
    <2> QED
      BY <2>1, <2>2 DEF FreeInv, FreeAt, Riding, Holds, BusyPCs
  <1>2. IInv /\ KindsInv /\ FreeInv /\ [Next]_vars => FreeInv'
    <2>1. ASSUME FreeInv, UNCHANGED vars PROVE FreeInv'
      BY <2>1 DEF FreeInv, FreeAt, Riding, IsOpen, Holds, vars
    <2> QED
      BY <2>1, NextSteps, FreeStart, FreeStep, FreeOutside
  <1> QED
    BY <1>1, <1>2, InductiveInvariant, KindsInvariant, PTL DEF Spec

\* A driver on a ride is never offered.  Locks may expire under a slow
\* request, requests may fail or be cut off at any call, keys may expire and
\* demo resets may clear the locks of drivers that are being claimed: what
\* protects the driver is that SetBusy's script succeeds for one request only
\* and that only this request, or the cancel of the ride it created, makes the
\* driver available again.  Excluded are the callers that write a status
\* without looking (a location update, POST /driver/status) and calls that are
\* executed although their caller sees an error or repeats them.
THEOREM FreeDriversOnly ==
    ASSUME StatusesKept
    PROVE  Spec => []AvailableMeansFree
  <1>1. IInv /\ FreeInv => AvailableMeansFree
    BY RidingIsOnRide DEF IInv, TypeOK, StoreOK, FreeInv, FreeAt, AvailableMeansFree
  <1> QED
    BY <1>1, InductiveInvariant, FreeInvariant, PTL

-----------------------------------------------------------------------------
(* What the driver locks exclude.                                          *)

\* Nothing takes a lock from a request that works under it: no demo reset
\* clears the locks, no lock expires under a slow request and no SETNX is
\* repeated after it was executed.  Where rides are cancelled, the cancel
\* script deletes the lock of the ride's request id, which a duplicate of that
\* request could only hold after the lock of the ride has lapsed or after a
\* create that was executed has been reported as failed.
LocksHold ==
    /\ "reset" \notin Kinds
    /\ Faults \cap {"retry", "lock"} = {}
    /\ "cancel" \in Kinds => Faults \cap {"lost", "settledLock"} = {}

Claims(p, d) == h[p].d = d /\ h[p].pc \in ClaimPCs
EnRoute(q, d) == asg[q].st = "en_route" /\ asg[q].d = d

\* One request at a time claims a driver, and the lock bears its id; where
\* rides are cancelled, the lock goes from the claim to the ride.
LockAt(d) ==
    /\ \A p \in Procs : Claims(p, d) => lock[d] = h[p].q
    /\ \A p1, p2 \in Procs : Claims(p1, d) /\ Claims(p2, d) => p1 = p2
    /\ "cancel" \in Kinds => \A q \in Requests : EnRoute(q, d) =>
          lock[d] = q /\ \A p \in Procs : ~Claims(p, d)

LockInv == \A d \in Drivers : LockAt(d)

\* The kinds of step a driver's lock can see.
ClaimKept(p, d) == Claims(p, d)' => Claims(p, d) /\ h'[p].q = h[p].q
ClaimsKept(d) == \A p \in Procs : ClaimKept(p, d)
RidesKept(d) == "cancel" \in Kinds => \A q \in Requests : EnRoute(q, d)' => EnRoute(q, d)

LockQuiet(d) == lock'[d] = lock[d] /\ ClaimsKept(d) /\ RidesKept(d)

LockTake(d) ==
    /\ lock[d] = None /\ RidesKept(d)
    /\ \E p \in Procs : /\ Claims(p, d)' => lock'[d] = h'[p].q
                       /\ \A o \in Procs : o # p => ClaimKept(o, d)

LockDrop(d) ==
    /\ ClaimsKept(d) /\ RidesKept(d)
    /\ \E p \in Procs : Claims(p, d) /\ ~Claims(p, d)'

LockRide(d) ==
    /\ lock'[d] = lock[d] /\ ClaimsKept(d)
    /\ \E p \in Procs :
          /\ Claims(p, d) /\ ~Claims(p, d)'
          /\ \A q \in Requests : EnRoute(q, d)' => EnRoute(q, d) \/ q = h[p].q

LockCancel(d) ==
    /\ ClaimsKept(d) /\ RidesKept(d) /\ "cancel" \in Kinds
    /\ \E q \in Requests : EnRoute(q, d) /\ ~EnRoute(q, d)'

LockLapse(d) ==
    /\ ClaimsKept(d) /\ "cancel" \notin Kinds
    /\ \A p \in Procs : ~Claims(p, d)

\* Each of them keeps the lock with the one claim.
LEMMA LockSteps ==
    ASSUME NEW d \in Drivers, LockAt(d),
           \A p \in Procs : Claims(p, d) => h[p].q # None,
           \A q \in Requests : q # None,
           \/ LockQuiet(d) \/ LockTake(d) \/ LockDrop(d) \/ LockRide(d)
           \/ LockCancel(d) \/ LockLapse(d)
    PROVE  LockAt(d)'
  <1>1. CASE LockQuiet(d)
    BY <1>1 DEF LockQuiet, LockAt, ClaimsKept, ClaimKept, RidesKept
  <1>2. CASE LockTake(d)
    BY <1>2 DEF LockTake, LockAt, ClaimsKept, ClaimKept, RidesKept
  <1>3. CASE LockDrop(d)
    BY <1>3 DEF LockDrop, LockAt, ClaimsKept, ClaimKept, RidesKept
  <1>4. CASE LockRide(d)
    BY <1>4 DEF LockRide, LockAt, ClaimsKept, ClaimKept
  <1>5. CASE LockCancel(d)
    BY <1>5 DEF LockCancel, LockAt, ClaimsKept, ClaimKept, RidesKept
  <1>6. CASE LockLapse(d)
    BY <1>6 DEF LockLapse, LockAt, ClaimsKept, ClaimKept
  <1> QED
    BY <1>1, <1>2, <1>3, <1>4, <1>5, <1>6

\* The only way to claim a driver is through TryLock.
LEMMA ClaimMoves ==
    ASSUME NEW p \in Procs, MovesAlone(p), NEW d \in Drivers, NEW o \in Procs, Claims(o, d)'
    PROVE  \/ Claims(o, d) /\ h'[o].q = h[o].q
           \/ o = p /\ h[p].pc = "lock" /\ h'[p].pc = "owner" /\ h[p].d = d /\ h'[p].q = h[p].q
  <1>1. CASE o # p
    BY <1>1 DEF MovesAlone, Claims
  <1>2. CASE o = p
    BY <1>2 DEF MovesAlone, Moves, Claims, ClaimPCs, ClaimEdges
  <1> QED
    BY <1>1, <1>2

\* Where a call is made that writes a lock or a ride, but for demo resets.
LockPCs == {"lock", "create", "unlockNext", "unlockErr", "relUnlock", "confUnlock",
            "cancelRun", "arriveRun"}

\* The other calls leave the locks and the rides alone.
LEMMA LockCalm ==
    ASSUME NEW p \in Procs, NEW k \in Outcomes, Step(p, k), h[p].pc \notin LockPCs \cup ResetPCs
    PROVE  UNCHANGED <<lock, asg>>
  <1>1. CASE DispatchStep(p, k)
    BY <1>1 DEF DispatchStep, ReadActiveRide, FindNearby, GetStatuses, TryLock, CheckOwner, SetBusy,
                Create, UnlockAndContinue, UnlockAndReturn, ReleaseUnlock, ReleaseSetAvailable,
                ConflictUnlock, ConflictRefresh, ConflictSetAvailable, At, LockPCs, store,
                SetBusyScript, SetStatus, RefreshScript
  <1>2. CASE RideStep(p, k)
    BY <1>2 DEF RideStep, RunCancel, CheckPosition, RunArrive, RefreshActiveDriver, Heartbeat,
                BringOnline, At, LockPCs, store, SetStatus, RefreshScript
  <1>3. CASE ResetStep(p, k)
    BY <1>3 DEF ResetStep, ResetReadKey, ResetReadRide, ResetCancelRead, ResetCancelRun,
                ResetClearActive, ResetClear, At, ResetPCs
  <1> QED
    BY <1>1, <1>2, <1>3 DEF Step

\* An unlock ends the claim, whatever its outcome.
LEMMA UnlockEnds ==
    ASSUME "retry" \notin Faults, IInv, NEW p \in Procs, NEW k \in Outcomes, Step(p, k),
           h[p].pc \in {"unlockNext", "unlockErr", "relUnlock", "confUnlock"}
    PROVE  /\ UnlockScript(h[p].d, h[p].q)
           /\ h'[p].pc \notin ClaimPCs
           /\ h[p].pc = "relUnlock" /\ k = "reply" /\ ~LockNotHeld(h[p].d, h[p].q) =>
                 h'[p].pc = "relAvail"
  <1> DEFINE s == h[p]
  <1>1. s \in HandlerState
    BY DEF IInv, TypeOK
  <1>2. /\ s.pc = "unlockNext" => UnlockAndContinue(p, k)
        /\ s.pc = "unlockErr" => UnlockAndReturn(p, k)
        /\ s.pc = "relUnlock" => ReleaseUnlock(p, k)
        /\ s.pc = "confUnlock" => ConflictUnlock(p, k)
    BY WriteStep DEF At
  <1>3. UnlockScript(s.d, s.q)
    BY <1>2 DEF UnlockAndContinue, UnlockAndReturn, ReleaseUnlock, ConflictUnlock
  <1>4. /\ Idle.pc = "idle"
        /\ NextCandidate(s).pc \in {"idle", "lock"}
        /\ Goto(s, "relAvail").pc = "relAvail"
        /\ Goto(s, "confRefresh").pc = "confRefresh"
    BY <1>1, NextCandidateType DEF Idle, Goto, HandlerState
  <1>5. h'[p] \in {Idle, NextCandidate(s), Goto(s, "relAvail"), Goto(s, "confRefresh")}
    <2>1. ASSUME NEW t, Proceed(p, k, t) PROVE h'[p] = t \/ h'[p] = OnError(s)
      BY <2>1, OutcomeCases
    <2>2. OnError(s) \in {Idle, NextCandidate(s), Goto(s, "confRefresh")}
      BY DEF OnError
    <2> QED
      BY <1>2, <2>1, <2>2 DEF UnlockAndContinue, UnlockAndReturn, ReleaseUnlock, ConflictUnlock
  <1>6. s.pc = "relUnlock" /\ k = "reply" /\ ~LockNotHeld(s.d, s.q) => h'[p] = Goto(s, "relAvail")
    BY <1>2, OutcomeCases DEF ReleaseUnlock
  <1> QED
    BY <1>3, <1>4, <1>5, <1>6 DEF ClaimPCs

\* Every step of a handler keeps every lock with its claim.
LEMMA LockStep ==
    ASSUME LocksHold, IInv, KindsInv, LockInv, NEW p \in Procs, NEW k \in Outcomes, Step(p, k)
    PROVE  LockInv'
  <1> DEFINE s == h[p]
  <1>1. PICK c : c = s.d
    OBVIOUS
  <1>2. /\ StoreOK /\ s \in HandlerState /\ MovesAlone(p)
        /\ \A d \in Drivers : LockAt(d)
        /\ s.pc \notin ResetPCs
        /\ s.pc = "cancelRun" => "cancel" \in Kinds
    BY WriterLocals, StepMoves DEF LockInv, LocksHold, KindsInv, KindOK
  <1>3. ASSUME \A d \in Drivers : \/ LockQuiet(d) \/ LockTake(d) \/ LockDrop(d) \/ LockRide(d)
                                 \/ LockCancel(d) \/ LockLapse(d)
        PROVE  LockInv'
    <2>1. \A d \in Drivers, o \in Procs : Claims(o, d) => h[o].q # None
      BY WriterLocals, NoneAssumption DEF Claims, ClaimPCs, DispatchPCs
    <2>2. \A q \in Requests : q # None
      BY NoneAssumption
    <2> QED
      BY <1>2, <1>3, <2>1, <2>2, LockSteps DEF LockInv
  <1>4. ASSUME NEW d \in Drivers, d # c \/ s.pc # "lock" \/ h'[p].pc # "owner"
        PROVE  ClaimsKept(d)
    BY <1>1, <1>2, <1>4, ClaimMoves DEF ClaimsKept, ClaimKept
  <1>5. CASE s.pc \notin LockPCs
    <2>1. UNCHANGED <<lock, asg>>
      BY <1>2, <1>5, LockCalm
    <2>2. \A d \in Drivers : LockQuiet(d)
      BY <1>4, <1>5, <2>1 DEF LockQuiet, RidesKept, EnRoute, LockPCs
    <2> QED
      BY <1>3, <2>2
  <1>6. CASE s.pc = "lock"
    <2>1. TryLock(p, k) /\ c \in Drivers
      BY <1>1, <1>6, WriteStep, WriterLocals DEF At
    <2>2. UNCHANGED asg /\ lock' = [lock EXCEPT ![c] = IF @ = None THEN s.q ELSE @]
      BY <1>1, <2>1 DEF TryLock, SetNX
    <2>3. /\ lock'[c] = IF lock[c] = None THEN s.q ELSE lock[c]
          /\ \A d \in Drivers : d # c => lock'[d] = lock[d]
      BY <1>2, <2>1, <2>2 DEF StoreOK, StoreTypeOK
    <2>4. \A d \in Drivers : RidesKept(d)
      BY <2>2 DEF RidesKept, EnRoute
    <2>5. \A d \in Drivers : d # c => LockQuiet(d)
      BY <1>4, <2>3, <2>4 DEF LockQuiet
    <2>6. CASE lock[c] = None
      <3>1. Claims(p, c)' => lock'[c] = h'[p].q
        <4>1. Claims(p, c)' => h'[p].q = s.q
          BY <1>2, <1>6, <2>1, ClaimMoves
        <4> QED
          BY <2>3, <2>6, <4>1
      <3>2. \A o \in Procs : o # p => ClaimKept(o, c)
        BY <1>2, <2>1, ClaimMoves DEF ClaimKept
      <3>3. LockTake(c)
        BY <2>1, <2>4, <2>6, <3>1, <3>2 DEF LockTake
      <3> QED
        BY <1>3, <2>5, <3>3
    <2>7. CASE lock[c] # None
      <3>1. h'[p] \in {Idle, NextCandidate(s)}
        BY <1>1, <1>6, <2>1, <2>7, OutcomeCases DEF TryLock, LocksHold, OnError
      <3>2. h'[p].pc # "owner"
        BY <1>2, <3>1, NextCandidateType DEF Idle
      <3>3. LockQuiet(c)
        BY <1>4, <2>1, <2>3, <2>4, <2>7, <3>2 DEF LockQuiet
      <3> QED
        BY <1>3, <2>5, <3>3
    <2> QED
      BY <2>6, <2>7
  <1>7. CASE s.pc \in {"unlockNext", "unlockErr", "relUnlock", "confUnlock"}
    <2>1. UnlockScript(c, s.q) /\ h'[p].pc \notin ClaimPCs /\ c \in Drivers
      BY <1>1, <1>7, UnlockEnds, WriterLocals DEF ClaimPCs, LocksHold
    <2>2. UNCHANGED asg /\ \A d \in Drivers : d # c => lock'[d] = lock[d]
      BY <1>2, <2>1 DEF UnlockScript, StoreOK, StoreTypeOK
    <2>3. \A d \in Drivers : ClaimsKept(d) /\ RidesKept(d)
      BY <1>4, <1>7, <2>2 DEF RidesKept, EnRoute
    <2>4. LockDrop(c)
      BY <1>1, <1>7, <2>1, <2>3 DEF LockDrop, Claims, ClaimPCs
    <2>5. \A d \in Drivers : d # c => LockQuiet(d)
      BY <2>2, <2>3 DEF LockQuiet
    <2> QED
      BY <1>3, <2>4, <2>5
  <1>8. CASE s.pc = "create"
    <2>1. Create(p, k) /\ c \in Drivers
      BY <1>1, <1>8, WriteStep, WriterLocals DEF At, ClaimPCs
    <2>2. PICK x \in Places : CreateScript(s.q, s.r, c, x)
      BY <1>1, <2>1 DEF Create
    <2>3. /\ UNCHANGED lock
          /\ CreateResult(s.q, s.r, c) # 1 => UNCHANGED asg
          /\ \A o \in Requests : asg'[o] = asg[o] \/ (o = s.q /\ asg'[o].d = c)
      BY <1>2, <2>2 DEF CreateScript, store, StoreOK, StoreTypeOK
    <2>4. \A d \in Drivers : ClaimsKept(d)
      BY <1>4, <1>8
    <2>5. CASE CreateResult(s.q, s.r, c) = 1 /\ "cancel" \in Kinds
      <3>1. h'[p] = Idle
        BY <1>1, <2>1, <2>5, OutcomeCases DEF Create, LocksHold
      <3>2. h'[p].pc \notin ClaimPCs
        BY <3>1 DEF Idle, ClaimPCs
      <3>3. LockRide(c)
        BY <1>1, <1>8, <2>1, <2>3, <2>4, <3>2 DEF LockRide, Claims, ClaimPCs, EnRoute
      <3>4. \A d \in Drivers : d # c => LockQuiet(d)
        BY <2>3, <2>4 DEF LockQuiet, RidesKept, EnRoute
      <3> QED
        BY <1>3, <3>3, <3>4
    <2>6. CASE CreateResult(s.q, s.r, c) # 1 \/ "cancel" \notin Kinds
      <3>1. \A d \in Drivers : LockQuiet(d)
        BY <2>3, <2>4, <2>6 DEF LockQuiet, RidesKept, EnRoute
      <3> QED
        BY <1>3, <3>1
    <2> QED
      BY <2>5, <2>6
  <1>9. CASE s.pc = "cancelRun"
    <2>1. CancelScript(s.q, s.r, c) /\ s.q \in Requests /\ s.r \in Riders /\ c \in Drivers
      BY <1>1, <1>9, WriteStep, WriterLocals DEF At, RunCancel
    <2>2. \A d \in Drivers : ClaimsKept(d)
      BY <1>4, <1>9
    <2>3. CASE UNCHANGED store
      <3>1. \A d \in Drivers : LockQuiet(d)
        BY <2>2, <2>3 DEF LockQuiet, RidesKept, EnRoute, store
      <3> QED
        BY <1>3, <3>1
    <2>4. CASE ~UNCHANGED store
      <3>1. PICK q : q = s.q
        OBVIOUS
      <3>2. /\ q \in Requests /\ EnRoute(q, c) /\ asg'[q].st = "cancelled"
            /\ \A o \in Requests : o # q => asg'[o] = asg[o]
            /\ \A e \in Drivers : e # c => lock'[e] = lock[e]
        BY <1>2, <2>1, <2>4, <3>1, RidingCancel DEF EnRoute
      <3>3. \A d \in Drivers : RidesKept(d)
        BY <3>2 DEF RidesKept, EnRoute
      <3>4. LockCancel(c)
        BY <1>2, <1>9, <2>1, <2>2, <3>2, <3>3 DEF LockCancel, EnRoute
      <3>5. \A d \in Drivers : d # c => LockQuiet(d)
        BY <2>2, <3>2, <3>3 DEF LockQuiet
      <3> QED
        BY <1>3, <3>4, <3>5
    <2> QED
      BY <2>3, <2>4
  <1>10. CASE s.pc = "arriveRun"
    <2>1. ArriveScript(s.q, s.r, s.d) /\ s.q \in Requests /\ s.r \in Riders /\ s.d \in Drivers
      BY <1>10, WriteStep, WriterLocals DEF At, RunArrive
    <2>2. UNCHANGED lock /\ \A o \in Requests : asg'[o].st = "en_route" => asg'[o] = asg[o]
      BY <1>2, <2>1, RidingArrive
    <2>3. \A d \in Drivers : LockQuiet(d)
      BY <1>4, <1>10, <2>2 DEF LockQuiet, RidesKept, EnRoute
    <2> QED
      BY <1>3, <2>3
  <1> QED
    BY <1>5, <1>6, <1>7, <1>8, <1>9, <1>10 DEF LockPCs

\* A handler that starts, fails or is aborted takes no lock.
LEMMA StartClaims ==
    ASSUME IInv, NEW p \in Procs, Start(p) \/ CallFails(p) \/ Abort(p)
    PROVE  /\ \A d \in Drivers : ClaimsKept(d)
           /\ h[p].pc = "owner" => h'[p].pc # "busy"
           /\ "reset" \notin Kinds => UNCHANGED lock
  <1>1. MovesAlone(p) /\ h[p] \in HandlerState /\ h \in [Procs -> HandlerState]
    BY StartMoves DEF IInv, TypeOK
  <1>2. "reset" \notin Kinds => UNCHANGED lock
    BY DEF Start, StartDispatch, StartLegacyDispatch, StartCancel, StartArrive, StartLocationUpdate,
           StartReset, GeoAdd, CallFails, Abort, store
  <1>3. \/ h[p] = Idle
        \/ h'[p] = Idle
        \/ h'[p] = OnError(h[p])
    BY <1>1 DEF Start, StartDispatch, StartLegacyDispatch, StartCancel, StartArrive,
                StartLocationUpdate, StartReset, Begin, CallFails, Abort
  <1>4. /\ Idle.pc = "idle"
        /\ h[p].pc = "lock" => OnError(h[p]) = Idle
        /\ h[p].pc = "owner" => OnError(h[p]).pc = "unlockErr"
    <2>1. h[p].pc = "lock" => OnError(h[p]) = Idle
      BY DEF OnError
    <2>2. h[p].pc = "owner" => OnError(h[p]) = Goto(h[p], "unlockErr")
      BY DEF OnError
    <2>3. Goto(h[p], "unlockErr").pc = "unlockErr"
      BY <1>1 DEF Goto, HandlerState
    <2> QED
      BY <2>1, <2>2, <2>3 DEF Idle
  <1>5. ~(h[p].pc = "lock" /\ h'[p].pc = "owner") /\ (h[p].pc = "owner" => h'[p].pc # "busy")
    BY <1>3, <1>4
  <1>6. \A d \in Drivers : ClaimsKept(d)
    BY <1>1, <1>5, ClaimMoves DEF ClaimsKept, ClaimKept
  <1> QED
    BY <1>2, <1>5, <1>6

\* So do the starts, the failures and the expiries.
LEMMA LockOthers ==
    ASSUME LocksHold, IInv, LockInv,
           OutsideStep \/ \E p \in Procs : Start(p) \/ CallFails(p) \/ Abort(p)
    PROVE  LockInv'
  <1>1. StoreOK
    BY DEF IInv, TypeOK, StoreOK
  <1>2. \A d \in Drivers : ClaimsKept(d)
    <2>1. CASE OutsideStep
      BY <2>1, OutsideKeepsHandlers DEF ClaimsKept, ClaimKept, Claims
    <2> QED
      BY <2>1, StartClaims
  <1>3. \A d \in Drivers : RidesKept(d)
    <2>1. \A o \in Requests : asg'[o] = asg[o] \/ asg'[o] = Expired
      BY OutsideRiding, StartMoves
    <2>2. Expired.st = "expired"
      BY DEF Expired, NoRide
    <2> QED
      BY <2>1, <2>2 DEF RidesKept, EnRoute
  <1>4. \A d \in Drivers :
           \/ lock'[d] = lock[d]
           \/ "cancel" \notin Kinds /\ \A p \in Procs : ~Claims(p, d)
    <2>1. CASE OutsideStep
      BY <1>1, <2>1
      DEF LocksHold, OutsideStep, SetDriverStatus, AddLocation, Expire, SetStatus, GeoAdd,
          LockExpires, StatusExpires, AssignmentExpires, RiderKeyExpires, DriverKeyExpires,
          LeaseExpires, StoreOK, StoreTypeOK, Claimed, Claims
    <2> QED
      BY <2>1, StartClaims DEF LocksHold
  <1>5. \A d \in Drivers : LockQuiet(d) \/ LockLapse(d)
    BY <1>2, <1>3, <1>4 DEF LockQuiet, LockLapse
  <1>6. \A d \in Drivers, o \in Procs : Claims(o, d) => h[o].q # None
    BY WriterLocals, NoneAssumption DEF Claims, ClaimPCs, DispatchPCs
  <1>7. \A q \in Requests : q # None
    BY NoneAssumption
  <1> QED
    BY <1>5, <1>6, <1>7, LockSteps DEF LockInv

\* The lock of a driver bears the id of the one request that claims it.
LEMMA LockInvariant ==
    ASSUME LocksHold
    PROVE  Spec => []LockInv
  <1>1. Init => LockInv
    <2> SUFFICES ASSUME Init PROVE LockInv
      OBVIOUS
    <2>1. \A q \in Requests : asg[q].st = "none"
      BY DEF Init, StoreInit, NoRide
    <2>2. \A p \in Procs : h[p].pc = "idle"
      BY DEF Init, Idle
    <2> QED
      BY <2>1, <2>2 DEF LockInv, LockAt, EnRoute, Claims, ClaimPCs
  <1>2. IInv /\ KindsInv /\ LockInv /\ [Next]_vars => LockInv'
    <2>1. ASSUME LockInv, UNCHANGED vars PROVE LockInv'
      BY <2>1 DEF LockInv, LockAt, EnRoute, Claims, vars
    <2> QED
      BY <2>1, NextSteps, LockStep, LockOthers
  <1> QED
    BY <1>1, <1>2, InductiveInvariant, KindsInvariant, PTL DEF Spec

\* The driver lock excludes: at most one dispatch request at a time is between
\* TryLock and Unlock on a driver, duplicates of one request id included, even
\* though Redis sees the request id alone and an unlock deletes whatever lock
\* bears it.
THEOREM LockExcludes ==
    ASSUME LocksHold
    PROVE  Spec => []ClaimExclusive
  <1>1. IInv /\ LockInv => ClaimExclusive
    <2> SUFFICES ASSUME IInv, LockInv, NEW p1 \in Procs, NEW p2 \in Procs, p1 # p2,
                        h[p1].pc \in ClaimPCs, h[p2].pc \in ClaimPCs, h[p1].d = h[p2].d
                 PROVE  FALSE
      BY DEF ClaimExclusive
    <2>1. h[p1].d \in Drivers
      BY WriterLocals
    <2>2. LockAt(h[p1].d)
      BY <2>1 DEF LockInv
    <2> QED
      BY <2>2 DEF LockAt, Claims
  <1> QED
    BY <1>1, InductiveInvariant, LockInvariant, PTL

-----------------------------------------------------------------------------
(* What the owner check under the lock guarantees.                         *)

\* No call but create begins a ride.
LEMMA RidesOnlyEnd ==
    ASSUME IInv, NEW p \in Procs, NEW k \in Outcomes, Step(p, k), h[p].pc # "create"
    PROVE  /\ \A d \in Drivers : driverActive'[d] \in {driverActive[d], None}
           /\ \A q \in Requests : asg'[q].st = "none" => asg[q].st = "none"
  <1> DEFINE s == h[p]
  <1>1. StoreOK
    BY WriterLocals
  <1>2. CASE s.pc \notin WritePCs
    BY <1>2, CalmStep
  <1>3. CASE s.pc \in {"busy", "relAvail", "confRefresh", "confAvail", "locRefresh", "locAvail"}
    BY <1>3, WriteStep
    DEF At, SetBusy, SetBusyScript, ReleaseSetAvailable, ConflictRefresh, ConflictSetAvailable,
        RefreshActiveDriver, BringOnline, SetStatus, RefreshScript
  <1>4. CASE s.pc = "arriveRun"
    <2>1. ArriveScript(s.q, s.r, s.d)
      BY <1>4, WriteStep DEF At, RunArrive
    <2> QED
      BY <1>1, <2>1 DEF ArriveScript, ArriveResult, StoreOK, StoreTypeOK, Assignment
  <1>5. CASE s.pc \in {"cancelRun", "resetCancelRun"}
    <2>1. CancelScript(s.q, s.r, s.d) /\ s.q \in Requests /\ s.r \in Riders /\ s.d \in Drivers
      BY <1>5, WriteStep, WriterLocals DEF At, RunCancel, ResetCancelRun
    <2>2. PICK q, r, d : q = s.q /\ r = s.r /\ d = s.d
      OBVIOUS
    <2> QED
      BY <1>1, <2>1, <2>2, RidingCancel DEF store
  <1>6. CASE s.pc \in {"resetClear", "resetClearActive"}
    BY <1>6, WriteStep, RidingClears DEF At
  <1> QED
    BY <1>2, <1>3, <1>4, <1>5, <1>6 DEF WritePCs

\* A request that is about to set a driver busy was there before, or has just
\* found the driver without a ride.
LEMMA BusyAfterCheck ==
    ASSUME IInv, NEW p \in Procs, NEW k \in Outcomes, Step(p, k), NEW o \in Procs, At(o, "busy")'
    PROVE  /\ h'[o].d = h[o].d /\ h[o].d \in Drivers
           /\ h[o].pc = "busy" \/ driverActive'[h[o].d] = None
  <1> DEFINE s == h[p]
  <1>1. s \in HandlerState /\ MovesAlone(p)
    BY WriterLocals, StepMoves
  <1>2. CASE o # p
    <2>1. h'[o] = h[o] /\ h[o].pc = "busy"
      BY <1>1, <1>2 DEF MovesAlone, At
    <2> QED
      BY <2>1, WriterLocals DEF ClaimPCs
  <1>3. CASE o = p
    <2>1. h'[p].d = s.d /\ s.pc \in {"owner", "busy"} /\ h'[p].pc = "busy"
      BY <1>1, <1>3 DEF MovesAlone, Moves, At, ClaimPCs, ClaimEdges
    <2>2. CASE s.pc = "owner"
      <3>1. CheckOwner(p, k)
        BY <2>2, WriteStep DEF At
      <3>2. UNCHANGED driverActive /\ Proceed(p, k, Goto(s, IF driverActive[s.d] = None THEN "busy"
                                                           ELSE "unlockNext"))
        BY <3>1 DEF CheckOwner, store
      <3>3. h'[p] \in {Goto(s, IF driverActive[s.d] = None THEN "busy" ELSE "unlockNext"),
                       s, OnError(s)}
        BY <3>2, OutcomeCases
      <3>4. OnError(s) = Goto(s, "unlockErr")
        BY <2>2 DEF OnError
      <3>5. \A pc : Goto(s, pc).pc = pc
        BY <1>1 DEF Goto, HandlerState
      <3>6. driverActive[s.d] = None
        BY <2>1, <2>2, <3>3, <3>4, <3>5
      <3> QED
        BY <1>3, <2>1, <3>2, <3>6, WriterLocals DEF ClaimPCs
    <2> QED
      BY <1>3, <2>1, <2>2, WriterLocals DEF ClaimPCs
  <1> QED
    BY <1>2, <1>3

\* The starts, the failures and the expiries bring no request there.
LEMMA OthersNotBusy ==
    ASSUME IInv, OutsideStep \/ \E p \in Procs : Start(p) \/ CallFails(p) \/ Abort(p),
           NEW o \in Procs, At(o, "busy")'
    PROVE  At(o, "busy") /\ h'[o].d = h[o].d
  <1>1. CASE OutsideStep
    BY <1>1, OutsideKeepsHandlers DEF At
  <1>2. ASSUME NEW p \in Procs, Start(p) \/ CallFails(p) \/ Abort(p)
        PROVE  At(o, "busy") /\ h'[o].d = h[o].d
    <2>1. MovesAlone(p) /\ (h[p].pc = "owner" => h'[p].pc # "busy")
      BY <1>2, StartMoves, StartClaims
    <2> QED
      BY <2>1 DEF MovesAlone, Moves, At, ClaimPCs, ClaimEdges
  <1> QED
    BY <1>1, <1>2

OwnerInv == \A p \in Procs : At(p, "busy") => driverActive[h[p].d] = None

\* Only a request that holds the lock gives the driver a ride, so what CheckOwner
\* read stays true until SetBusy.
LEMMA OwnerStep ==
    ASSUME IInv, LockInv, OwnerInv, NEW p \in Procs, NEW k \in Outcomes, Step(p, k)
    PROVE  OwnerInv'
  <1> SUFFICES ASSUME NEW o \in Procs, At(o, "busy")'
               PROVE  driverActive'[h'[o].d] = None
    BY DEF OwnerInv
  <1>1. StoreOK /\ MovesAlone(p)
    BY WriterLocals, StepMoves
  <1>2. PICK c : c = h[o].d
    OBVIOUS
  <1>3. h'[o].d = c /\ c \in Drivers /\ (h[o].pc = "busy" \/ driverActive'[c] = None)
    BY <1>2, BusyAfterCheck
  <1>4. CASE h[o].pc = "busy"
    <2>1. driverActive[c] = None
      BY <1>2, <1>4 DEF OwnerInv, At
    <2>2. CASE h[p].pc = "create"
      <3>1. Create(p, k) /\ h[p].d \in Drivers
        BY <2>2, WriteStep, WriterLocals DEF At, ClaimPCs
      <3>2. h[p].d # c
        BY <1>2, <1>3, <1>4, <2>2 DEF LockInv, LockAt, Claims, ClaimPCs
      <3>3. driverActive'[c] = driverActive[c]
        BY <1>1, <1>3, <3>1, <3>2 DEF Create, CreateScript, store, StoreOK, StoreTypeOK
      <3> QED
        BY <1>3, <2>1, <3>3
    <2>3. CASE h[p].pc # "create"
      BY <1>3, <2>1, <2>3, RidesOnlyEnd
    <2> QED
      BY <2>2, <2>3
  <1> QED
    BY <1>3, <1>4

\* The starts, the failures and the expiries give no driver a ride.
LEMMA OwnerOthers ==
    ASSUME IInv, OwnerInv,
           OutsideStep \/ \E p \in Procs : Start(p) \/ CallFails(p) \/ Abort(p)
    PROVE  OwnerInv'
  <1>1. \A e \in Drivers : driverActive'[e] \in {driverActive[e], None}
    BY OutsideRiding, StartMoves
  <1>2. \A o \in Procs : At(o, "busy") => h[o].d \in Drivers
    BY WriterLocals DEF At, ClaimPCs
  <1> QED
    BY <1>1, <1>2, OthersNotBusy DEF OwnerInv

\* A driver about to be set busy has no ride key.
LEMMA OwnerInvariant ==
    ASSUME LocksHold
    PROVE  Spec => []OwnerInv
  <1>1. Init => OwnerInv
    BY DEF Init, Idle, OwnerInv, At
  <1>2. IInv /\ LockInv /\ OwnerInv /\ [Next]_vars => OwnerInv'
    <2>1. ASSUME OwnerInv, UNCHANGED vars PROVE OwnerInv'
      BY <2>1 DEF OwnerInv, At, vars
    <2> QED
      BY <2>1, NextSteps, OwnerStep, OwnerOthers
  <1> QED
    BY <1>1, <1>2, InductiveInvariant, LockInvariant, PTL DEF Spec

(* Where the lock of a ride may lapse while a cancel is under way, a       *)
(* duplicate of the ride's request can claim the driver and the cancel     *)
(* deletes its lock, so that two requests claim the driver at once.  The   *)
(* ride is safe all the same.                                              *)

\* A claim whose request has no assignment yet holds the lock, and no other
\* claim on the driver bears the same id.
FreshAt(d) ==
    \A p \in Procs : Claims(p, d) /\ asg[h[p].q].st = "none" =>
        lock[d] = h[p].q /\ \A o \in Procs : o # p /\ Claims(o, d) => h[o].q # h[p].q

\* If a ride got ahead of a claim that has passed the owner check, the lock is
\* the ride's, and no claim that could delete it is under way.
OwnedAt(d) ==
    \A p \in Procs : Claims(p, d) /\ h[p].pc = "busy" /\ driverActive[d] # None =>
        lock[d] = driverActive[d] /\ \A o \in Procs : Claims(o, d) => h[o].q # driverActive[d]

OvertakenInv == \A d \in Drivers : FreshAt(d) /\ OwnedAt(d)

\* What every step does but create: no ride begins, and no claim passes the
\* owner check of a driver that has one.
NoNewRide(d) ==
    /\ \A q \in Requests : asg'[q].st = "none" => asg[q].st = "none"
    /\ driverActive'[d] \in {driverActive[d], None}
    /\ \A o \in Procs : h'[o].pc = "busy" /\ h'[o].d = d =>
          h[o].pc = "busy" \/ driverActive'[d] = None

\* A step that leaves the lock alone keeps a driver's part of the invariant,
\* and so does one that deletes a lock no claim relies on.
LEMMA OvertakenQuiet ==
    ASSUME NEW d \in Drivers, FreshAt(d), OwnedAt(d), ClaimsKept(d), NoNewRide(d),
           \A o \in Procs : Claims(o, d) => h[o].q \in Requests,
           \/ lock'[d] = lock[d]
           \/ \A o \in Procs : Claims(o, d)' =>
                 asg[h[o].q].st # "none" /\ (h[o].pc = "busy" => driverActive'[d] = None)
    PROVE  FreshAt(d)' /\ OwnedAt(d)'
  <1>1. FreshAt(d)'
    BY DEF FreshAt, ClaimsKept, ClaimKept, NoNewRide
  <1>2. OwnedAt(d)'
    BY DEF OwnedAt, ClaimsKept, ClaimKept, NoNewRide, Claims
  <1> QED
    BY <1>1, <1>2

\* Every step of a handler keeps the invariant.
LEMMA OvertakenStep ==
    ASSUME Faults \cap {"retry", "lost"} = {}, "reset" \notin Kinds,
           IInv, KindsInv, OvertakenInv, NEW p \in Procs, NEW k \in Outcomes, Step(p, k)
    PROVE  OvertakenInv'
  <1> DEFINE s == h[p]
  <1>1. PICK c, q : c = s.d /\ q = s.q
    OBVIOUS
  <1>2. /\ StoreOK /\ s \in HandlerState /\ MovesAlone(p)
        /\ \A d \in Drivers : FreshAt(d) /\ OwnedAt(d)
        /\ s.pc \notin ResetPCs
    BY WriterLocals, StepMoves DEF OvertakenInv, KindsInv, KindOK
  <1>3. \A d \in Drivers, o \in Procs : Claims(o, d) => h[o].q \in Requests /\ h[o].q # None
    BY WriterLocals, NoneAssumption DEF Claims, ClaimPCs, DispatchPCs
  <1>4. ASSUME NEW d \in Drivers, d # c \/ s.pc # "lock" \/ h'[p].pc # "owner"
        PROVE  ClaimsKept(d)
    BY <1>1, <1>2, <1>4, ClaimMoves DEF ClaimsKept, ClaimKept
  <1>5. ASSUME s.pc # "create"
        PROVE  \A d \in Drivers : NoNewRide(d)
    BY <1>5, RidesOnlyEnd, BusyAfterCheck DEF NoNewRide, At
  <1>6. CASE s.pc \notin LockPCs
    <2>1. UNCHANGED lock
      BY <1>2, <1>6, LockCalm
    <2>2. \A d \in Drivers : ClaimsKept(d) /\ NoNewRide(d)
      BY <1>4, <1>5, <1>6 DEF LockPCs
    <2> QED
      BY <1>2, <1>3, <2>1, <2>2, OvertakenQuiet DEF OvertakenInv
  <1>7. CASE s.pc = "lock"
    <2>1. TryLock(p, k) /\ c \in Drivers
      BY <1>1, <1>7, WriteStep, WriterLocals DEF At
    <2>2. lock' = [lock EXCEPT ![c] = IF @ = None THEN q ELSE @]
      BY <1>1, <2>1 DEF TryLock, SetNX
    <2>3. /\ lock'[c] = IF lock[c] = None THEN q ELSE lock[c]
          /\ \A d \in Drivers : d # c => lock'[d] = lock[d]
      BY <1>2, <2>1, <2>2 DEF StoreOK, StoreTypeOK
    <2>4. \A d \in Drivers : NoNewRide(d)
      BY <1>5, <1>7
    <2>5. \A d \in Drivers : d # c => FreshAt(d)' /\ OwnedAt(d)'
      BY <1>2, <1>3, <1>4, <2>3, <2>4, OvertakenQuiet
    <2>6. CASE lock[c] = None
      <3>1. /\ \A o \in Procs : Claims(o, c) => asg[h[o].q].st # "none"
            /\ \A o \in Procs : Claims(o, c) /\ h[o].pc = "busy" => driverActive[c] = None
        BY <1>2, <1>3, <2>1, <2>6 DEF FreshAt, OwnedAt
      <3>2. \A o \in Procs : Claims(o, c)' =>
               \/ Claims(o, c) /\ h'[o].q = h[o].q
               \/ o = p /\ h'[p].pc = "owner" /\ h'[p].q = q
        BY <1>1, <1>2, <2>1, ClaimMoves
      <3>3. q \in Requests
        BY <1>1, <1>7, WriterLocals DEF DispatchPCs
      <3>4. FreshAt(c)'
        BY <1>3, <2>1, <2>3, <2>4, <2>6, <3>1, <3>2, <3>3 DEF FreshAt, NoNewRide
      <3>5. OwnedAt(c)'
        BY <2>1, <2>4, <3>1, <3>2 DEF OwnedAt, NoNewRide, Claims
      <3> QED
        BY <2>5, <3>4, <3>5 DEF OvertakenInv
    <2>7. CASE lock[c] # None
      <3>1. h'[p] \in {Idle, NextCandidate(s)}
        BY <1>1, <1>7, <2>1, <2>7, OutcomeCases DEF TryLock, OnError
      <3>2. h'[p].pc # "owner"
        BY <1>2, <3>1, NextCandidateType DEF Idle
      <3>3. FreshAt(c)' /\ OwnedAt(c)'
        BY <1>2, <1>3, <1>4, <2>1, <2>3, <2>4, <2>7, <3>2, OvertakenQuiet
      <3> QED
        BY <2>5, <3>3 DEF OvertakenInv
    <2> QED
      BY <2>6, <2>7
  <1>8. CASE s.pc \in {"unlockNext", "unlockErr", "relUnlock", "confUnlock"}
    <2>1. UnlockScript(c, q) /\ h'[p].pc \notin ClaimPCs /\ c \in Drivers
      BY <1>1, <1>8, UnlockEnds, WriterLocals DEF ClaimPCs
    <2>2. /\ lock'[c] = IF lock[c] = q THEN None ELSE lock[c]
          /\ \A d \in Drivers : d # c => lock'[d] = lock[d]
      BY <1>2, <2>1 DEF UnlockScript, StoreOK, StoreTypeOK
    <2>3. \A d \in Drivers : ClaimsKept(d) /\ NoNewRide(d)
      BY <1>4, <1>5, <1>8
    <2>4. Claims(p, c) /\ h[p].q = q /\ \A o \in Procs : Claims(o, c)' => o # p
      BY <1>1, <1>8, <2>1 DEF Claims, ClaimPCs
    <2>5. ASSUME lock[c] = q, NEW o \in Procs, Claims(o, c)'
          PROVE  asg[h[o].q].st # "none" /\ (h[o].pc = "busy" => driverActive'[c] = None)
      <3>1. Claims(o, c) /\ o # p
        BY <2>1, <2>3, <2>4, <2>5 DEF ClaimsKept, ClaimKept
      <3>2. asg[h[o].q].st # "none"
        BY <1>2, <2>1, <2>4, <2>5, <3>1 DEF FreshAt
      <3>3. h[o].pc = "busy" => driverActive[c] = None
        BY <1>2, <2>1, <2>4, <2>5, <3>1 DEF OwnedAt
      <3> QED
        BY <2>1, <2>3, <3>2, <3>3 DEF NoNewRide
    <2>6. FreshAt(c)' /\ OwnedAt(c)'
      BY <1>2, <1>3, <2>1, <2>2, <2>3, <2>5, OvertakenQuiet
    <2>7. \A d \in Drivers : d # c => FreshAt(d)' /\ OwnedAt(d)'
      BY <1>2, <1>3, <2>2, <2>3, OvertakenQuiet
    <2> QED
      BY <2>6, <2>7 DEF OvertakenInv
  <1>9. CASE s.pc = "create"
    <2>1. Create(p, k) /\ c \in Drivers /\ q \in Requests /\ s.r \in Riders /\ asg[q].st # "expired"
      BY <1>1, <1>9, WriteStep, WriterLocals DEF At, ClaimPCs, DispatchPCs
    <2>2. PICK x \in Places : CreateScript(q, s.r, c, x)
      BY <1>1, <2>1 DEF Create
    <2>3. PICK r : r = s.r
      OBVIOUS
    <2>4. \A d \in Drivers : ClaimsKept(d)
      BY <1>4, <1>9
    <2>5. \A o \in Procs : h'[o].pc = "busy" => h[o].pc = "busy"
      BY <1>2, <1>9 DEF MovesAlone, Moves, ClaimPCs, ClaimEdges
    <2>6. CASE CreateResult(q, r, c) # 1
      <3>1. UNCHANGED <<lock, asg, driverActive>>
        BY <2>2, <2>3, <2>6 DEF CreateScript, store
      <3>2. \A d \in Drivers : NoNewRide(d)
        BY <2>5, <3>1 DEF NoNewRide
      <3> QED
        BY <1>2, <1>3, <2>4, <3>1, <3>2, OvertakenQuiet DEF OvertakenInv
    <2>7. CASE CreateResult(q, r, c) = 1
      <3>1. /\ asg[q].st = "none" /\ UNCHANGED lock
            /\ driverActive' = [driverActive EXCEPT ![c] = q]
            /\ asg'[q].st = "en_route" /\ \A o \in Requests : o # q => asg'[o] = asg[o]
        BY <1>2, <2>1, <2>2, <2>3, <2>7
        DEF CreateScript, CreateResult, Exists, StoreOK, StoreTypeOK, Assignment
      <3>2. driverActive'[c] = q /\ \A d \in Drivers : d # c => driverActive'[d] = driverActive[d]
        BY <1>2, <2>1, <3>1 DEF StoreOK, StoreTypeOK
      <3>3. h'[p] = Idle
        BY <1>1, <2>1, <2>3, <2>7, OutcomeCases DEF Create
      <3>4. Claims(p, c) /\ ~Claims(p, c)' /\ h[p].q = q
        BY <1>1, <1>9, <3>3 DEF Claims, ClaimPCs, Idle
      <3>5. lock[c] = q /\ \A o \in Procs : o # p /\ Claims(o, c) => h[o].q # q
        BY <1>2, <2>1, <3>1, <3>4 DEF FreshAt
      <3>6. \A o \in Procs : Claims(o, c)' => Claims(o, c) /\ h'[o].q = h[o].q /\ h[o].q # q
        BY <2>1, <2>4, <3>4, <3>5 DEF ClaimsKept, ClaimKept
      <3>7. FreshAt(c)'
        BY <1>2, <1>3, <2>1, <3>1, <3>5, <3>6 DEF FreshAt
      <3>8. OwnedAt(c)'
        BY <3>1, <3>2, <3>5, <3>6 DEF OwnedAt
      <3>9. \A d \in Drivers : d # c => NoNewRide(d)
        BY <2>5, <3>1, <3>2 DEF NoNewRide
      <3>10. \A d \in Drivers : d # c => FreshAt(d)' /\ OwnedAt(d)'
        BY <1>2, <1>3, <2>4, <3>1, <3>9, OvertakenQuiet
      <3> QED
        BY <3>7, <3>8, <3>10 DEF OvertakenInv
    <2> QED
      BY <2>6, <2>7
  <1>10. CASE s.pc = "cancelRun"
    <2>1. CancelScript(q, s.r, c) /\ q \in Requests /\ s.r \in Riders /\ c \in Drivers
      BY <1>1, <1>10, WriteStep, WriterLocals DEF At, RunCancel
    <2>2. \A d \in Drivers : ClaimsKept(d) /\ NoNewRide(d)
      BY <1>4, <1>5, <1>10
    <2>3. CASE UNCHANGED lock
      BY <1>2, <1>3, <2>2, <2>3, OvertakenQuiet DEF OvertakenInv
    <2>4. CASE ~UNCHANGED lock
      <3>1. /\ asg[q].st = "en_route" /\ lock[c] \in {None, q}
            /\ lock' = [lock EXCEPT ![c] = None]
            /\ driverActive' = [driverActive EXCEPT ![c] = None]
        BY <2>1, <2>4 DEF CancelScript, CancelResult, store
      <3>2. driverActive'[c] = None /\ \A d \in Drivers : d # c => lock'[d] = lock[d]
        BY <1>2, <2>1, <3>1 DEF StoreOK, StoreTypeOK
      <3>3. \A o \in Procs : Claims(o, c) => asg[h[o].q].st # "none"
        BY <1>2, <1>3, <2>1, <3>1 DEF FreshAt
      <3>4. \A o \in Procs : Claims(o, c)' => asg[h[o].q].st # "none"
        BY <2>1, <2>2, <3>3 DEF ClaimsKept, ClaimKept
      <3>5. FreshAt(c)' /\ OwnedAt(c)'
        BY <1>2, <1>3, <2>1, <2>2, <3>2, <3>4, OvertakenQuiet
      <3>6. \A d \in Drivers : d # c => FreshAt(d)' /\ OwnedAt(d)'
        BY <1>2, <1>3, <2>2, <3>2, OvertakenQuiet
      <3> QED
        BY <3>5, <3>6 DEF OvertakenInv
    <2> QED
      BY <2>3, <2>4
  <1>11. CASE s.pc = "arriveRun"
    <2>1. UNCHANGED lock
      BY <1>11, WriteStep DEF At, RunArrive, ArriveScript
    <2>2. \A d \in Drivers : ClaimsKept(d) /\ NoNewRide(d)
      BY <1>4, <1>5, <1>11
    <2> QED
      BY <1>2, <1>3, <2>1, <2>2, OvertakenQuiet DEF OvertakenInv
  <1> QED
    BY <1>6, <1>7, <1>8, <1>9, <1>10, <1>11 DEF LockPCs

\* The starts, the failures and the expiries keep it too: a lock that lapses
\* was nobody's claim.
LEMMA OvertakenOthers ==
    ASSUME "lock" \notin Faults, "reset" \notin Kinds, IInv, OvertakenInv,
           OutsideStep \/ \E p \in Procs : Start(p) \/ CallFails(p) \/ Abort(p)
    PROVE  OvertakenInv'
  <1>1. StoreOK
    BY DEF IInv, TypeOK, StoreOK
  <1>2. \A d \in Drivers : ClaimsKept(d)
    <2>1. CASE OutsideStep
      BY <2>1, OutsideKeepsHandlers DEF ClaimsKept, ClaimKept, Claims
    <2> QED
      BY <2>1, StartClaims
  <1>3. \A d \in Drivers : NoNewRide(d)
    <2>1. \A q \in Requests : asg'[q] = asg[q] \/ asg'[q] = Expired
      BY OutsideRiding, StartMoves
    <2>2. \A d \in Drivers : driverActive'[d] \in {driverActive[d], None}
      BY OutsideRiding, StartMoves
    <2>3. \A o \in Procs : h'[o].pc = "busy" => h[o].pc = "busy"
      BY OthersNotBusy DEF At
    <2> QED
      BY <2>1, <2>2, <2>3 DEF NoNewRide, Expired, NoRide
  <1>4. \A d \in Drivers : lock'[d] = lock[d] \/ \A p \in Procs : ~Claims(p, d)
    <2>1. CASE OutsideStep
      BY <1>1, <2>1
      DEF OutsideStep, SetDriverStatus, AddLocation, Expire, SetStatus, GeoAdd,
          LockExpires, StatusExpires, AssignmentExpires, RiderKeyExpires, DriverKeyExpires,
          LeaseExpires, StoreOK, StoreTypeOK, Claimed, Claims
    <2> QED
      BY <2>1, StartClaims
  <1>5. \A d \in Drivers : (\A p \in Procs : ~Claims(p, d)) => \A p \in Procs : ~Claims(p, d)'
    BY <1>2 DEF ClaimsKept, ClaimKept
  <1>6. \A d \in Drivers, o \in Procs : Claims(o, d) => h[o].q \in Requests
    BY WriterLocals DEF Claims, ClaimPCs, DispatchPCs
  <1> QED
    BY <1>2, <1>3, <1>4, <1>5, <1>6, OvertakenQuiet DEF OvertakenInv

\* A ride that got ahead of a claim holds the lock, not the claim.
LEMMA OvertakenInvariant ==
    ASSUME Faults \cap {"retry", "lost", "lock"} = {}, "reset" \notin Kinds
    PROVE  Spec => []OvertakenInv
  <1>1. Init => OvertakenInv
    BY DEF Init, Idle, OvertakenInv, FreshAt, OwnedAt, Claims, ClaimPCs
  <1>2. IInv /\ KindsInv /\ OvertakenInv /\ [Next]_vars => OvertakenInv'
    <2>1. ASSUME OvertakenInv, UNCHANGED vars PROVE OvertakenInv'
      BY <2>1 DEF OvertakenInv, FreshAt, OwnedAt, Claims, vars
    <2> QED
      BY <2>1, NextSteps, OvertakenStep, OvertakenOthers
  <1> QED
    BY <1>1, <1>2, InductiveInvariant, KindsInvariant, PTL DEF Spec

\* What ClaimsRespectRides needs: locks are not taken from a request that works
\* under them, but they may lapse once the claim is over even where rides are
\* cancelled.
OwnersHold ==
    /\ "reset" \notin Kinds
    /\ Faults \cap {"retry", "lock"} = {}
    /\ "cancel" \in Kinds => "lost" \notin Faults

\* No claim takes a driver off a ride, whatever happened to the driver's
\* status in between.  While the lock excludes, what CheckOwner read is still
\* true when SetBusy runs, because a ride can only begin under the lock; and
\* where the lock of a ride may lapse and rides are cancelled, a request that a
\* ride got ahead of does not hold the lock any more.
THEOREM RidesRespected ==
    ASSUME OwnersHold
    PROVE  Spec => ClaimsRespectRides
  <1> DEFINE Respects ==
          \A p \in Procs : At(p, "busy") /\ lock[h[p].d] = h[p].q => ~OnRide(h[p].d)
  <1>1. ASSUME IInv, NEW p \in Procs, At(p, "busy")
        PROVE  /\ h[p].d \in Drivers
               /\ OnRide(h[p].d) => driverActive[h[p].d] # None
    <2>1. h[p].d \in Drivers /\ StoreOK
      BY <1>1, WriterLocals DEF At, ClaimPCs
    <2> QED
      BY <2>1, RidingIsOnRide DEF Riding
  <1>2. IInv /\ OwnerInv => Respects
    BY <1>1 DEF OwnerInv
  <1>3. IInv /\ OvertakenInv => Respects
    BY <1>1 DEF OvertakenInv, OwnedAt, Claims, ClaimPCs, At
  <1>4. Respects /\ [Next]_vars =>
          [\A p \in Procs : LET d == h[p].d IN
              At(p, "busy") /\ ~At(p, "busy")' /\ lock[d] = h[p].q
                  /\ status[d] = "available" /\ status'[d] = "busy" => ~OnRide(d)]_vars
    OBVIOUS
  <1>5. CASE "lost" \in Faults
    <2>1. LocksHold
      BY <1>5 DEF OwnersHold, LocksHold
    <2> QED
      BY <1>2, <1>4, <2>1, InductiveInvariant, OwnerInvariant, PTL DEF Spec, ClaimsRespectRides
  <1>6. CASE "lost" \notin Faults
    <2>1. Faults \cap {"retry", "lost", "lock"} = {} /\ "reset" \notin Kinds
      BY <1>6 DEF OwnersHold
    <2>2. Spec => []OvertakenInv
      BY <2>1, OvertakenInvariant
    <2> QED
      BY <1>3, <1>4, <2>2, InductiveInvariant, PTL DEF Spec, ClaimsRespectRides
  <1> QED
    BY <1>5, <1>6

-----------------------------------------------------------------------------
(* What a demo reset leaves of a rider's request.                          *)

\* A demo reset that goes on to its next rider leaves the previous one free of
\* the request it found: cancelled, expired, arrived or cancelled by somebody
\* else meanwhile, and whatever call of another handler comes in between.
THEOREM ResetFrees == Spec => ResetFreesRider
  <1> DEFINE A == \A p \in Procs :
          h[p].pc \in ResetPCs /\ h[p].q # None /\ h'[p].n = h[p].n + 1
              => riderActive'[DemoRiders[h[p].n]] # h[p].q
  <1>1. ASSUME IInv, Next, NEW p \in Procs,
               h[p].pc \in ResetPCs, h[p].q # None, h'[p].n = h[p].n + 1
        PROVE  riderActive'[DemoRiders[h[p].n]] # h[p].q
    <2> DEFINE s == h[p]
    <2>1. /\ StoreOK /\ s \in HandlerState /\ LocalOK(s, asg)
          /\ h \in [Procs -> HandlerState] /\ s.n \in Nat /\ s.n \in 1..Len(DemoRiders)
      BY <1>1 DEF IInv, TypeOK, StoreOK, HandlersOK, LocalOK, HandlerState
    <2>2. DemoRiders[s.n] \in Riders
      BY <2>1, DemoRidersAssumption
    <2>3. ASSUME h'[p] = s \/ h'[p].n = s.n \/ h'[p] = Idle \/ h'[p] = OnError(s) PROVE FALSE
      <3>1. s.n + 1 # s.n /\ s.n + 1 # 0 /\ Idle.n = 0
        BY <2>1 DEF Idle
      <3>2. OnError(s) = Idle
        BY <1>1 DEF OnError, ResetPCs
      <3> QED
        BY <1>1, <2>3, <3>1, <3>2
    <2>4. PICK k \in Outcomes : Step(p, k)
      <3>1. CASE OutsideStep
        BY <2>3, <3>1, OutsideKeepsHandlers
      <3>2. ASSUME NEW o \in Procs, Start(o) \/ CallFails(o) \/ Abort(o) PROVE FALSE
        <4>1. CASE o # p
          BY <1>1, <2>3, <3>2, <4>1, StartMoves DEF MovesAlone
        <4>2. CASE o = p
          <5>1. h[p] = Idle \/ h'[p] = Idle \/ h'[p] = OnError(s)
            BY <2>1, <3>2, <4>2
            DEF Start, StartDispatch, StartLegacyDispatch, StartCancel, StartArrive,
                StartLocationUpdate, StartReset, Begin, CallFails, Abort
          <5> QED
            BY <1>1, <2>3, <5>1 DEF Idle, ResetPCs
        <4> QED
          BY <4>1, <4>2
      <3>3. ASSUME NEW o \in Procs, NEW k \in Outcomes, Step(o, k), o # p PROVE FALSE
        BY <1>1, <2>3, <3>3, StepMoves DEF MovesAlone
      <3> QED
        BY <1>1, <3>1, <3>2, <3>3, NextSteps
    <2>5. ResetStep(p, k)
      BY <1>1, <2>4
      DEF Step, DispatchStep, ReadActiveRide, FindNearby, GetStatuses, TryLock, CheckOwner, SetBusy,
          Create, UnlockAndContinue, UnlockAndReturn, ReleaseUnlock, ReleaseSetAvailable,
          ConflictUnlock, ConflictRefresh, ConflictSetAvailable, RideStep, RunCancel, CheckPosition,
          RunArrive, RefreshActiveDriver, Heartbeat, BringOnline, At, ResetPCs
    <2>6. ASSUME NEW t, Proceed(p, k, t) PROVE h'[p] = t /\ t.n # s.n /\ t # Idle
      <3>1. h'[p] = t \/ h'[p] = s \/ h'[p] = OnError(s)
        BY <1>1, <2>6, OutcomeCases
      <3> QED
        BY <2>3, <3>1
    <2>7. \A pc : Goto(s, pc).n = s.n
      BY <2>1 DEF Goto, HandlerState
    <2>8. CASE ResetReadKey(p, k)
      <3>1. s.pc = "resetKey" /\ UNCHANGED store
        BY <2>8 DEF ResetReadKey, At
      <3>2. CASE riderActive[DemoRiders[s.n]] = None
        BY <1>1, <3>1, <3>2 DEF store
      <3>3. CASE riderActive[DemoRiders[s.n]] # None
        <4>1. Proceed(p, k, [s EXCEPT !.pc = "resetGet", !.q = riderActive[DemoRiders[s.n]]])
          BY <2>8, <3>3 DEF ResetReadKey
        <4>2. [s EXCEPT !.pc = "resetGet", !.q = riderActive[DemoRiders[s.n]]].n = s.n
          BY <2>1 DEF HandlerState
        <4> QED
          BY <2>6, <4>1, <4>2
      <3> QED
        BY <3>2, <3>3
    <2>9. CASE ResetReadRide(p, k)
      <3>1. \A d, pc : [s EXCEPT !.d = d, !.pc = pc].n = s.n
        BY <2>1 DEF HandlerState
      <3>2. \/ Proceed(p, k, Goto(s, "resetClearActive"))
            \/ \E d, pc : Proceed(p, k, [s EXCEPT !.d = d, !.pc = pc])
        <4>1. CASE ~Exists(s.q)
          BY <2>9, <4>1 DEF ResetReadRide
        <4>2. CASE Exists(s.q)
          BY <2>9, <4>2 DEF ResetReadRide
        <4> QED
          BY <4>1, <4>2
      <3> QED
        BY <2>6, <2>7, <3>1, <3>2
    <2>10. CASE ResetCancelRead(p, k)
      <3>1. \A r : [s EXCEPT !.pc = "resetCancelRun", !.r = r].n = s.n
        BY <2>1 DEF HandlerState
      <3> QED
        BY <2>6, <2>7, <2>10, <3>1 DEF ResetCancelRead
    <2>11. CASE ResetCancelRun(p, k)
      <3>1. CancelResult(s.q, s.r, s.d) = 1
        BY <2>6, <2>7, <2>11 DEF ResetCancelRun
      <3>2. /\ riderActive' = [riderActive EXCEPT ![s.r] = IF @ = s.q THEN None ELSE @]
            /\ asg[s.q].st = "en_route" /\ asg[s.q].r = s.r
        BY <2>11, <3>1 DEF ResetCancelRun, CancelScript, CancelResult
      <3>3. DemoRiders[s.n] = s.r
        BY <2>1, <2>11, <3>2 DEF LocalOK, ResetCancelRun, At, ResetPCs
      <3> QED
        BY <1>1, <2>1, <2>2, <3>2, <3>3 DEF StoreOK, StoreTypeOK
    <2>12. CASE ResetClearActive(p, k) \/ ResetClear(p, k)
      <3>1. riderActive' = [riderActive EXCEPT ![DemoRiders[s.n]] = IF @ = s.q THEN None ELSE @]
        BY <2>12 DEF ResetClearActive, ResetClear, ClearActiveScript, ClearResetScript
      <3> QED
        BY <1>1, <2>1, <2>2, <3>1 DEF StoreOK, StoreTypeOK
    <2> QED
      BY <2>5, <2>8, <2>9, <2>10, <2>11, <2>12 DEF ResetStep
  <1>2. IInv /\ [Next]_vars => [A]_vars
    BY <1>1
  <1> QED
    BY <1>2, InductiveInvariant, PTL DEF Spec, ResetFreesRider

-----------------------------------------------------------------------------
(* Who accounts for a busy driver.                                         *)

\* Requests run to their end and their calls succeed: what may expire is a
\* driver's status, a lock nobody works under and the demo lease.  A request
\* without a rider leaves the driver busy without a ride, and POST
\* /driver/status may set any status.
ClaimsSettle ==
    /\ LocksHold
    /\ Faults \subseteq {"status", "lease", "settledLock"}
    /\ Kinds \cap {"status", "legacy"} = {}

AccountedAt(d) == status[d] = "busy" => Riding(d) \/ \E p \in Procs : Holds(p, d)

AccountedInv == \A d \in Drivers : AccountedAt(d)

AccountKept(d) ==
    /\ status'[d] = "busy" => status[d] = "busy"
    /\ Riding(d) => Riding(d)'
    /\ \A p \in Procs : Holds(p, d) => Holds(p, d)'

\* A driver that keeps its ride and its request stays accounted for.
LEMMA AccountKeeps ==
    ASSUME NEW d \in Drivers, AccountedAt(d), AccountKept(d)
    PROVE  AccountedAt(d)'
  BY DEF AccountedAt, AccountKept

\* A step of p on the driver c, which leaves the other drivers alone.
LEMMA AccountStep ==
    ASSUME AccountedInv, NEW p \in Procs, MovesAlone(p), NEW c, c \in Drivers => AccountedAt(c)',
           h[p].pc \in BusyPCs => h[p].d = c,
           \A d \in Drivers : d # c => status'[d] = status[d] /\ (Riding(d) => Riding(d)')
    PROVE  AccountedInv'
  <1>1. ASSUME NEW d \in Drivers, d # c PROVE AccountKept(d)
    BY <1>1 DEF AccountKept, MovesAlone, Holds
  <1> QED
    BY <1>1, AccountKeeps DEF AccountedInv

\* Every step of a handler accounts for the driver it leaves busy.
LEMMA SettleStep ==
    ASSUME ClaimsSettle, IInv, KindsInv, LockInv, AccountedInv,
           NEW p \in Procs, NEW k \in Outcomes, Step(p, k)
    PROVE  AccountedInv'
  <1> DEFINE s == h[p]
  <1>1. PICK c : c = s.d
    OBVIOUS
  <1>2. /\ StoreOK /\ s \in HandlerState /\ MovesAlone(p)
        /\ \A d \in Drivers : AccountedAt(d)
        /\ k = "reply" /\ LocksHold
        /\ s.pc \notin ResetPCs
        /\ s.pc \in DispatchPCs => s.r \in Riders
    BY WriterLocals, StepMoves
    DEF AccountedInv, ClaimsSettle, LocksHold, Outcomes, KindsInv, KindOK
  <1>3. ASSUME c \in Drivers => AccountedAt(c)',
               \A d \in Drivers : d # c => status'[d] = status[d] /\ (Riding(d) => Riding(d)')
        PROVE  AccountedInv'
    BY <1>1, <1>2, <1>3, AccountStep
  <1>4. ASSUME NEW pc \in BusyPCs, h'[p] = Goto(s, pc) PROVE Holds(p, c)'
    <2>1. h'[p].pc = pc /\ h'[p].d = c
      BY <1>1, <1>2, <1>4 DEF Goto, HandlerState
    <2> QED
      BY <1>4, <2>1 DEF Holds
  <1>5. ASSUME UNCHANGED <<asg, driverActive>> PROVE \A d \in Drivers : Riding(d) <=> Riding(d)'
    BY <1>5 DEF Riding, IsOpen
  <1>6. ASSUME s.pc \notin BusyPCs, UNCHANGED status, \A d \in Drivers : Riding(d) => Riding(d)'
        PROVE  AccountedInv'
    <2>1. \A d \in Drivers : AccountKept(d)
      BY <1>2, <1>6 DEF AccountKept, MovesAlone, Holds
    <2> QED
      BY <1>2, <2>1, AccountKeeps DEF AccountedInv
  <1>7. CASE s.pc \notin WritePCs \cup BusyPCs
    BY <1>5, <1>6, <1>7, CalmStep
  <1>8. CASE s.pc = "busy"
    <2>1. SetBusy(p, k) /\ c \in Drivers /\ s.r # None
      BY <1>1, <1>2, <1>8, WriteStep, WriterLocals, NoneAssumption DEF At, ClaimPCs, DispatchPCs
    <2>2. /\ UNCHANGED <<asg, driverActive>>
          /\ status' = [status EXCEPT ![c] = IF @ = "available" THEN "busy" ELSE @]
          /\ status[c] = "available" => h'[p] = Goto(s, "create")
      BY <1>1, <1>2, <2>1, OutcomeCases DEF SetBusy, SetBusyScript, ClaimsSettle
    <2>3. CASE status[c] = "available"
      <3>1. Holds(p, c)'
        BY <1>4, <2>2, <2>3 DEF BusyPCs
      <3>2. \A d \in Drivers : d # c => status'[d] = status[d]
        BY <1>2, <2>2 DEF StoreOK, StoreTypeOK
      <3> QED
        BY <1>3, <1>5, <2>2, <3>1, <3>2 DEF AccountedAt
    <2>4. CASE status[c] # "available"
      <3>1. UNCHANGED status
        BY <1>2, <2>2, <2>4 DEF StoreOK, StoreTypeOK
      <3> QED
        BY <1>5, <1>6, <1>8, <2>2, <3>1 DEF BusyPCs
    <2> QED
      BY <2>3, <2>4
  <1>9. CASE s.pc = "create"
    <2>1. /\ Create(p, k) /\ s.q \in Requests /\ s.r \in Riders /\ c \in Drivers
          /\ asg[s.q].st # "expired"
      BY <1>1, <1>9, WriteStep, WriterLocals DEF At, ClaimPCs, DispatchPCs
    <2>2. PICK x \in Places : CreateScript(s.q, s.r, c, x)
      BY <1>1, <2>1 DEF Create
    <2>3. /\ UNCHANGED status
          /\ \A e \in Drivers : e # c => (Riding(e)' <=> Riding(e))
          /\ CreateResult(s.q, s.r, c) = 1 => Riding(c)'
      BY <1>2, <2>1, <2>2, RidingCreate
    <2>4. CreateResult(s.q, s.r, c) # 1 => \E pc \in {"relUnlock", "confUnlock"} : h'[p] = Goto(s, pc)
      BY <1>1, <1>2, <2>1, OutcomeCases DEF Create, ClaimsSettle
    <2>5. Riding(c)' \/ Holds(p, c)'
      BY <1>4, <2>3, <2>4 DEF BusyPCs
    <2> QED
      BY <1>3, <2>3, <2>5 DEF AccountedAt
  <1>10. CASE s.pc \in {"relUnlock", "confUnlock"}
    <2>1. c \in Drivers /\ UnlockScript(c, s.q)
      BY <1>1, <1>2, <1>10, UnlockEnds, WriterLocals DEF ClaimPCs, ClaimsSettle, LocksHold
    <2>2. UNCHANGED <<status, asg, driverActive>>
      BY <2>1 DEF UnlockScript
    <2>3. lock[c] = s.q
      BY <1>1, <1>10, <2>1 DEF LockInv, LockAt, Claims, ClaimPCs
    <2>4. h'[p] \in {Goto(s, "relAvail"), Goto(s, "confRefresh")}
      BY <1>1, <1>2, <1>10, <2>3, WriteStep, OutcomeCases
      DEF At, ReleaseUnlock, ConflictUnlock, LockNotHeld, ClaimsSettle
    <2>5. Holds(p, c)'
      BY <1>4, <2>4 DEF BusyPCs
    <2> QED
      BY <1>3, <1>5, <2>2, <2>5 DEF AccountedAt
  <1>11. CASE s.pc \in {"relAvail", "confAvail", "locAvail"}
    <2>1. c \in Drivers /\ SetStatus(c, "available")
      BY <1>1, <1>11, WriteStep, WriterLocals
      DEF At, BusyPCs, LocationPCs, ReleaseSetAvailable, ConflictSetAvailable, BringOnline
    <2>2. /\ UNCHANGED <<asg, driverActive>> /\ status'[c] = "available"
          /\ \A d \in Drivers : d # c => status'[d] = status[d]
      BY <1>2, <2>1 DEF SetStatus, StoreOK, StoreTypeOK
    <2> QED
      BY <1>3, <1>5, <2>2 DEF AccountedAt
  <1>12. CASE s.pc \in {"confRefresh", "locRefresh"}
    <2>1. c \in Drivers /\ RefreshScript(c)
      BY <1>1, <1>12, WriteStep, WriterLocals
      DEF At, BusyPCs, LocationPCs, ConflictRefresh, RefreshActiveDriver
    <2>2. /\ UNCHANGED <<asg, driverActive>>
          /\ status'[c] = IF DriverIsActive(c) THEN "busy" ELSE status[c]
          /\ \A d \in Drivers : d # c => status'[d] = status[d]
      BY <1>2, <2>1 DEF RefreshScript, StoreOK, StoreTypeOK
    <2>3. CASE DriverIsActive(c)
      <3>1. Riding(c)'
        BY <1>5, <2>1, <2>2, <2>3 DEF DriverIsActive, Riding
      <3> QED
        BY <1>3, <1>5, <2>2, <3>1 DEF AccountedAt
    <2>4. CASE ~DriverIsActive(c) /\ s.pc = "confRefresh"
      <3>1. h'[p] = Goto(s, "confAvail")
        BY <1>1, <1>2, <2>4, WriteStep, OutcomeCases DEF At, ConflictRefresh, ClaimsSettle
      <3>2. Holds(p, c)'
        BY <1>4, <3>1 DEF BusyPCs
      <3> QED
        BY <1>3, <1>5, <2>2, <3>2 DEF AccountedAt
    <2>5. CASE ~DriverIsActive(c) /\ s.pc = "locRefresh"
      <3>1. UNCHANGED status
        BY <1>2, <2>1, <2>5 DEF RefreshScript, StoreOK, StoreTypeOK
      <3> QED
        BY <1>5, <1>6, <2>2, <2>5, <3>1 DEF BusyPCs
    <2> QED
      BY <1>12, <2>3, <2>4, <2>5
  <1>13. CASE s.pc = "cancelRun"
    <2>1. CancelScript(s.q, s.r, c) /\ s.q \in Requests /\ s.r \in Riders /\ c \in Drivers
      BY <1>1, <1>13, WriteStep, WriterLocals DEF At, RunCancel
    <2>2. CASE UNCHANGED store
      BY <1>5, <1>6, <1>13, <2>2 DEF store, BusyPCs
    <2>3. CASE ~UNCHANGED store
      <3>1. /\ status'[c] # "busy"
            /\ \A e \in Drivers : e # c => (Riding(e)' <=> Riding(e)) /\ status'[e] = status[e]
        BY <1>2, <2>1, <2>3, RidingCancel
      <3> QED
        BY <1>3, <3>1 DEF AccountedAt
    <2> QED
      BY <2>2, <2>3
  <1>14. CASE s.pc = "arriveRun"
    <2>1. ArriveScript(s.q, s.r, s.d) /\ s.q \in Requests /\ s.r \in Riders /\ s.d \in Drivers
      BY <1>14, WriteStep, WriterLocals DEF At, RunArrive
    <2> QED
      BY <1>2, <1>6, <1>14, <2>1, RidingArrive DEF BusyPCs
  <1> QED
    BY <1>2, <1>7, <1>8, <1>9, <1>10, <1>11, <1>12, <1>13, <1>14 DEF WritePCs, BusyPCs, ResetPCs

\* The starts and the expiries leave no driver busy.
LEMMA SettleOthers ==
    ASSUME ClaimsSettle, IInv, AccountedInv,
           OutsideStep \/ \E p \in Procs : Start(p) \/ CallFails(p) \/ Abort(p)
    PROVE  AccountedInv'
  <1>1. StoreOK
    BY DEF IInv, TypeOK, StoreOK
  <1>2. UNCHANGED <<asg, driverActive>> /\ \A d \in Drivers : status'[d] = "busy" => status[d] = "busy"
    <2>1. CASE OutsideStep
      BY <1>1, <2>1
      DEF ClaimsSettle, OutsideStep, SetDriverStatus, AddLocation, Expire, SetStatus, GeoAdd,
          LockExpires, StatusExpires, LeaseExpires, StoreOK, StoreTypeOK
    <2> QED
      BY <2>1, StartMoves
  <1>3. \A d \in Drivers, o \in Procs : Holds(o, d) => Holds(o, d)'
    <2>1. CASE OutsideStep
      BY <2>1, OutsideKeepsHandlers DEF Holds
    <2>2. ASSUME NEW p \in Procs, Start(p) \/ CallFails(p) \/ Abort(p)
          PROVE  \A d \in Drivers, o \in Procs : Holds(o, d) => Holds(o, d)'
      <3>1. Start(p)
        BY <2>2 DEF ClaimsSettle, CallFails, Abort
      <3>2. h[p] = Idle
        BY <3>1 DEF Start, StartDispatch, StartLegacyDispatch, StartCancel, StartArrive,
                    StartLocationUpdate, StartReset, Begin
      <3>3. h[p].pc \notin BusyPCs
        BY <3>2 DEF Idle, BusyPCs
      <3>4. \A o \in Procs : o # p => h'[o] = h[o]
        BY <2>2, StartMoves DEF MovesAlone
      <3> QED
        BY <3>3, <3>4 DEF Holds
    <2> QED
      BY <2>1, <2>2
  <1>4. \A d \in Drivers : AccountKept(d)
    BY <1>2, <1>3 DEF AccountKept, Riding, IsOpen
  <1> QED
    BY <1>4, AccountKeeps DEF AccountedInv

\* Every busy driver is accounted for.
LEMMA AccountedInvariant ==
    ASSUME ClaimsSettle
    PROVE  Spec => []AccountedInv
  <1>1. LocksHold
    BY DEF ClaimsSettle
  <1>2. Init => AccountedInv
    BY DEF Init, StoreInit, AccountedInv, AccountedAt
  <1>3. IInv /\ KindsInv /\ LockInv /\ AccountedInv /\ [Next]_vars => AccountedInv'
    <2>1. ASSUME AccountedInv, UNCHANGED vars PROVE AccountedInv'
      BY <2>1 DEF AccountedInv, AccountedAt, Riding, IsOpen, Holds, vars
    <2> QED
      BY <2>1, NextSteps, SettleStep, SettleOthers
  <1>4. Spec => []LockInv
    BY <1>1, LockInvariant
  <1> QED
    BY <1>2, <1>3, <1>4, InductiveInvariant, KindsInvariant, PTL DEF Spec

\* No claim leaks: a busy driver has a ride in progress or a request that is
\* still deciding.  The rollback of a claim never gives up because another
\* request holds the lock: as long as requests finish, the lock is its own.
THEOREM NoClaimLeaks ==
    ASSUME ClaimsSettle
    PROVE  Spec => []BusyAccounted
  <1>1. IInv /\ AccountedInv => BusyAccounted
    BY RidingIsOnRide
    DEF IInv, TypeOK, StoreOK, AccountedInv, AccountedAt, Holds, BusyAccounted
  <1> QED
    BY <1>1, InductiveInvariant, AccountedInvariant, PTL

=============================================================================
