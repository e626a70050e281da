-------------------------- MODULE DispatchService --------------------------
(***************************************************************************)
(* The dispatch core: any number of handlers of every kind interleaving on *)
(* the shared Redis keys, with the failures named in Faults.               *)
(***************************************************************************)
EXTENDS FindAndAssign, RideHandlers, DemoReset

vars == <<status, lock, asg, riderActive, driverActive, geo, lease, h>>

Init == StoreInit /\ h = [p \in Procs |-> Idle]

\* An assignment lives for 24 hours, a dispatch request for seconds: a record
\* does not expire under a request that still runs with its id.
InDispatch(q) == \E p \in Procs : h[p].q = q /\ h[p].pc \in DispatchPCs

\* The handlers that hold or believe they hold the lock on a driver.
ClaimPCs == {"owner", "busy", "create", "unlockNext", "unlockErr", "relUnlock", "confUnlock"}
Claimed(d) == \E p \in Procs : h[p].d = d /\ h[p].pc \in ClaimPCs

\* Fault "lock": a lock may expire under a slow handler.  Fault "settledLock":
\* handlers are faster than the 10 s a lock lives, so it expires only later.
Expire ==
    /\ \/ "lock" \in Faults /\ \E d \in Drivers : LockExpires(d)
       \/ "settledLock" \in Faults /\ \E d \in Drivers : ~Claimed(d) /\ LockExpires(d)
       \/ "status" \in Faults /\ \E d \in Drivers : StatusExpires(d)
       \/ "record" \in Faults /\ \E q \in Requests : ~InDispatch(q) /\ AssignmentExpires(q)
       \/ "record" \in Faults /\ \E r \in Riders : RiderKeyExpires(r)
       \/ "record" \in Faults /\ \E d \in Drivers : DriverKeyExpires(d)
       \/ "lease" \in Faults /\ LeaseExpires
    /\ UNCHANGED h

Start(p) ==
    \/ \E q \in Requests, r \in Riders : StartDispatch(p, q, r)
    \/ \E q \in Requests : StartLegacyDispatch(p, q)
    \/ \E q \in Requests : StartCancel(p, q)
    \/ \E q \in Requests : StartArrive(p, q)
    \/ \E d \in Drivers, x \in Places : StartLocationUpdate(p, d, x)
    \/ \E s \in Sessions, force, clearLocks \in BOOLEAN :
          StartReset(p, s, force, clearLocks)

Step(p, k) == DispatchStep(p, k) \/ RideStep(p, k) \/ ResetStep(p, k)

Next ==
    \/ \E p \in Procs : Start(p) \/ CallFails(p) \/ Abort(p)
    \/ \E p \in Procs, k \in Outcomes : Step(p, k)
    \/ \E d \in Drivers, s \in DriverStatus : SetDriverStatus(d, s)
    \/ \E d \in Drivers, x \in Places : AddLocation(d, x)
    \/ Expire

Spec == Init /\ [][Next]_vars

-----------------------------------------------------------------------------
(* Properties.  Which instance each holds in is the README's subject.      *)

\* Every Redis key and every handler's local variable holds what the code
\* stores in it.
TypeOK == StoreTypeOK /\ h \in [Procs -> HandlerState]

\* A ride in progress: en route, or arrived and not yet closed by a reset,
\* which frees the rider by deleting the rider's key.
InProgress(q) ==
    \/ asg[q].st = "en_route"
    \/ asg[q].st = "arrived" /\ riderActive[asg[q].r] = q

OnRide(d) == \E q \in Requests : InProgress(q) /\ asg[q].d = d

\* No double assignment: two rides in progress share neither a driver nor a
\* rider, whatever the handlers' interleaving and whatever call fails.
RidesExclusive ==
    \A q1, q2 \in Requests :
        q1 # q2 /\ InProgress(q1) /\ InProgress(q2)
            => asg[q1].d # asg[q2].d /\ asg[q1].r # asg[q2].r

\* A ride in progress is found under its rider's and its driver's key: no
\* cleanup (cancel, reset, expiry) orphans it, so it can still be cancelled,
\* confirmed and refreshed.
RidesOwned ==
    \A q \in Requests : InProgress(q) =>
        riderActive[asg[q].r] = q /\ driverActive[asg[q].d] = q

\* The service implements RideLifecycle: an arrived ride counts as closed once
\* a demo reset has taken the rider's key from it.
Rides == INSTANCE RideLifecycle WITH
    phase  <- [q \in Requests |->
                  IF asg[q].st = "arrived" /\ ~InProgress(q) THEN "closed" ELSE asg[q].st],
    rider  <- [q \in Requests |-> asg[q].r],
    driver <- [q \in Requests |-> asg[q].d]

\* Every step of every handler, and every failure, is a step of RideLifecycle
\* or leaves the rides alone.
ImplementsRideLifecycle == Rides!Spec

\* The handlers that have set the driver busy and not yet settled the claim.
BusyPCs == {"create", "relUnlock", "relAvail", "confUnlock", "confRefresh", "confAvail"}

\* The driver lock excludes: at most one dispatch request at a time is between
\* TryLock and Unlock on a driver, duplicates of one request id included.
ClaimExclusive ==
    \A p1, p2 \in Procs :
        p1 # p2 /\ h[p1].pc \in ClaimPCs /\ h[p2].pc \in ClaimPCs => h[p1].d # h[p2].d

\* No claim leaks: a busy driver has a ride in progress or a request that is
\* still deciding; every failed claim is rolled back.
BusyAccounted ==
    \A d \in Drivers : status[d] = "busy" =>
        OnRide(d) \/ \E p \in Procs : h[p].d = d /\ h[p].pc \in BusyPCs

\* A driver on a ride is never offered: no rollback, cancel or late handler
\* marks it available.
AvailableMeansFree == \A d \in Drivers : status[d] = "available" => ~OnRide(d)

\* A request that holds the driver's lock when it sets busy takes no driver off
\* a ride, even when the driver's status has drifted to available: the owner
\* check under the lock stands between.
ClaimsRespectRides ==
    [][\A p \in Procs : LET d == h[p].d IN
          At(p, "busy") /\ ~At(p, "busy")' /\ lock[d] = h[p].q
              /\ status[d] = "available" /\ status'[d] = "busy" => ~OnRide(d)]_vars

\* A demo reset that goes on to its next rider leaves the previous one free of
\* the request it found, whichever of its three ways of clearing it took.
ResetFreesRider ==
    [][\A p \in Procs :
          h[p].pc \in ResetPCs /\ h[p].q # None /\ h'[p].n = h[p].n + 1
              => riderActive'[DemoRiders[h[p].n]] # h[p].q]_vars

\* A late location update never marks a driver available that has a ride:
\* "A fresh location can safely bring an expired driver back online."
LocationUpdateSafe ==
    [][\A p \in Procs : At(p, "locAvail") /\ ~At(p, "locAvail")' =>
          \A d \in Drivers : status[d] # status'[d] => ~OnRide(d)]_vars

-----------------------------------------------------------------------------
(* Fairness: a handler that has started makes its next call (the Go        *)
(* scheduler runs every goroutine), and every driver keeps reporting its   *)
(* location.  The latter is strong only because Procs bounds the number of *)
(* goroutines, which the code does not.                                    *)

LocationReport(d) == \E p \in Procs, x \in Places : StartLocationUpdate(p, d, x)

FairSpec ==
    /\ Spec
    /\ \A p \in Procs : WF_vars(Step(p, "reply"))
    /\ \A d \in Drivers : SF_vars(LocationReport(d))

\* A driver on a ride whose status was lost or overwritten is busy again at
\* some later time, as long as the ride goes on and the driver reports.
DriverBecomesBusy ==
    \A q \in Requests, d \in Drivers :
        InProgress(q) /\ asg[q].d = d ~> status[d] = "busy" \/ ~InProgress(q)

\* A lock nobody claims any more runs out of its 10 s.
SettledLockExpires(d) ==
    "settledLock" \in Faults /\ ~Claimed(d) /\ LockExpires(d) /\ UNCHANGED h

\* The rider repeats the cancel of a ride until it succeeds, and not every
\* repetition is aborted.
CancelFairSpec ==
    /\ Spec
    /\ \A p \in Procs : WF_vars(Step(p, "reply")) /\ SF_vars(RunCancel(p, "reply"))
    /\ \A q \in Requests : SF_vars(\E p \in Procs : StartCancel(p, q))
    /\ \A d \in Drivers : WF_vars(SettledLockExpires(d))

\* A ride that its rider keeps cancelling does not stay en route: the lock of
\* another request, or of one that was aborted while it held the lock, puts
\* the cancel off (lifecycle.go:120), but not for ever.
CancelSucceeds == \A q \in Requests : asg[q].st = "en_route" ~> asg[q].st # "en_route"
-----------------------------------------------------------------------------
(* The inductive invariant behind RidesOwned, RidesExclusive and the       *)
(* refinement.                                                             *)

\* A ride in progress and the two keys that name it agree; a key that names
\* no ride in progress names an expired one.
KeysOK ==
    /\ \A q \in Requests : Exists(q) => asg[q].r \in Riders /\ asg[q].d \in Drivers
    /\ \A q \in Requests : asg[q].st = "en_route" =>
          riderActive[asg[q].r] = q /\ driverActive[asg[q].d] = q
    /\ \A q \in Requests : asg[q].st = "arrived" =>
          (riderActive[asg[q].r] = q <=> driverActive[asg[q].d] = q)
    /\ \A r \in Riders : riderActive[r] # None =>
          Dangling(riderActive[r]) \/ (IsOpen(riderActive[r]) /\ asg[riderActive[r]].r = r)
    /\ \A d \in Drivers : driverActive[d] # None =>
          Dangling(driverActive[d]) \/ (IsOpen(driverActive[d]) /\ asg[driverActive[d]].d = d)

\* What the local variables s of a handler remember of the assignments A.
LocalOK(s, A) ==
    /\ s.pc \in DispatchPCs => s.q \in Requests /\ A[s.q].st # "expired"
    /\ s.pc \in DispatchPCs \ {"ride", "nearby", "statuses"} => s.d \in Drivers
    /\ s.pc = "create" => s.r \in Riders
    /\ s.pc \in {"cancelRun", "arriveGeo", "arriveRun"} =>
          s.q \in Requests /\ s.r \in Riders /\ s.d \in Drivers
    /\ s.pc \in {"locRefresh", "locBeat", "locAvail"} => s.d \in Drivers
    /\ s.pc \in ResetPCs => s.n \in 1..Len(DemoRiders)
    /\ s.pc \in ResetPCs \ {"resetKey"} =>
          /\ s.q \in Requests /\ A[s.q].st # "none"
          /\ A[s.q].st # "expired" => A[s.q].r = DemoRiders[s.n]
    /\ s.pc \in {"resetCancelGet", "resetCancelRun", "resetClear"} =>
          s.d \in Drivers /\ (A[s.q].st # "expired" => A[s.q].d = s.d)
    /\ s.pc = "resetCancelRun" =>
          s.r \in Riders /\ (A[s.q].st # "expired" => A[s.q].r = s.r)
    /\ s.pc = "resetClear" => A[s.q].st # "en_route"
    /\ s.pc = "resetClearActive" => A[s.q].st = "expired"

HandlersOK == \A p \in Procs : LocalOK(h[p], asg)

\* The inductive invariant: the keys agree with the rides, and what a handler
\* read before its next call still holds as far as that call relies on it.
IInv == TypeOK /\ KeysOK /\ HandlersOK
=============================================================================
