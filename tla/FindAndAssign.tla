--------------------------- MODULE FindAndAssign ---------------------------
(***************************************************************************)
(* POST /dispatch/request: Dispatcher.FindAndAssign and tryAssignDriver,   *)
(* one action per Redis call, with the rollback of every error path.       *)
(* The search point, the radius and the pickup are inputs of the request   *)
(* that are read once each, so they are chosen where they are read.        *)
(***************************************************************************)
EXTENDS Handlers

CONSTANT Radii    \* search radii clients ask for

ASSUME RadiiAssumption == Radii \subseteq Nat

\* The result of GEORADIUS ... ASC: ties come in any order.
NearbyOrders(x, radius) ==
    LET In == {d \in Drivers : geo[d] # None /\ Distance[<<x, geo[d]>>] <= radius}
    IN  {s \in SetToSeqs(In) : \A i, j \in DOMAIN s :
            i < j => Distance[<<x, geo[s[i]]>>] <= Distance[<<x, geo[s[j]]>>]}

\* A request for rider r starts with the rider's active key (lifecycle.active).
\* An id whose record has expired is not used again: see the README.
StartDispatch(p, q, r) ==
    /\ "dispatch" \in Kinds
    /\ asg[q].st # "expired"
    /\ Begin(p, [Idle EXCEPT !.pc = IF riderActive[r] = None THEN "nearby" ELSE "ride",
                             !.q = q, !.r = r, !.a = riderActive[r]])
    /\ UNCHANGED store

\* A request without a rider id has no durable assignment.
StartLegacyDispatch(p, q) ==
    /\ "legacy" \in Kinds
    /\ asg[q].st # "expired"
    /\ Begin(p, [Idle EXCEPT !.pc = "nearby", !.q = q])
    /\ UNCHANGED store

\* lifecycle.get in lifecycle.active: ErrActiveAssignment if the ride is open.
ReadActiveRide(p, k) ==
    /\ At(p, "ride")
    /\ UNCHANGED store
    /\ Proceed(p, k, IF IsOpen(h[p].a) THEN Idle
                     ELSE [h[p] EXCEPT !.pc = "nearby", !.a = None])

FindNearby(p, k) ==
    /\ At(p, "nearby")
    /\ UNCHANGED store
    /\ \E x \in Places, radius \in Radii : \E s \in NearbyOrders(x, radius) :
          Proceed(p, k, IF s = <<>> THEN Idle
                        ELSE [h[p] EXCEPT !.pc = "statuses", !.todo = s])

GetStatuses(p, k) ==
    /\ At(p, "statuses")
    /\ UNCHANGED store
    /\ Proceed(p, k, NextCandidate([h[p] EXCEPT !.avail =
                         {d \in Drivers : status[d] = "available"}]))

-----------------------------------------------------------------------------
(* tryAssignDriver on the candidate h[p].d.                                *)

\* Mutant: the lock is re-entrant for the request id that holds it.
TryLockReentrant(p, k) ==
    /\ At(p, "lock")
    /\ SetNX(h[p].d, h[p].q)
    /\ Proceed(p, k, IF ~LockNotHeld(h[p].d, h[p].q) THEN Goto(h[p], "owner")
                     ELSE NextCandidate(h[p]))

TryLock(p, k) ==
    /\ At(p, "lock")
    /\ SetNX(h[p].d, h[p].q)
    /\ Proceed(p, k, IF lock[h[p].d] = None THEN Goto(h[p], "owner")
                     ELSE NextCandidate(h[p]))

\* Mutant: the driver's active key is not looked at.
CheckOwnerSkipped(p, k) ==
    /\ At(p, "owner")
    /\ UNCHANGED store
    /\ Proceed(p, k, Goto(h[p], "busy"))

CheckOwner(p, k) ==
    /\ At(p, "owner")
    /\ UNCHANGED store
    /\ Proceed(p, k, Goto(h[p], IF driverActive[h[p].d] = None THEN "busy"
                                ELSE "unlockNext"))

\* Mutant: busy is set without a look at the current status.
SetBusyUnguarded(p, k) ==
    /\ At(p, "busy")
    /\ SetStatus(h[p].d, "busy")
    /\ Proceed(p, k, IF h[p].r = None THEN Idle ELSE Goto(h[p], "create"))

SetBusy(p, k) ==
    /\ At(p, "busy")
    /\ SetBusyScript(h[p].d)
    /\ Proceed(p, k, IF status[h[p].d] # "available" THEN Goto(h[p], "unlockNext")
                     ELSE IF h[p].r = None THEN Idle
                     ELSE Goto(h[p], "create"))

Create(p, k) ==
    /\ At(p, "create")
    /\ \E x \in Places : CreateScript(h[p].q, h[p].r, h[p].d, x)
    /\ LET result == CreateResult(h[p].q, h[p].r, h[p].d)
       IN  Proceed(p, k, IF result = 1 THEN Idle
                         ELSE Goto(h[p], IF result = -2 THEN "confUnlock"
                                         ELSE "relUnlock"))

\* Unlock on the way to the next candidate, or before returning an error; its
\* own result is ignored.
UnlockAndContinue(p, k) ==
    /\ At(p, "unlockNext")
    /\ UnlockScript(h[p].d, h[p].q)
    /\ Proceed(p, k, NextCandidate(h[p]))

UnlockAndReturn(p, k) ==
    /\ At(p, "unlockErr")
    /\ UnlockScript(h[p].d, h[p].q)
    /\ Proceed(p, k, Idle)

(* ReleaseDriver, the rollback of a claim whose assignment was refused.    *)

\* Mutant: the rollback ends with the lock.
ReleaseUnlockOnly(p, k) ==
    /\ At(p, "relUnlock")
    /\ UnlockScript(h[p].d, h[p].q)
    /\ Proceed(p, k, Idle)

ReleaseUnlock(p, k) ==
    /\ At(p, "relUnlock")
    /\ UnlockScript(h[p].d, h[p].q)
    /\ Proceed(p, k, IF LockNotHeld(h[p].d, h[p].q) THEN Idle
                     ELSE Goto(h[p], "relAvail"))

ReleaseSetAvailable(p, k) ==
    /\ At(p, "relAvail")
    /\ SetStatus(h[p].d, "available")
    /\ Proceed(p, k, Idle)

(* ErrDriverOwnershipConflict: another request owns the driver.            *)

ConflictUnlock(p, k) ==
    /\ At(p, "confUnlock")
    /\ UnlockScript(h[p].d, h[p].q)
    /\ Proceed(p, k, Goto(h[p], "confRefresh"))

ConflictRefresh(p, k) ==
    /\ At(p, "confRefresh")
    /\ RefreshScript(h[p].d)
    /\ Proceed(p, k, IF DriverIsActive(h[p].d) THEN NextCandidate(h[p])
                     ELSE Goto(h[p], "confAvail"))

ConflictSetAvailable(p, k) ==
    /\ At(p, "confAvail")
    /\ SetStatus(h[p].d, "available")
    /\ Proceed(p, k, NextCandidate(h[p]))

DispatchStep(p, k) ==
    \/ ReadActiveRide(p, k)   \/ FindNearby(p, k)          \/ GetStatuses(p, k)
    \/ TryLock(p, k)          \/ CheckOwner(p, k)          \/ SetBusy(p, k)
    \/ Create(p, k)           \/ UnlockAndContinue(p, k)   \/ UnlockAndReturn(p, k)
    \/ ReleaseUnlock(p, k)    \/ ReleaseSetAvailable(p, k)
    \/ ConflictUnlock(p, k)   \/ ConflictRefresh(p, k)     \/ ConflictSetAvailable(p, k)
=============================================================================
