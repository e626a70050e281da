----------------------------- MODULE DemoReset -----------------------------
(***************************************************************************)
(* POST /demo/reset: the lease script, then ResetRiderAssignment for each  *)
(* demo rider in turn.  An error other than ErrAssignmentStateConflict     *)
(* ends the request with the remaining riders untouched.                   *)
(***************************************************************************)
EXTENDS Handlers

\* The loop of HandleDemoReset moves to the next rider, if there is one.
NextRider(s) ==
    IF s.n < Len(DemoRiders) THEN [Idle EXCEPT !.pc = "resetKey", !.n = s.n + 1]
    ELSE Idle

StartReset(p, session, force, clearLocks) ==
    /\ "reset" \in Kinds
    /\ ResetLeaseScript(session, force, clearLocks)
    /\ Begin(p, IF clearLocks /\ ~LeaseRefused(session, force) THEN NextRider(Idle)
                ELSE Idle)

ResetReadKey(p, k) ==
    /\ At(p, "resetKey")
    /\ UNCHANGED store
    /\ LET q == riderActive[DemoRiders[h[p].n]]
       IN  Proceed(p, k, IF q = None THEN NextRider(h[p])
                         ELSE [h[p] EXCEPT !.pc = "resetGet", !.q = q])

ResetReadRide(p, k) ==
    /\ At(p, "resetGet")
    /\ UNCHANGED store
    /\ LET ride == asg[h[p].q]
       IN  Proceed(p, k, IF ~Exists(h[p].q) THEN Goto(h[p], "resetClearActive")
                         ELSE [h[p] EXCEPT !.d = ride.d,
                                  !.pc = IF ride.st = "en_route" THEN "resetCancelGet"
                                         ELSE "resetClear"])

\* lifecycle.cancel called by resetRider: its own read of the ride (the driver
\* is the one already read: create alone writes a ride's rider and driver) ...
ResetCancelRead(p, k) ==
    /\ At(p, "resetCancelGet")
    /\ UNCHANGED store
    /\ Proceed(p, k, IF ~Exists(h[p].q) THEN Idle
                     ELSE IF asg[h[p].q].st # "en_route" THEN Goto(h[p], "resetClear")
                     ELSE [h[p] EXCEPT !.pc = "resetCancelRun", !.r = asg[h[p].q].r])

\* ... and its script.  0 and -2 are ErrAssignmentStateConflict.
ResetCancelRun(p, k) ==
    /\ At(p, "resetCancelRun")
    /\ LET q == h[p].q
           result == CancelResult(q, h[p].r, h[p].d)
       IN  /\ CancelScript(q, h[p].r, h[p].d)
           /\ Proceed(p, k, IF result = 1 THEN NextRider(h[p])
                            ELSE IF result \in {0, -2} THEN Goto(h[p], "resetClear")
                            ELSE Idle)

ResetClearActive(p, k) ==
    /\ At(p, "resetClearActive")
    /\ ClearActiveScript(DemoRiders[h[p].n], h[p].q)
    /\ Proceed(p, k, NextRider(h[p]))

ResetClear(p, k) ==
    /\ At(p, "resetClear")
    /\ ClearResetScript(DemoRiders[h[p].n], h[p].d, h[p].q)
    /\ Proceed(p, k, NextRider(h[p]))

ResetStep(p, k) ==
    \/ ResetReadKey(p, k)     \/ ResetReadRide(p, k)   \/ ResetCancelRead(p, k)
    \/ ResetCancelRun(p, k)   \/ ResetClearActive(p, k) \/ ResetClear(p, k)
=============================================================================
