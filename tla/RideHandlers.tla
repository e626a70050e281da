---------------------------- MODULE RideHandlers ----------------------------
(***************************************************************************)
(* The handlers that act on an existing ride or on a driver:               *)
(*   POST /dispatch/cancel   Dispatcher.CancelAssignment                   *)
(*   POST /dispatch/arrive   Dispatcher.ArriveAssignment                   *)
(*   POST /driver/location and the WebSocket location_update message       *)
(*                           Dispatcher.UpdateDriverLocation               *)
(*   POST /driver/status     DriverService.SetStatus                       *)
(*   POST /geo/add           GeoService.AddLocation                        *)
(* A WebSocket heartbeat is a single EXPIRE of the status key: it delays   *)
(* an expiry that the model lets happen at any time, so it is no action.   *)
(***************************************************************************)
EXTENDS Handlers

\* lifecycle.cancel reads the ride and goes on only if it is en_route, with
\* the driver and the rider it read.
StartCancel(p, q) ==
    /\ "cancel" \in Kinds
    /\ asg[q].st = "en_route"
    /\ Begin(p, [Idle EXCEPT !.pc = "cancelRun", !.q = q, !.r = asg[q].r, !.d = asg[q].d])
    /\ UNCHANGED store

RunCancel(p, k) ==
    /\ At(p, "cancelRun")
    /\ CancelScript(h[p].q, h[p].r, h[p].d)
    /\ Proceed(p, k, Idle)

-----------------------------------------------------------------------------

StartArrive(p, q) ==
    /\ "arrive" \in Kinds
    /\ asg[q].st = "en_route"
    /\ Begin(p, [Idle EXCEPT !.pc = "arriveGeo", !.q = q, !.r = asg[q].r,
                             !.d = asg[q].d, !.x = asg[q].x])
    /\ UNCHANGED store

\* GetLocation and the distance check: ErrLocationNotFound, ErrDriverTooFar.
CheckPosition(p, k) ==
    /\ At(p, "arriveGeo")
    /\ UNCHANGED store
    /\ LET y == geo[h[p].d]
       IN  Proceed(p, k, IF y # None /\ Distance[<<y, h[p].x>>] <= ArrivalThreshold
                         THEN [h[p] EXCEPT !.pc = "arriveRun", !.x = None]
                         ELSE Idle)

RunArrive(p, k) ==
    /\ At(p, "arriveRun")
    /\ ArriveScript(h[p].q, h[p].r, h[p].d)
    /\ Proceed(p, k, Idle)

-----------------------------------------------------------------------------

StartLocationUpdate(p, d, x) ==
    /\ "location" \in Kinds
    /\ Begin(p, [Idle EXCEPT !.pc = "locRefresh", !.d = d])
    /\ GeoAdd(d, x)

RefreshActiveDriver(p, k) ==
    /\ At(p, "locRefresh")
    /\ RefreshScript(h[p].d)
    /\ Proceed(p, k, IF DriverIsActive(h[p].d) THEN Idle ELSE Goto(h[p], "locBeat"))

\* Heartbeat: EXPIRE on the status key tells whether the driver is offline.
Heartbeat(p, k) ==
    /\ At(p, "locBeat")
    /\ UNCHANGED store
    /\ Proceed(p, k, IF status[h[p].d] = "offline" THEN Goto(h[p], "locAvail") ELSE Idle)

BringOnline(p, k) ==
    /\ At(p, "locAvail")
    /\ SetStatus(h[p].d, "available")
    /\ Proceed(p, k, Idle)

-----------------------------------------------------------------------------
(* Handlers that make a single Redis call.                                 *)

SetDriverStatus(d, s) ==
    /\ "status" \in Kinds
    /\ SetStatus(d, s)
    /\ UNCHANGED h

AddLocation(d, x) ==
    /\ "geo" \in Kinds
    /\ GeoAdd(d, x)
    /\ UNCHANGED h

RideStep(p, k) ==
    \/ RunCancel(p, k)   \/ CheckPosition(p, k)  \/ RunArrive(p, k)
    \/ RefreshActiveDriver(p, k)  \/ Heartbeat(p, k)  \/ BringOnline(p, k)
=============================================================================
