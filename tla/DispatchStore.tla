--------------------------- MODULE DispatchStore ---------------------------
(***************************************************************************)
(* The Redis keys the dispatch service shares between its HTTP and         *)
(* WebSocket handlers, and the commands and Lua scripts that change them.  *)
(* Redis runs a command or a script atomically, so each of them is one     *)
(* action on these variables; what a script returns is an operator of the  *)
(* same name with the suffix Result, evaluated before the effect.          *)
(*                                                                         *)
(* A key that does not exist is None (status: "offline"; assignment: the   *)
(* record NoRide).  Time-to-live is abstracted to expiry at any moment the *)
(* code's TTLs allow (the actions at the end of the module).               *)
(***************************************************************************)
EXTENDS Integers

CONSTANTS
    Drivers, Riders, Requests,  \* ids of drivers, riders and ride requests
    Sessions,                   \* browser sessions that claim the demo lease
    DemoDrivers,                \* the drivers whose locks a demo reset clears
    Places,                     \* positions a driver or a pickup can have
    Distance,                   \* Distance[<<x, y>>]: kilometres between places
    ArrivalThreshold,           \* how close counts as arrived
    None                        \* no value: an absent key, an empty id

VARIABLES
    status,        \* driver:status:<id>          [Drivers -> DriverStatus]
    lock,          \* dispatch:lock:<id>          [Drivers -> Requests or None]
    asg,           \* dispatch:assignment:<id>    [Requests -> Assignment]
    riderActive,   \* dispatch:rider-active:<id>  [Riders -> Requests or None]
    driverActive,  \* dispatch:driver-active:<id> [Drivers -> Requests or None]
    geo,           \* locations                   [Drivers -> Places or None]
    lease          \* demo:session:lease          Sessions or None

store == <<status, lock, asg, riderActive, driverActive, geo, lease>>

ASSUME NoneAssumption ==
    None \notin Drivers \cup Riders \cup Requests \cup Sessions \cup Places
ASSUME DistanceAssumption ==
    Distance \in [Places \X Places -> Nat] /\ ArrivalThreshold \in Nat
ASSUME DemoDriversAssumption == DemoDrivers \subseteq Drivers

DriverStatus == {"available", "busy", "offline"}

\* An assignment hash.  "none" was never created; "expired" was, and its TTL
\* has passed: both are absent for Redis.
Assignment ==
    [st : {"none", "en_route", "cancelled", "arrived", "expired"},
     r : Riders \cup {None}, d : Drivers \cup {None}, x : Places \cup {None}]
NoRide  == [st |-> "none", r |-> None, d |-> None, x |-> None]
Expired == [NoRide EXCEPT !.st = "expired"]

Exists(q) == asg[q].st \notin {"none", "expired"}
IsOpen(q) == asg[q].st \in {"en_route", "arrived"}

StoreTypeOK ==
    /\ status \in [Drivers -> DriverStatus]
    /\ lock \in [Drivers -> Requests \cup {None}]
    /\ asg \in [Requests -> Assignment]
    /\ riderActive \in [Riders -> Requests \cup {None}]
    /\ driverActive \in [Drivers -> Requests \cup {None}]
    /\ geo \in [Drivers -> Places \cup {None}]
    /\ lease \in Sessions \cup {None}

\* No ride yet; every driver is available or offline, anywhere or nowhere.
StoreInit ==
    /\ status \in [Drivers -> {"available", "offline"}]
    /\ lock = [d \in Drivers |-> None]
    /\ asg = [q \in Requests |-> NoRide]
    /\ riderActive = [r \in Riders |-> None]
    /\ driverActive = [d \in Drivers |-> None]
    /\ geo \in [Drivers -> Places \cup {None}]
    /\ lease = None

-----------------------------------------------------------------------------
(* Driver status: DriverService.                                           *)

SetStatus(d, s) ==
    /\ status' = [status EXCEPT ![d] = s]
    /\ UNCHANGED <<lock, asg, riderActive, driverActive, geo, lease>>

SetBusyScript(d) ==
    /\ status' = [status EXCEPT ![d] = IF @ = "available" THEN "busy" ELSE @]
    /\ UNCHANGED <<lock, asg, riderActive, driverActive, geo, lease>>

(* The GEO set: GeoService.                                                *)

GeoAdd(d, x) ==
    /\ geo' = [geo EXCEPT ![d] = x]
    /\ UNCHANGED <<status, lock, asg, riderActive, driverActive, lease>>

-----------------------------------------------------------------------------
(* Driver locks: LockManager.  The token is the request id.                *)

SetNX(d, q) ==
    /\ lock' = [lock EXCEPT ![d] = IF @ = None THEN q ELSE @]
    /\ UNCHANGED <<status, asg, riderActive, driverActive, geo, lease>>

\* Whether Unlock ends with ErrLockNotHeld; a missing lock is ErrLockExpired.
LockNotHeld(d, q) == lock[d] \notin {q, None}

UnlockScript(d, q) ==
    /\ lock' = [lock EXCEPT ![d] = IF @ = q THEN None ELSE @]
    /\ UNCHANGED <<status, asg, riderActive, driverActive, geo, lease>>

-----------------------------------------------------------------------------
(* Ride lifecycle: the scripts of lifecycleManager.                        *)

\* Mutant: the script does not look at the driver's key.
CreateResultNoDriver(q, r, d) ==
    IF riderActive[r] # None /\ IsOpen(riderActive[r]) THEN 0
    ELSE IF Exists(q) THEN -1
    ELSE 1

CreateResult(q, r, d) ==
    IF riderActive[r] # None /\ IsOpen(riderActive[r]) THEN 0
    ELSE IF Exists(q) THEN -1
    ELSE IF driverActive[d] \notin {None, q} THEN -2
    ELSE 1

CreateScript(q, r, d, x) ==
    IF CreateResult(q, r, d) = 1
    THEN /\ asg' = [asg EXCEPT ![q] =
                       [st |-> "en_route", r |-> r, d |-> d, x |-> x]]
         /\ riderActive' = [riderActive EXCEPT ![r] = q]
         /\ driverActive' = [driverActive EXCEPT ![d] = q]
         /\ UNCHANGED <<status, lock, geo, lease>>
    ELSE UNCHANGED store

\* Mutant: the request must still hold the driver's lock.
CancelResultNeedsLock(q, r, d) ==
    IF ~Exists(q) THEN -1
    ELSE IF asg[q].st # "en_route" THEN 0
    ELSE IF asg[q].d # d \/ asg[q].r # r THEN -2
    ELSE IF driverActive[d] # q THEN -3
    ELSE IF lock[d] # q THEN -4
    ELSE 1

CancelResult(q, r, d) ==
    IF ~Exists(q) THEN -1
    ELSE IF asg[q].st # "en_route" THEN 0
    ELSE IF asg[q].d # d \/ asg[q].r # r THEN -2
    ELSE IF driverActive[d] # q THEN -3
    ELSE IF lock[d] \notin {None, q} THEN -4
    ELSE 1

\* Mutants: the driver's status is written to the assignment; the rider's key
\* is not deleted.
CancelScriptWrongHash(q, r, d) ==
    IF CancelResult(q, r, d) = 1
    THEN /\ asg' = [asg EXCEPT ![q].st = "available"]
         /\ lock' = [lock EXCEPT ![d] = None]
         /\ riderActive' = [riderActive EXCEPT ![r] = IF @ = q THEN None ELSE @]
         /\ driverActive' = [driverActive EXCEPT ![d] = None]
         /\ UNCHANGED <<status, geo, lease>>
    ELSE UNCHANGED store
CancelScriptKeepsRider(q, r, d) ==
    IF CancelResult(q, r, d) = 1
    THEN /\ status' = [status EXCEPT ![d] = IF @ = "busy" THEN "available" ELSE @]
         /\ asg' = [asg EXCEPT ![q].st = "cancelled"]
         /\ lock' = [lock EXCEPT ![d] = None]
         /\ driverActive' = [driverActive EXCEPT ![d] = None]
         /\ UNCHANGED <<riderActive, geo, lease>>
    ELSE UNCHANGED store

CancelScript(q, r, d) ==
    IF CancelResult(q, r, d) = 1
    THEN /\ status' = [status EXCEPT ![d] = IF @ = "busy" THEN "available" ELSE @]
         /\ asg' = [asg EXCEPT ![q].st = "cancelled"]
         /\ lock' = [lock EXCEPT ![d] = None]
         /\ riderActive' = [riderActive EXCEPT ![r] = IF @ = q THEN None ELSE @]
         /\ driverActive' = [driverActive EXCEPT ![d] = None]
         /\ UNCHANGED <<geo, lease>>
    ELSE UNCHANGED store

\* Mutant: the script does not look at the state of the ride.
ArriveResultNoState(q, r, d) ==
    IF ~Exists(q) THEN -1
    ELSE IF status[d] # "busy" THEN -2
    ELSE 1

ArriveResult(q, r, d) ==
    IF ~Exists(q) THEN -1
    ELSE IF asg[q].st # "en_route" THEN 0
    ELSE IF riderActive[r] # q \/ driverActive[d] # q \/ status[d] # "busy" THEN -2
    ELSE 1

ArriveScript(q, r, d) ==
    /\ asg' = [asg EXCEPT ![q].st = IF ArriveResult(q, r, d) = 1 THEN "arrived" ELSE @]
    /\ UNCHANGED <<status, lock, riderActive, driverActive, geo, lease>>

\* refreshActiveDriverScript returns 1.
DriverIsActive(d) ==
    LET q == driverActive[d] IN q # None /\ asg[q].d = d /\ IsOpen(q)

\* Mutant: the script only extends the status key, it does not set it.
RefreshScriptExtends(d) == d \in Drivers /\ UNCHANGED store

RefreshScript(d) ==
    /\ status' = [status EXCEPT ![d] = IF DriverIsActive(d) THEN "busy" ELSE @]
    /\ UNCHANGED <<lock, asg, riderActive, driverActive, geo, lease>>

ClearActiveScript(r, q) ==
    /\ riderActive' = [riderActive EXCEPT ![r] = IF @ = q THEN None ELSE @]
    /\ UNCHANGED <<status, lock, asg, driverActive, geo, lease>>

\* Mutants: the keys are deleted whatever they hold; the driver's key is kept.
ClearResetScriptBlind(r, d, q) ==
    /\ riderActive' = [riderActive EXCEPT ![r] = IF q # None THEN None ELSE @]
    /\ driverActive' = [driverActive EXCEPT ![d] = IF q # None THEN None ELSE @]
    /\ UNCHANGED <<status, lock, asg, geo, lease>>
ClearResetScriptKeepsDriver(r, d, q) ==
    /\ riderActive' = [riderActive EXCEPT ![r] = IF @ = q THEN None ELSE @]
    /\ UNCHANGED <<status, lock, asg, driverActive, geo, lease>>

ClearResetScript(r, d, q) ==
    /\ riderActive' = [riderActive EXCEPT ![r] = IF @ = q THEN None ELSE @]
    /\ driverActive' = [driverActive EXCEPT ![d] = IF @ = q THEN None ELSE @]
    /\ UNCHANGED <<status, lock, asg, geo, lease>>

-----------------------------------------------------------------------------
(* The demo session lease: demoResetLeaseScript.                           *)

LeaseRefused(s, force) == lease \notin {None, s} /\ ~force

ResetLeaseScript(s, force, clearLocks) ==
    IF LeaseRefused(s, force)
    THEN UNCHANGED store
    ELSE /\ lease' = s
         /\ lock' = [d \in Drivers |->
                        IF clearLocks /\ d \in DemoDrivers THEN None ELSE lock[d]]
         /\ UNCHANGED <<status, asg, riderActive, driverActive, geo>>

-----------------------------------------------------------------------------
(* Keys that expire.  create and arrive set the assignment's deadline no   *)
(* later than the rider's and the driver's key (24 h, same script), and    *)
(* cancel deletes those keys, so a key expires only once the assignment it *)
(* names has.                                                              *)

LockExpires(d) ==
    /\ lock[d] # None
    /\ lock' = [lock EXCEPT ![d] = None]
    /\ UNCHANGED <<status, asg, riderActive, driverActive, geo, lease>>

StatusExpires(d) == status[d] # "offline" /\ SetStatus(d, "offline")

AssignmentExpires(q) ==
    /\ Exists(q)
    /\ asg' = [asg EXCEPT ![q] = Expired]
    /\ UNCHANGED <<status, lock, riderActive, driverActive, geo, lease>>

Dangling(q) == q # None /\ asg[q].st = "expired"

RiderKeyExpires(r) ==
    /\ Dangling(riderActive[r])
    /\ riderActive' = [riderActive EXCEPT ![r] = None]
    /\ UNCHANGED <<status, lock, asg, driverActive, geo, lease>>

DriverKeyExpires(d) ==
    /\ Dangling(driverActive[d])
    /\ driverActive' = [driverActive EXCEPT ![d] = None]
    /\ UNCHANGED <<status, lock, asg, riderActive, geo, lease>>

LeaseExpires ==
    /\ lease # None
    /\ lease' = None
    /\ UNCHANGED <<status, lock, asg, riderActive, driverActive, geo>>
=============================================================================
