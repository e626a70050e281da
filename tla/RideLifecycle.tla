--------------------------- MODULE RideLifecycle ---------------------------
(***************************************************************************)
(* What the dispatch service promises about rides, with no Redis keys, no  *)
(* locks and no handlers: a ride is created once, for a rider and a driver *)
(* that have no other ride in progress; it is cancelled while en route or  *)
(* arrives; an arrived ride stays in progress until it is closed.          *)
(***************************************************************************)
CONSTANTS Drivers, Riders, Requests, None

VARIABLES phase, rider, driver     \* functions on Requests

vars == <<phase, rider, driver>>

Phases == {"none", "en_route", "arrived", "cancelled", "closed", "expired"}

TypeOK ==
    /\ phase \in [Requests -> Phases]
    /\ rider \in [Requests -> Riders \cup {None}]
    /\ driver \in [Requests -> Drivers \cup {None}]

InProgress(q) == phase[q] \in {"en_route", "arrived"}

Init ==
    /\ phase = [q \in Requests |-> "none"]
    /\ rider = [q \in Requests |-> None]
    /\ driver = [q \in Requests |-> None]

Assign(q, r, d) ==
    /\ phase[q] = "none"
    /\ \A o \in Requests : InProgress(o) => rider[o] # r /\ driver[o] # d
    /\ phase' = [phase EXCEPT ![q] = "en_route"]
    /\ rider' = [rider EXCEPT ![q] = r]
    /\ driver' = [driver EXCEPT ![q] = d]

Move(q, from, to) ==
    /\ phase[q] = from
    /\ phase' = [phase EXCEPT ![q] = to]
    /\ UNCHANGED <<rider, driver>>

Cancel(q) == Move(q, "en_route", "cancelled")
Arrive(q) == Move(q, "en_route", "arrived")
Close(q)  == Move(q, "arrived", "closed")

\* The record of a ride is dropped 24 hours after its last change.
Expire(q) ==
    /\ phase[q] \notin {"none", "expired"}
    /\ phase' = [phase EXCEPT ![q] = "expired"]
    /\ rider' = [rider EXCEPT ![q] = None]
    /\ driver' = [driver EXCEPT ![q] = None]

Next == \E q \in Requests :
    \/ \E r \in Riders, d \in Drivers : Assign(q, r, d)
    \/ Cancel(q) \/ Arrive(q) \/ Close(q) \/ Expire(q)

Spec == Init /\ [][Next]_vars

\* Two rides in progress share neither a driver nor a rider.
Exclusive ==
    \A q1, q2 \in Requests :
        q1 # q2 /\ InProgress(q1) /\ InProgress(q2)
            => driver[q1] # driver[q2] /\ rider[q1] # rider[q2]
=============================================================================
