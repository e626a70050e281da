----------------------------- MODULE MCDispatch -----------------------------
(* Instances of DispatchService for TLC. *)
EXTENDS DispatchService

CONSTANTS d1, d2, r1, r2, here, there

\* Two places, three kilometres apart.
MCDistance == [xy \in Places \X Places |-> IF xy[1] = xy[2] THEN 0 ELSE 3]
MCDemoRiders == <<r1, r2>>
MCOneDemoRider == <<r1>>

Symmetry ==
    Permutations(Drivers) \cup Permutations(Riders)
    \cup Permutations(Requests) \cup Permutations(Procs)
SymmetryWithDemo == Permutations(Requests) \cup Permutations(Procs)
=============================================================================
