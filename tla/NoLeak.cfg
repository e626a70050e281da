SPECIFICATION Spec
CONSTANTS
  d1 = d1 d2 = d2 r1 = r1 r2 = r2 here = here there = there
  None = None
  Drivers = {d1, d2}
  Riders = {r1, r2}
  Requests = {q1, q2}
  Sessions = {s1}
  DemoDrivers = {d1}
  Places = {here}
  Distance <- MCDistance
  ArrivalThreshold = 0
  Radii = {0}
  Procs = {p1, p2}
  DemoRiders <- MCOneDemoRider
  Kinds = {"dispatch", "cancel", "arrive", "location"}
  Faults = {"status"}
INVARIANTS BusyAccounted ClaimExclusive
SYMMETRY Symmetry
