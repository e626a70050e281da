SPECIFICATION Spec
CONSTANTS
  d1 = d1 d2 = d2 r1 = r1 r2 = r2 here = here there = there
  None = None
  Drivers = {d1}
  Riders = {r1, r2}
  Requests = {q1, q2}
  Sessions = {s1}
  DemoDrivers = {d1}
  Places = {here}
  Distance <- MCDistance
  ArrivalThreshold = 0
  Radii = {0}
  Procs = {p1, p2}
  DemoRiders <- MCOneDemoRider
  Kinds = {"dispatch", "cancel", "arrive", "location", "geo"}
  Faults = {"retry", "lost", "error", "abort", "lock", "status", "record"}
INVARIANTS TypeOK RidesExclusive
PROPERTY ImplementsRideLifecycle
SYMMETRY Symmetry
