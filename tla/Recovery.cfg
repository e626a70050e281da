SPECIFICATION FairSpec
CONSTANTS
  d1 = d1 d2 = d2 r1 = r1 r2 = r2 here = here there = there
  None = None
  Drivers = {d1}
  Riders = {r1}
  Requests = {q1, q2}
  Sessions = {s1}
  DemoDrivers = {d1}
  Places = {here, there}
  Distance <- MCDistance
  ArrivalThreshold = 0
  Radii = {0}
  Procs = {p1, p2}
  DemoRiders <- MCOneDemoRider
  Kinds = {"dispatch", "location", "cancel", "arrive", "status"}
  Faults = {"status", "settledLock"}
PROPERTIES DriverBecomesBusy ClaimsRespectRides
