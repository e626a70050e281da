CONSTANTS
    d1 = d1
    r1 = r1
    dA = dA
    rA = rA
    q1 = q1
    Drivers = {d1}
    Riders = {r1}
    Conns = {dA, rA}
    Requests = {q1}
    Owner <- OwnerOf
    SendBuffer = 1
    BroadcastBuffer = 1
    MaxUpdates = 1
    Quiet = {}
    None = None
SPECIFICATION ProcessFairSpec
CHECK_DEADLOCK FALSE
INVARIANTS ProcessTypeOK RedisClosedLast
PROPERTIES SignalEnds
