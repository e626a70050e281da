CONSTANTS
    d1 = d1
    r1 = r1
    dA = dA
    dB = dB
    rA = rA
    Drivers = {d1}
    Riders = {r1}
    Conns = {dA, rA}
    Owner <- OwnerOf
    SendBuffer = 2
    BroadcastBuffer = 2
    MaxUpdates = 2
    Quiet = {}
    None = None
SPECIFICATION Spec
CHECK_DEADLOCK FALSE
INVARIANTS ObservedAccepted AtMostOneLate
PROPERTIES InOrder
