CONSTANTS
    d1 = d1
    r1 = r1
    dA = dA
    dB = dB
    rA = rA
    Drivers = {d1}
    Riders = {r1}
    Conns = {dA, dB, rA}
    Owner <- OwnerOf
    SendBuffer = 1
    BroadcastBuffer = 1
    MaxUpdates = 1
    Quiet = {dB}
    None = None
SPECIFICATION FairSpec
CHECK_DEADLOCK FALSE
INVARIANTS TypeOK RegistryExact
PROPERTIES ConnectionEnds
