CONSTANTS
    d1 = d1
    d2 = d2
    Drivers = {d1, d2}
    MaxPages = 3
SPECIFICATION Spec
CHECK_DEADLOCK FALSE
INVARIANTS TypeOK ScanComplete
