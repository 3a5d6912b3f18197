SPECIFICATION ShipmentSpec
CONSTANTS
    s1 = s1
    d1 = d1
    d2 = d2
    c1 = c1
    c2 = c2
    NULL = NULL
    Shipments = {s1}
    Drivers = {d1, d2}
    Calls = {c1, c2}
    MaxAttempts = 2
    MaxUnplanned = 1
SYMMETRY Symmetry
INVARIANTS
    ShipmentTypeOK
    DeliveredIsProven
PROPERTIES
    DispatchedOnce
CHECK_DEADLOCK FALSE
