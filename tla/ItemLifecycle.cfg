SPECIFICATION Spec
CONSTANTS
    o1 = o1
    i1 = i1
    i2 = i2
    l1 = l1
    l2 = l2
    r1 = r1
    r2 = r2
    r3 = r3
    NULL = NULL
    Orders = {o1}
    Items = {i1, i2}
    Listings = {l1, l2}
    Requests = {r1, r2, r3}
    order_of <- MCOrderOf
    listing_of <- MCListingOf
    quantity <- MCQuantity
    initialStock <- MCInitialStock
    Backordered <- MCBackordered
    Deltas <- MCDeltas
    MaxFaults = 1
SYMMETRY Symmetry
INVARIANTS
    TypeOK
    NoStageSkipped
    UndisturbedOrderIsConsistent
CHECK_DEADLOCK FALSE
