SPECIFICATION AffiliateSpec
CONSTANTS
    u1 = u1
    o1 = o1
    o2 = o2
    i1 = i1
    i2 = i2
    i3 = i3
    f1 = f1
    f2 = f2
    c1 = c1
    c2 = c2
    NULL = NULL
    Affiliates = {f1, f2}
    Customers = {u1}
    Orders = {o1, o2}
    Items = {i1, i2, i3}
    Calls = {c1, c2}
    owner <- MCOwner
    order_of <- MCOrderOf
    line_total <- MCLineTotal
    rate_bps = 500
    payout_threshold = 2
    MaxClicks = 2
    MaxPayouts = 2
    MaxCrashes = 1
SYMMETRY Symmetry
INVARIANTS
    AffiliateTypeOK
    UndisturbedAffiliateAddsUp
CHECK_DEADLOCK FALSE
