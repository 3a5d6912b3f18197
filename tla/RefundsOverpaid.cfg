\* Two refunds of one order, nothing failing.
SPECIFICATION Spec
CONSTANTS
    u1 = u1
    o1 = o1
    i1 = i1
    NULL = NULL
    Users = {u1}
    Orders = {o1}
    Items = {i1}
    Requests = {r1, r2}
    ReferenceIds <- MCReferenceIds
    OpeningBalance <- MCOpeningBalance
    order_of <- MCorder_of
    owner <- MCowner
    total <- MCtotal
    line_total <- MCline_total
    RefundAmounts = {2}
    FinalPrices = {1, 2, 4}
    MaxFulfilments = 0
    MaxCrashes = 0
    MaxLateFailures = 0
INVARIANTS
    RefundedWithinPaid
CHECK_DEADLOCK FALSE
