SPECIFICATION CheckoutSpec
CONSTANTS
    l1 = l1
    l2 = l2
    c1 = c1
    c2 = c2
    NULL = NULL
    Listings = {l1, l2}
    Calls = {c1, c2}
    price <- MCPrice
    vendor <- MCVendor
    sellerFee = 3
    percent = 50
    maxDiscount = 9
    minOrder = 10
    usageLimit = 1
    MaxRows = 2
    Quantities = {1}
    MaxQuantity = 2
    MaxOrders = 2
    MaxCalls = 5
    MaxDeaths = 1
SYMMETRY Symmetry
INVARIANTS
    CheckoutTypeOK
    EveryUseIsAccountedFor
    UndisturbedCartLosesNothing
CHECK_DEADLOCK FALSE
