SPECIFICATION Spec
CONSTANTS
    Requests = {s1}
    Providers = {p1, p2}
    MaxQuotes = 2
    Calls = {c1}
    price <- MCPrice
    fee <- MCFee
    Charges <- MCCharges
    MaxCalls = 6
    MaxCrashes = 1
    NULL = NULL
SYMMETRY Symmetry
INVARIANT
    OneAcceptedQuote
CHECK_DEADLOCK FALSE
