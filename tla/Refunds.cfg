\* Three concurrent refunds, settlements or charge payments of one item;
\* one Worker may die and one statement may fail after money moved.
SPECIFICATION FairSpec
CONSTANTS
    u1 = u1
    o1 = o1
    i1 = i1
    NULL = NULL
    Users = {u1}
    Orders = {o1}
    Items = {i1}
    Requests = {r1, r2, r3}
    ReferenceIds <- MCReferenceIds
    OpeningBalance <- MCOpeningBalance
    order_of <- MCorder_of
    owner <- MCowner
    total <- MCtotal
    line_total <- MCline_total
    RefundAmounts = {2}
    FinalPrices = {1, 2, 3, 5}
    MaxFulfilments = 1
    MaxCrashes = 1
    MaxLateFailures = 1
INVARIANTS
    TypeOK
    RefundsWithinCaptured
    RefundRowsTellTheTruth
    SettlementIsSound
PROPERTIES
    SettlementCompletes
CHECK_DEADLOCK FALSE
