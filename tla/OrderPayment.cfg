\* Three concurrent requests of any kind, one of which may die, and a debit of
\* each order whose balance cannot be read back.
SPECIFICATION FairSpec
CONSTANTS
    u1 = u1
    o1 = o1
    o2 = o2
    l1 = l1
    t1 = t1
    t2 = t2
    NULL = NULL
    Users = {u1}
    Orders = {o1, o2}
    Listings = {l1}
    TxRefs = {t1, t2}
    Requests = {r1, r2, r3}
    ReferenceIds <- MCReferenceIds
    OpeningBalance <- MCOpeningBalance
    owner <- MCowner
    total <- MCtotal
    quantity <- MCquantity
    initialStock <- MCinitialStock
    tx_order <- MCtx_order
    tx_user <- MCtx_user
    tx_amount <- MCtx_amount
    MaxCrashes = 1
    MaxUnread = 1
INVARIANTS
    TypeOK
    ChargedAtMostOnce
    MoneyAndOrderAgree
    EffectsApplyOnce
PROPERTIES
    PaymentTakesEffect
    ImplementsAtomicPayment
CHECK_DEADLOCK FALSE
