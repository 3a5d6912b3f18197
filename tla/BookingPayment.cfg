\* Three concurrent requests of any kind on two bookings; one Worker may
\* die, or one statement fail.
SPECIFICATION FairSpec
CONSTANTS
    u1 = u1
    b1 = b1
    b2 = b2
    NULL = NULL
    Users = {u1}
    Bookings = {b1, b2}
    ReferenceIds <- MCReferenceIds
    OpeningBalance <- MCOpeningBalance
    MaxRequests = 3
    customer <- MCcustomer
    booking_mode <- MCbooking_mode
    total_price <- MCtotal_price
    deposit_percentage <- MCdeposit_percentage
    Percentages = {50, 100}
    flat_fee = 1
    MaxFaults = 1
INVARIANTS
    TypeOK
    MoneyMovesOnceAndShows
PROPERTIES
    OnlyLegalMoves
    CancellationPaysOut
    ImplementsAtomicBooking
CHECK_DEADLOCK FALSE
