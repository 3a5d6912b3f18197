\* Two holds and three concurrent confirmations and transitions, one of
\* which may die.
SPECIFICATION FairSpec
CONSTANTS
    s1 = s1
    s2 = s2
    MaxHolds = 2
    Slots = {s1, s2}
    Windows <- MCWindows
    Units = {1}
    Capacity = 1
    Closable = {s1}
    booking_mode = "instant"
    MaxRequests = 3
    MaxCrashes = 1
    NULL = NULL
INVARIANTS
    TypeOK
    HoldSpentOnce
    LiveBookingKeepsItsPlace
PROPERTIES
    HoldsNeverOversell
    CapacityComesBack
CHECK_DEADLOCK FALSE
