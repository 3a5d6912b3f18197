\* Three concurrent requests: business requests, catch-up and retry passes;
\* one statement fails or one Worker dies.
SPECIFICATION FairSpec
CONSTANTS
    e1 = e1
    e2 = e2
    NULL = NULL
    Events = {e1, e2}
    category <- MCcategory
    Preferences <- MCPreferences
    MaxAttempts = 2
    MaxRequests = 3
    MaxFaults = 1
INVARIANTS
    TypeOK
    InAppOnce
    SentOnceAndTold
    MandatoryReachesEveryChannel
PROPERTIES
    ClaimedEventMovesOn
CHECK_DEADLOCK FALSE
