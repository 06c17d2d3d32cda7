\* Three keys, one lookup a tick, and a back-off that leaves room for all three.
SPECIFICATION FairSpec
CONSTANTS
    k1 = k1
    k2 = k2
    k3 = k3
    Keys = {k1, k2, k3}
    MaxKeys = 2
    MaxLookups = 1
    Interval = 2
    LookupTime = 1
    BackoffBase = 1
    BackoffMax = 6
    MaxFailures = 4
    Overflows = FALSE
    MaxChanges = 2
INVARIANT TypeOK
PROPERTIES EveryKeyServed WokenGoFirst
CHECK_DEADLOCK FALSE
