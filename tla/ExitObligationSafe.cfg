\* Two attempts of two lots and a restart; lookups lag and routes overlap.
SPECIFICATION Spec
CONSTANTS
    MaxAttempts = 2
    Size = 2
    MaxRestarts = 1
    Lookups = {poll}
INVARIANTS
    TypeOK
    RowsOwnOrders
    OneWorkingOrder
    OneAwaited
    LateFillsOnly
PROPERTY SentOnce
CHECK_DEADLOCK FALSE
