\* Three entries into one side of a market: one more than the re-quotes allow.
SPECIFICATION Spec
CONSTANTS
    e1 = e1
    e2 = e2
    e3 = e3
    Entries = {e1, e2, e3}
    NoEntry = NoEntry
    MaxRequotes = 1
INVARIANTS TypeOK OneOpenEntry PendingWasTimedOut RequoteBudget
CHECK_DEADLOCK FALSE
