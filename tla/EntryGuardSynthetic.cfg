SPECIFICATION Spec
CONSTANTS
    e1 = e1
    e2 = e2
    Entries = {e1, e2}
    NoEntry = NoEntry
    MaxRequotes = 1
INVARIANT SubmittedWasSent
CHECK_DEADLOCK FALSE
