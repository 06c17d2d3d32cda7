\* Failing writes and a restart: what each process quotes and sells at.
SPECIFICATION Spec
CONSTANTS
    MaxPrice = 2
    Breakevens = {0, 2}
    Givebacks = {1}
    MaxCrashes = 1
    FlushMayFail = TRUE
INVARIANTS TypeOK GivebackRemembered FloorIsEarned
PROPERTIES FloorNeverFalls OrdinaryNeverUndercuts ArchiverKeepsArchived
