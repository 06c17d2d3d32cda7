\* A late reply names an order that is already settled.
SPECIFICATION FairSpec
CONSTANTS
    MaxAttempts = 2
    Size = 1
    MaxRestarts = 0
    Lookups = {poll}
PROPERTY DeadOrderReleases
CHECK_DEADLOCK FALSE
