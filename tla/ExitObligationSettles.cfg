\* Two attempts and a restart: an order that ends without executions is settled.
SPECIFICATION FairSpec
CONSTANTS
    MaxAttempts = 2
    Size = 1
    MaxRestarts = 1
    Lookups = {poll}
PROPERTY SettlesOrOverwritten
CHECK_DEADLOCK FALSE
