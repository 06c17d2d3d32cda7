\* One order of at most three trades, on one loop or with the websocket thread.
SPECIFICATION FairSpec
CONSTANTS
    Prov = Prov
    None = None
    MaxTrades = 3
INVARIANTS
    TypeOK
    OneRecordPerLot
    NeverCreditedTwice
PROPERTIES
    LedgerConverges
    PositionConverges
