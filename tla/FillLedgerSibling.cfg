\* Two trades are enough: one before the router's callback and one after it.
SPECIFICATION Spec
CONSTANTS
    Prov = Prov
    None = None
    MaxTrades = 2
INVARIANT SourcesCollapse
