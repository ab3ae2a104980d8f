SPECIFICATION FairSpec
CONSTANTS
    MaxPrompts = 2
    MaxFaults = 2
    MaxDaemons = 2
    Plain = {s}
    Debounced = {t}
    Null = Null
INVARIANTS TypeOK LossesAreKnown InOnePlace LanesAreChains SessionOrder
PROPERTIES LanesMove
CHECK_DEADLOCK FALSE
