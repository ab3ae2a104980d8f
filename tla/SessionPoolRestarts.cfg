SPECIFICATION FairSpec
CONSTANTS
    Sessions = {a, b}
    Observers = {}
    TaskNames = {}
    Max = 1
    Reserved = 0
    Callers = {"prompt", "restart", "gap"}
CONSTRAINT NoClash
INVARIANTS
    StartsAccountedFor
PROPERTIES
    NoStrandedStart
    OnlyRestartsOverfill
    StartsSettle
