SPECIFICATION FairSpec
CONSTANTS
    Daemons = {d1, d2}
    NoOne = NoOne
    Ttl = 3
    Interval = 1
    Tolerated = 1
    MaxLost = 1
INVARIANTS
    TypeOK
    OneRunnerUnlessFaulty
    LeaseInv
PROPERTIES
    VacancyIsFilled
