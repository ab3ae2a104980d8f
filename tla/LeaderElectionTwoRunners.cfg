SPECIFICATION Spec
CONSTANTS
    Daemons = {d1, d2, d3}
    NoOne = NoOne
    Ttl = 3
    Interval = 1
    Tolerated = 1
    MaxLost = 0
SYMMETRY Symmetry
INVARIANTS
    OneRunnerOnTime
