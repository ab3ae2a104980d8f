SPECIFICATION Spec
CONSTANTS
    Boots = {b1, b2}
    Attempts = {a}
    Runs = {r1, r2}
    Effects = {tool}
    Null = Null
    Lease = 2
    MaxNow = 3
    MaxEffects = 2
SYMMETRY Symmetry
INVARIANTS TypeOK OneWinner GracefulIsClean
PROPERTIES ImplementsFence
CHECK_DEADLOCK FALSE
