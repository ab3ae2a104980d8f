SPECIFICATION Spec
CONSTANTS
    Sessions = {a, b, t, o}
    Observers = {o}
    TaskNames = {t}
    Max = 2
    Reserved = 1
    Callers = {"prompt"}
CONSTRAINT OneHandler
SYMMETRY Symmetry
INVARIANTS
    TypeOK
PROPERTIES
    BackgroundLeavesRoom
    ServedInOrder
