SPECIFICATION Spec
CONSTANTS
    Sessions = {a, b}
    Observers = {}
    TaskNames = {}
    Max = 1
    Reserved = 0
    Callers = {"prompt"}
INVARIANTS
    WithinMax
