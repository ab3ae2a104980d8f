SPECIFICATION Spec
CONSTANTS
    Atoms = {a, b, c, d}
    Channel = {a, b}
    Aside = {d}
    Barriers = {"after_tool", "after_task"}
    Providers = {"ahead"}
    Turmoil = {"interrupted", "recover"}
SYMMETRY Symmetry
VIEW ButTouched
INVARIANTS AtomsSurvive LanesInOrder NoLostWake
PROPERTY SuccessorNext
CHECK_DEADLOCK FALSE
