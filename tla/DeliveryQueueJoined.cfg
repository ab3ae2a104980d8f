SPECIFICATION Spec
CONSTANTS
    Atoms = {a, b}
    Channel = {}
    Aside = {}
    Barriers = {"after_tool"}
    Providers = {"ahead"}
    Turmoil = {"join"}
INVARIANT LanesInOrder
CHECK_DEADLOCK FALSE
