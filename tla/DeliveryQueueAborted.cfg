SPECIFICATION Spec
CONSTANTS
    Atoms = {a, b}
    Channel = {}
    Aside = {}
    Barriers = {"after_tool", "after_task"}
    Providers = {"ahead"}
    Turmoil = {"interrupted", "abort"}
INVARIANT AtomsSurvive
CHECK_DEADLOCK FALSE
