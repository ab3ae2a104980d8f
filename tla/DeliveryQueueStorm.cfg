SPECIFICATION Spec
CONSTANTS
    Atoms = {a, b}
    Channel = {}
    Aside = {}
    Barriers = {"immediate_interrupt", "after_tool", "after_response", "after_task"}
    Providers = {"ahead", "observed", "reconciling"}
    Turmoil = {"interrupted", "failed", "recover", "credential", "prepare", "exit", "launch", "join", "abort", "earlyAbort", "switch", "compact", "idleCompact", "slow"}
SYMMETRY Symmetry
INVARIANTS TypeOK OneOwner
PROPERTIES NeverReplayed 
CHECK_DEADLOCK FALSE
