SPECIFICATION FairSpec
CONSTANTS
    Atoms = {a, b}
    Channel = {a}
    Aside = {}
    Barriers = {"immediate_interrupt", "after_tool", "after_response", "after_task"}
    Providers = {"ahead"}
    Turmoil = {"failed", "compact"}
PROPERTY PromptsSettle
CHECK_DEADLOCK FALSE
