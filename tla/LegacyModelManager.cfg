SPECIFICATION Spec
CONSTANTS
    Callers = {c1, c2}
    Intents = {"frontend", "backend", "advisor"}
    VramSizes <- MCVramSizes
    MaxUses = 4
INVARIANTS
    ActiveModelIsResident
    NoModelIsForgotten
    VramWithinBudget
PROPERTIES
    IdleModelsAreUnloaded
