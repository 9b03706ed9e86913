SPECIFICATION Spec
CONSTANTS
    Callers = {c1}
    Intents = {"frontend", "backend", "advisor"}
    VramSizes <- MCVramSizes
    MaxUses = 3
INVARIANTS
    ModelInUseStaysLoaded
