SPECIFICATION Spec
CONSTANTS
    Callers = {c1, c2, c3}
    Intents = {"frontend", "backend", "advisor"}
    VramSizes <- MCVramSizes
    MaxUses = 2
INVARIANTS
    VramWithinBudget
    NeverLoadedTwice
    LeasesHoldWhereAllFit
PROPERTIES
    LeastRecentlyUsedGoesFirst
    EveryAcquireSettles
