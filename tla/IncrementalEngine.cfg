SPECIFICATION Spec
CONSTANTS
    Files = 4
    DependsOn <- ChainAndOne
INVARIANTS
    TypeOK
    NeverDeadlocked
    MachineFollowsEngine
    ManifestIsNoLiar
PROPERTIES
    FinalStatusesAreFinal
    EngineEnds
