SPECIFICATION Spec
CONSTANTS
    Files = 3
    DependsOn <- RouteFirst
    Jobs = {j1}
    Runs = {a, b}
    NoRun = NoRun
    MaxRetries = 1
    Misnamed = {2}
    Synthesised = {1}
    MaxRestarts = 1
    MaxWriteErrors = 1
SYMMETRY RunSymmetry
INVARIANTS
    TypeOK
    CheckpointedIsWritten
    WorkRestsOnCommitted
    SkippedForAReason
    EndedRunsAreComplete
PROPERTIES
    AbortedRunStartsNothing
    ImplementsDurableProgress
