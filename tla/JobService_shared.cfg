SPECIFICATION Spec
CONSTANTS
    Files = 2
    DependsOn <- TwoLayers
    Jobs = {j1, j2}
    Runs = {a, b}
    NoRun = NoRun
    MaxRetries = 1
    Misnamed = {}
    Synthesised = {}
    MaxRestarts = 0
    MaxWriteErrors = 1
INVARIANTS
    RunningJobsHaveARun
    SoleRunIsCancellable
PROPERTIES
    EveryRunEnds
