SPECIFICATION Spec
CONSTANTS
    Files = 2
    DependsOn <- TwoLayers
    Jobs = {j1}
    Runs = {a, b}
    NoRun = NoRun
    MaxRetries = 1
    Misnamed = {}
    Synthesised = {}
    MaxRestarts = 1
    MaxWriteErrors = 1
INVARIANTS
    RunningJobsHaveARun
