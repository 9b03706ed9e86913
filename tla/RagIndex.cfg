SPECIFICATION Spec
CONSTANTS
    Files = {f, g}
    Ops = {o1, o2}
    MaxSaves = 2
SYMMETRY Symmetry
INVARIANTS
    SerialOpsLeaveOneCopy
    
