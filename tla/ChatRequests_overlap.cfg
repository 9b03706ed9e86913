SPECIFICATION Spec
CONSTANTS
    Requests = {r1, r2, r3}
    Creates = {r1, r2, r3}
    NoRequest = NoRequest
SYMMETRY RequestSymmetry
INVARIANTS
    OneAtATime
