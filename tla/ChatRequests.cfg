SPECIFICATION Spec
CONSTANTS
    Requests = {r1, r2, r3}
    Creates = {r1, r2}
    NoRequest = NoRequest
INVARIANTS
    SlotNeverLeaks
    OneAtATimeUnlessAbandoned
    RunnerIsAbortable
    ExitsAreClean
PROPERTIES
    FirstComeFirstServed
    EveryRequestIsServed
    ImplementsExclusiveSlot
