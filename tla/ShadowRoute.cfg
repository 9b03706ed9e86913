SPECIFICATION RouteSpec
CONSTANTS
    Requests = {r1, s1, s2}
    Creates = {s1}
    Shadows = {s1, s2}
    NoRequest = NoRequest
    MaxCompactions = 2
INVARIANTS
    ShadowContextsAreDisposed
    EitherRouteIsAbortable
PROPERTIES
    ServedUnlessLeaked
