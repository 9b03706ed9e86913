SPECIFICATION Spec
CONSTANTS
    Launches = {l1, l2, l3}
    MaxCrashes = 1
INVARIANTS
    RouterOutlivesEditors
PROPERTIES
    EnsureSettles
    OneRouterIsLeft
