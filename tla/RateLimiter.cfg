\* Three clients, two requests in a window of two ticks, four windows long.
CONSTANTS
    Keys = {k1, k2, k3}
    MaxRequests = 2
    Window = 2
    MaxTime = 7
SPECIFICATION Spec
SYMMETRY Symmetry
INVARIANTS OldCountersGo
PROPERTIES ImplementsRateLimit
