\* Two tasks wait in connect(), one of them is cancelled.
SPECIFICATION Spec
CONSTANTS
    c1 = c1
    c2 = c2
    k1 = k1
    k2 = k2
    Connectors <- TwoConnectors
    Closers <- OneCloser
    Reconnect = TRUE
    InitialDelay = 1
    MaxDelay = 1
    MaxRequests = 1
INVARIANTS
    OnlyTheCancelledGiveUp
CHECK_DEADLOCK FALSE
