\* Two callers of connect(), one of close(), two requests, the ping's or others.
SPECIFICATION Spec
CONSTANTS
    c1 = c1
    c2 = c2
    k1 = k1
    k2 = k2
    Connectors <- TwoConnectors
    Closers <- OneCloser
    Reconnect = TRUE
    InitialDelay = 1
    MaxDelay = 1
    MaxRequests = 2
SYMMETRY Symmetry
INVARIANTS
    TypeOK
    NoOrphanedFuture
    PendingTableIsTight
    NoWaiterIsStranded
    SessionMatchesConnection
    NoSocketLeak
    CloseReachesTheRunTask
    PingOnlyWhileServed
    ClosedClientIsQuiet
    RunEndsForAReason
PROPERTIES
    FirstOutcomeIsFinal
    ClosedIsFinal
    FirstResultWins
CHECK_DEADLOCK FALSE
