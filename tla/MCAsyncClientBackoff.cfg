\* The delay after a session that had logged in.
SPECIFICATION Spec
CONSTANTS
    c1 = c1
    c2 = c2
    k1 = k1
    k2 = k2
    Connectors <- OneConnector
    Closers <- OneCloser
    Reconnect = TRUE
    InitialDelay = 1
    MaxDelay = 4
    MaxRequests = 1
PROPERTIES
    BackoffRestarts
CHECK_DEADLOCK FALSE
