\* Liveness under the fairness of the scheduler; what needs the server says so.
SPECIFICATION FairSpec
CONSTANTS
    c1 = c1
    c2 = c2
    k1 = k1
    k2 = k2
    Connectors <- OneConnector
    Closers <- TwoClosers
    Reconnect = TRUE
    InitialDelay = 1
    MaxDelay = 1
    MaxRequests = 1
PROPERTIES
    CloseTerminates
    RpcsTerminate
    ConnectTerminates
    Reconnects
CHECK_DEADLOCK FALSE
