CONSTANTS
    Setups <- Receiver
    WindowSize = 2
    MaxRetransmits = 1
    SendMax = 1
    RecvMax = 2
    GroupBits = 2
    WordBits = 7
    Frames = {}
SPECIFICATION Spec
CHECK_DEADLOCK FALSE
INVARIANTS OrderedIsDelivered
