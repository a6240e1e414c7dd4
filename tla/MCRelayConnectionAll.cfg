CONSTANTS
    Setups <- AllSetups
    WindowSize = 3
    MaxRetransmits = 1
    SendMax = 1
    RecvMax = 2
    GroupBits = 2
    WordBits = 7
    Frames <- Envelopes
SPECIFICATION FairSpec
CHECK_DEADLOCK FALSE
INVARIANTS TypeOK SendWindow ReorderBuffer ClosedIsForgotten DeliveredInOrder NothingElseIsLost FramesSurviveTheWire
PROPERTIES StateAdvances ConnectEnds FullWindowEnds WaitingSendEnds ClosingEndsTasks
