\* A message of somebody else and one that the client sends itself; both can be
\* pushed.
SPECIFICATION FairSpec
CONSTANTS
    m1 = m1
    m2 = m2
    Messages <- TwoMessages
    Own <- OwnMessage
INVARIANTS
    TypeOK
    StoredBeforeKnown
    AtMostOnce
    MissedOnlyWhenCut
    CursorsHaveMessages
PROPERTIES
    ImplementsLog
    EveryMessageArrives
