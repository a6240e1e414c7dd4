\* Keys of at most two letters and pages of at most one entry; limits from -3 to 2
\* and ids from -5 to 4 fit their fields.
SPECIFICATION Spec
CONSTANTS
    c1 = c1
    c2 = c2
    Calls = {c1, c2}
    Scenarios <- TwoCalls
    KeyMax = 2
    ScanMax = 1
    Int32Max = 2
    Int64Max = 4
CHECK_DEADLOCK FALSE
INVARIANTS TypeOK ErrorsTellTheTruth TransportsAgree
PROPERTIES ImplementsService
