SPECIFICATION FairSpec
CONSTANTS
    a = a
    b = b
    Frames = {a, b}
    NoFrame = NoFrame
    MaxTx = 3
    MaxEpoch = 2
    MaxLost = 2
    MaxRestart = 1
    Kept = 1
INVARIANTS
    TypeOK
    OpenRequestFound
    SuccessMeansDrawn
PROPERTIES
    PendingResolves
    ImplementsOneDisplay
    BlockedStaysOff
CHECK_DEADLOCK FALSE
