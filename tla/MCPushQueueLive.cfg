SPECIFICATION FairSpec
CONSTANTS
    a = a
    b = b
    c = c
    Frames = {a, b, c}
    Oversized = {c}
    NoFrame = NoFrame
    ZeroDigest = ZeroDigest
    MaxId = 3
    ConsoleActive = FALSE
PROPERTIES
    SnapshotAttempted
    StopsOnShutdown
    ImplementsMailbox
CHECK_DEADLOCK FALSE
