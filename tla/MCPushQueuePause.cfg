SPECIFICATION Spec
CONSTANTS
    a = a
    b = b
    c = c
    Frames = {a, b, c}
    Oversized = {c}
    NoFrame = NoFrame
    ZeroDigest = ZeroDigest
    MaxId = 3
    ConsoleActive = TRUE
PROPERTIES
    PausePreservesSnapshot
CHECK_DEADLOCK FALSE
