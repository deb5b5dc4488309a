SPECIFICATION Spec
CONSTANTS
    a = a
    b = b
    c = c
    Frames = {a, b, c}
    Oversized = {c}
    NoFrame = NoFrame
    ZeroDigest = ZeroDigest
    MaxId = 3
    ConsoleActive = TRUE
INVARIANTS
    TypeOK
    NoLostWakeup
    CancelExactlyStale
    PanelTracked
PROPERTIES
    NoNeedlessRedraw
CHECK_DEADLOCK FALSE
