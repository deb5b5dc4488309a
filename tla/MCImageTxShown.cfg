SPECIFICATION Spec
CONSTANTS
    a = a
    b = b
    Frames = {a, b}
    NoFrame = NoFrame
    MaxTx = 3
    MaxEpoch = 2
    MaxLost = 2
    MaxRestart = 1
    Kept = 1
PROPERTIES
    SuccessMeansShown
CHECK_DEADLOCK FALSE
