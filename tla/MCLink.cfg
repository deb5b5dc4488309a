SPECIFICATION FairSpec
CONSTANTS
    w1 = w1
    w2 = w2
    x1 = x1
    Calls = {w1, w2, x1}
    Exclusives = {x1}
    NoCall = NoCall
INVARIANTS
    TypeOK
    RunsOnce
    ExclusiveAlone
    StateHonest
PROPERTIES
    CallsAnswered
    StopsOnShutdown
    ImplementsSerial
CHECK_DEADLOCK FALSE
