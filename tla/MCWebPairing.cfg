SPECIFICATION PairSpec
CONSTANTS
    Tabs = {t1, t2}
    MaxRequests = 2
    MaxBonds = 2
SYMMETRY Symmetry
INVARIANTS
    PairingKept
PROPERTIES
    CommitsInOrder
