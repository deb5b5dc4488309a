SPECIFICATION FairSpec
CONSTANTS
    Versions = {1, 2}
    Asked <- MCAsked
    Readings <- MCReadings
INVARIANTS
    TypeOK
PROPERTIES
    ActsOnReadings
    OperationEnds
