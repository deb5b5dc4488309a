SPECIFICATION FairSpec
CONSTANTS
    daemon = daemon
    command = command
    Procs = {daemon, command}
    Daemon = daemon
    NoProc = NoProc
    MaxBonds = 2
    MaxFaults = 2
INVARIANTS
    TypeOK
    ApprovalRemembered
    StaysForgotten
    ActiveWasApproved
    NotPairedIsTrue
PROPERTIES
    LostApprovalRecovers
