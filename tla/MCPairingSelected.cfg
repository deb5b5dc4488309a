SPECIFICATION Spec
CONSTANTS
    daemon = daemon
    command = command
    Procs = {daemon, command}
    Daemon = daemon
    NoProc = NoProc
    MaxBonds = 2
    MaxFaults = 2
INVARIANT
    ConfirmedIsSelected
