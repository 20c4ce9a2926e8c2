\* Three generations (or cold starts) of processes; no symmetry under
\* fairness, but the end of one process stands for that of any.
CONSTANTS
    Procs = {p1, p2, p3}
    NoProc = NoProc
    MaxCommands = 2
    MaxCrashes = 1
    MaxHandlers = 1
    Watched = {p1}
    DiskFails = TRUE
CHECK_DEADLOCK FALSE
SPECIFICATION FairSpec
INVARIANTS
    TypeOK
    AlwaysServed
    ClosedAfterDrain
    OneServer
PROPERTIES
    TermExits
    HandoverCompletes
