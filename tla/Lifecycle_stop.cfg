\* A restart, and a stop while its upgrade is under way.
CONSTANTS
    Procs = {p1, p2}
    NoProc = NoProc
    MaxCommands = 2
    MaxCrashes = 0
    MaxHandlers = 0
    Watched = {p1, p2}
    DiskFails = FALSE
CHECK_DEADLOCK FALSE
SPECIFICATION FairSpec
PROPERTY StopEndsService
