\* One hot restart is enough to lose the PID file.
CONSTANTS
    Procs = {p1, p2}
    NoProc = NoProc
    MaxCommands = 1
    MaxCrashes = 0
    MaxHandlers = 0
    Watched = {p1, p2}
    DiskFails = FALSE
CHECK_DEADLOCK FALSE
SPECIFICATION Spec
INVARIANT PidFileKept
