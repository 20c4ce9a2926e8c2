\* One reload that changes which plugins offer a hook, against one run.
CONSTANTS
    Configured = 3
    Registered = {1, 2, 3}
    Runs = {g1}
    MaxReloads = 1
    MayWithdraw = TRUE
CHECK_DEADLOCK FALSE
SPECIFICATION Spec
INVARIANT RunsAllInOrder
