\* Reloads that keep the set of hooks, against two runs.
CONSTANTS
    Configured = 4
    Registered <- MCRegistered
    Runs = {g1, g2}
    MaxReloads = 2
    MayWithdraw = FALSE
SYMMETRY RunSymmetry
CHECK_DEADLOCK FALSE
SPECIFICATION Spec
INVARIANTS
    TypeOK
    ChainComplete
    RunsAllInOrder
    ClosedInReverse
