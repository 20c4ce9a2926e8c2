\* One request against two reloads: three configurations in one check.
CONSTANTS
    Requests = {r1}
    Keys = {k1, k2}
    NoKey = NoKey
    MaxReloads = 2
SYMMETRY KeySymmetry
CHECK_DEADLOCK FALSE
SPECIFICATION Spec
INVARIANTS
    TypeOK
    AdmittedByOne
    RejectedInOrder
    DecidedAlone
    UserIsKey
