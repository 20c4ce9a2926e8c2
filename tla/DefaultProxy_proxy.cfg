\* Two requests compete for the slots of two accounts.  No symmetry: it is
\* not sound under fairness.
CONSTANTS
    Requests = {r1, r2}
    Accounts = {a1, a2}
    NoAccount = NoAccount
    Limit = 1
    HookErrors <- MCHookErrors
SPECIFICATION FairSpec
INVARIANTS
    TypeOK
    OccupancyExact
    UpstreamWithinLimit
    VerdictMatchesClient
    AfterFollowsReport
    LeakExits
PROPERTIES
    LeaseSpec
    RequestCompletes
