\* One request whose provider is not registered.
CONSTANTS
    Requests = {r1}
    Accounts = {a1}
    NoAccount = NoAccount
    Limit = 1
    HookErrors <- MCHookErrors
SPECIFICATION FairSpec
INVARIANT PickIsReported
