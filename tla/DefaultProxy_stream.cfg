\* One stream that ends before a Done chunk.
CONSTANTS
    Requests = {r1}
    Accounts = {a1}
    NoAccount = NoAccount
    Limit = 1
    HookErrors <- MCHookErrors
SPECIFICATION FairSpec
INVARIANT StreamIsReported
