CONSTANTS
    v1 = v1 a1 = a1 a2 = a2 m1 = m1
    Proc = {p1}
    Req = {r1}
    Provider = {v1}
    Account = {a1, a2}
    Model = {m1}
    NoAccount = NoAccount NoModel = NoModel NoReq = NoReq NoProc = NoProc
    RequestTarget <- TwoAccounts
    AnnotateTarget <- NoTargets
    RetryAfter <- NoRetryAfter
    Backs = {3}
    PersistMayFail = FALSE
    Threshold = 2
    BaseCooldown = 1
    MaxCooldown = 1
    QuotaCooldown = 2
    ModelCooldown = 1
    LeaseTTL = 1
    Skew = 1
    MaxEntries = 2
    OpenCap = 1
    MaxTime = 3
SYMMETRY Perms
SPECIFICATION DSpec
INVARIANTS BlockLastsAsPromised
PROPERTIES NothingTakenAway BlastRadius FailureBlocksAtOnce
