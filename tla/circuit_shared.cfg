CONSTANTS
    v1 = v1 a1 = a1 m1 = m1
    Proc = {p1, p2}
    Req = {r1, r2}
    Provider = {v1}
    Account = {a1}
    Model = {m1}
    NoAccount = NoAccount NoModel = NoModel NoReq = NoReq NoProc = NoProc
    RequestTarget <- OneModel
    AnnotateTarget <- NoTargets
    RetryAfter <- NoRetryAfter
    Backs = {2}
    PersistMayFail = FALSE
    Threshold = 2
    BaseCooldown = 1
    MaxCooldown = 1
    QuotaCooldown = 1
    ModelCooldown = 1
    LeaseTTL = 1
    Skew = 1
    MaxEntries = 3
    OpenCap = 1
    MaxTime = 2
SYMMETRY Perms
SPECIFICATION Spec
INVARIANTS LeaseAccountable
PROPERTIES SettledLeaseReleased NothingTakenAway
