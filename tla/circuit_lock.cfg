CONSTANTS
    Window = {w1, w2, w3}
    NoWindow = NoWindow
    Stale = 1
    Wait = 1
    MaxOps = 3
    HolderMayCrash = TRUE
    HolderMayStall = TRUE
SPECIFICATION FairLockSpec
INVARIANTS MutualExclusion
PROPERTIES ImplementsAtomicStore OperationEnds
CHECK_DEADLOCK FALSE
