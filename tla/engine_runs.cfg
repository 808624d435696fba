CONSTANTS
    Run = {1, 2}
    KindsOf <- FirstAny
    Lanes = 2
    Optional = {1}
    Gated = {2}
    MaxText <- FirstText
    MaxActive = 1
    Waits = {2}
    JudgeThrows = TRUE
SPECIFICATION FairSpec
INVARIANTS DeliveredOnce OutcomeIsWhatWasSeen ActiveBounded
PROPERTIES RunReaped
CHECK_DEADLOCK FALSE
