CONSTANTS
    MaxTurns = 2
    Mode = "ask"
    HasApprover = TRUE
    Lists = {"deny", "allow", "none"}
    MayCallUnoffered = TRUE
    MaxCalls = 2
    MaxLost = 1
SPECIFICATION FairSpec
INVARIANTS RunsWhatWasCleared CancelStopsTools AccountsAgree
PROPERTIES OneWellFormedRun AgentEnds
CHECK_DEADLOCK FALSE
