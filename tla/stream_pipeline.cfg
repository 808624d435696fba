CONSTANTS
    r = r w = w
    Candidate = 2
    ReadTool = {r}
    WriteTool = {w}
    NoTool = NoTool
    Approved = {w}
    Setups <- BothSetups
    Letters = {"a", "b"}
    MaxOverlap = 2
    MaxExisting = 3
    MaxSent = 4
SPECIFICATION FairSpec
INVARIANTS LeftOnlyWhenSafe LeaseSettledInTime ShowsMissingPart
PROPERTIES OneWellFormedRun EveryRunEnds
CHECK_DEADLOCK FALSE
