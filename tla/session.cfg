CONSTANTS
    Kinds = {"consensus", "chain"}
    Lanes = 2
    Faults = {"error", "throw", "crash"}
    Overlap = TRUE
    MaxTokens = 4
    MaxTurns = 3
    MaxStarts = 2
    MaxCompactions = 1
SPECIFICATION Spec
INVARIANTS Alternates LiveIsRecentDurable OneReplyPerTurn
PROPERTIES KeptUnlessNumbersAreFree
CHECK_DEADLOCK FALSE
