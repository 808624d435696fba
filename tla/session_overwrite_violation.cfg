CONSTANTS
    Kinds = {"single"}
    Lanes = 2
    Faults = {"error"}
    Overlap = FALSE
    MaxTokens = 8
    MaxTurns = 4
    MaxStarts = 2
    MaxCompactions = 0
SPECIFICATION Spec
PROPERTIES AnsweredTurnsKept
CHECK_DEADLOCK FALSE
