CONSTANTS
    Delta <- SomeDeltas
    Wall = {1, 3}
    MaxRows = 3
    MaxCrashes = 1
    MaxSnapshots = 2
    MaxChecks = 1
    MaxLost = 1
SPECIFICATION Spec
INVARIANTS EffectsKept ItemsAccountedFor RecoveryComplete
CHECK_DEADLOCK FALSE
