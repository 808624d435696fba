CONSTANTS
    Job = {j1, j2}
    Killer = {k1}
    Pid = {p1, p2}
    Nobody = Nobody Stranger = Stranger NoPid = NoPid
    MaxReuses = 2
SYMMETRY Alike
SPECIFICATION Spec
INVARIANTS EndedMeansDead RecordsHold
PROPERTIES SignalsOnlyTheJob
CHECK_DEADLOCK FALSE
