CONSTANTS
    Task = {t1, t2, t3}
    Proc = {p1, p2}
    Status = {"todo", "done"}
    MaxOps = 4
SYMMETRY Symmetric
SPECIFICATION Spec
INVARIANTS GraphSound PlanUsable
CHECK_DEADLOCK FALSE
