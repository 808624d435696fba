CONSTANTS
    Job = {j1, j2}
    Consumer = {c1}
    MaxJobs = 1
    MaxOutput = 1
    Stubborn = {j1}
    Forking = {j1}
    Foreign = {j2}
SPECIFICATION Spec
INVARIANTS ChildrenBounded NoLostWakeup
PROPERTIES ReportStands EverythingEnds
CHECK_DEADLOCK FALSE
