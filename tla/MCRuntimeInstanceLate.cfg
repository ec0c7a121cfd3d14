SPECIFICATION Spec
CONSTANTS
    Starts = {s1, s2}
    Stops = {t1}
    Destroys = {d1}
    Callers = {c1, c2}
    None = None
    MaxContent = 1
    MaxUid = 2
    Faults = {"late", "exit"}
    MaxFaults = 2
INVARIANTS OneWorker
CHECK_DEADLOCK FALSE
