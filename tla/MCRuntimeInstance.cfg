SPECIFICATION FairSpec
CONSTANTS
    Starts = {s1, s2}
    Stops = {t1}
    Destroys = {d1}
    Callers = {c1, c2}
    None = None
    MaxContent = 1
    MaxUid = 2
    Faults = {"call", "session", "exit", "evict", "node", "mistake"}
    MaxFaults = 2
INVARIANTS TypeOK OneMounter RestLeavesNothing SavedIsOnVolume
PROPERTIES OperationEnds
CHECK_DEADLOCK FALSE
