SPECIFICATION FairSpec
CONSTANTS
    Callers = {c1}
    Ops = {o1}
    StopOps = {s1}
    NoOp = NoOp
    Profiles = {p1}
    NoProfile = NoProfile
    MaxGeneration = 1
    MaxUid = 2
    MaxRevision = 2
    Faults = {"interrupt", "crash", "session", "unready", "node"}
    MaxFaults = 2
PROPERTIES StartCompletes StopCompletes
