SPECIFICATION Spec
CONSTANTS
    Callers = {c1}
    Ops = {o1}
    StopOps = {s1}
    NoOp = NoOp
    Profiles = {p1}
    NoProfile = NoProfile
    MaxGeneration = 1
    MaxUid = 1
    MaxRevision = 1
    Faults = {"removal"}
    MaxFaults = 1
PROPERTIES AcceptUnderCurrentGrant
