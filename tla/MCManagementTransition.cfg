SPECIFICATION Spec
CONSTANTS
    Callers = {c1, c2}
    NumServices = 1
    MaxPods = 4
    Faults = {"interrupt", "crash", "session", "drift", "evict", "redeploy", "recover", "rollback", "late"}
    MaxFaults = 2
SYMMETRY Symmetric
INVARIANT FinishedConsistent
PROPERTIES ChangedInPhase ImplementsSafeUpgrade
CHECK_DEADLOCK FALSE
