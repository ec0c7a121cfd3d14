SPECIFICATION Spec
CONSTANTS
    Callers = {c1, c2}
    NumServices = 1
    MaxPods = 4
    Media = {FALSE}
    Faults = {"interrupt", "crash", "session", "drift", "evict", "redeploy", "recover", "rollback", "late"}
    MaxFaults = 2
SYMMETRY Symmetric
INVARIANTS OneVersionRuns FinishedConsistent
PROPERTIES RoutesFollowPhase ImplementsSafeUpgrade
CHECK_DEADLOCK FALSE
