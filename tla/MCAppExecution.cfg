SPECIFICATION FairSpec
CONSTANTS
    Ops = {o1, o2}
    Callers = {c1, c2}
    Seed = Seed
    Charts = {FALSE, TRUE}
    None = None
    MaxUid = 4
    Faults = {"interrupt", "session", "timeout", "redeploy", "relabel", "evict", "rollout", "unready", "chart"}
    MaxFaults = 1
INVARIANTS TypeOK
PROPERTIES WritesOnlyBound SucceededIsTrue OperationEnds
CHECK_DEADLOCK FALSE
