SPECIFICATION FairSpec
CONSTANTS
    n1 = n1
    d1 = d1
    Namespaces = {n1}
    Names = {d1, d2}
    Targets <- OneTarget
    QueueCap = 1
    MaxVersion = 3
    Faults = {"list", "watch", "stream", "core", "refuse", "large"}
    MaxFaults = 1
INVARIANTS TypeOK ConsistentView
PROPERTIES NeverBack Converges
CHECK_DEADLOCK FALSE
