SPECIFICATION FairSpec
CONSTANTS
    Callers = {c1}
    NumServices = 2
    MaxPods = 5
    Faults = {"interrupt", "crash", "session", "broken", "evict", "recover"}
    MaxFaults = 2
PROPERTIES TransitionEnds
CHECK_DEADLOCK FALSE
