SPECIFICATION FairSpec
CONSTANTS
    Callers = {c1}
    NumServices = 2
    MaxPods = 5
    Media = {FALSE, TRUE}
    Faults = {"interrupt", "crash", "session", "broken", "evict"}
    MaxFaults = 2
PROPERTIES TransitionEnds
CHECK_DEADLOCK FALSE
