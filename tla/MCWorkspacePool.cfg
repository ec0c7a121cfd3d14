SPECIFICATION FairSpec
CONSTANTS
    Apps = {a1}
    Projects = {p1}
    Claims = {v1}
    Releases = {r1}
    None = None
    MaxUid = 2
    Faults = {"interrupt", "clean", "service"}
    MaxFaults = 2
INVARIANTS TypeOK OneOwner
PROPERTIES WipesOnlyIdle PoolRecovers
CHECK_DEADLOCK FALSE
