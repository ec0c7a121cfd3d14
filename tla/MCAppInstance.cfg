SPECIFICATION Spec
CONSTANTS
    Callers = {c1, c2}
    Ops = {o1, o2}
    StopOps = {s1, s2}
    NoOp = NoOp
    Profiles = {p1, p2}
    NoProfile = NoProfile
    MaxGeneration = 2
    MaxUid = 2
    MaxRevision = 1
    Faults = {"interrupt", "crash", "session", "evict", "exit", "replace", "unready", "node", "removal", "migrate"}
    MaxFaults = 1
SYMMETRY Symmetric
INVARIANTS TypeOK ExclusiveMount RetiredLeavesNothing HolderCopyCurrent OneActiveGeneration
  SealedProofIsGenuine CredentialKept AccessWhileRunning StopsAgree
PROPERTIES DeletesOnlyCondemned HistoryKept ImplementsLifecycle
