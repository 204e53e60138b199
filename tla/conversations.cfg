SPECIFICATION Spec
CONSTANTS
    t1 = t1
    t2 = t2
    s1 = s1
    s2 = s2
    Turns = {t1, t2}
    Sessions = {s1, s2}
    None = None
    FaultKinds = {"write", "unreachable", "create", "persist", "redeploy"}
    MaxFaults = 1
SYMMETRY Symmetry
INVARIANTS TypeOK ReplyFollowsQuestion OnlyOverlapLoses MemoryMatches ErrorStoresNothing
CHECK_DEADLOCK FALSE
