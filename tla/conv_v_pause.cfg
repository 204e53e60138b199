SPECIFICATION Spec
CONSTANTS
    t1 = t1
    t2 = t2
    s1 = s1
    s2 = s2
    Turns = {t1, t2}
    Sessions = {s1, s2}
    None = None
    FaultKinds = {}
    MaxFaults = 0
INVARIANTS EndsOnScreen
CHECK_DEADLOCK FALSE
