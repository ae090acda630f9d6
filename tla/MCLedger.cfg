SPECIFICATION Spec
CONSTANTS
    Proc = {p1, p2}
    p1 = p1
    p2 = p2
    Sent = {s1}
    s1 = s1
    Received = {r1}
    r1 = r1
    Retained = {3}
    Limit = 2
    MaxRows = 4
    MaxFaults = 1
    None = None
SYMMETRY MCSymmetry
INVARIANTS ChainIntact FollowerMissesNothing OnlyFaultsLose
