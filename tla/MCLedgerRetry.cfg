SPECIFICATION Spec
CONSTANTS
    Proc = {p1}
    p1 = p1
    Sent = {s1}
    s1 = s1
    Received = {r1}
    r1 = r1
    Retained = {3}
    Limit = 2
    MaxRows = 6
    MaxFaults = 1
    None = None
INVARIANTS FaultlessHistoryLegal
