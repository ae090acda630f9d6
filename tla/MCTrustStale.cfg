CONSTANTS
    a1 = a1
    a2 = a2
    k1 = k1
    k2 = k2
    k3 = k3
    p1 = p1
    p2 = p2
    s1 = s1
    Alias = {a1}
    Identity = {k1, k2, k3}
    Seat = {s1}
    Trigger = {t1}
    Proc = {p1, p2}
    SeatOf <- MCSeatOf
    MaxReceipts = 2
    MaxRotations = 2
    MaxEdits = 1
    None = None
SPECIFICATION Spec
SYMMETRY MCSymmetry
INVARIANTS
    SendsStayAdmitted
