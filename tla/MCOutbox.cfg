SPECIFICATION Spec
CONSTANTS
    Key = {k1, k2}
    Request = {r1, r2}
    Envelope = {e1, e2}
    Time = {1}
    Budget = 1
    MaxCrashes = 1
    Prunable = {e2}
    None = None
SYMMETRY Sym
INVARIANTS OneMessage CopyBeforeDelivery DeliveredTruly NeverStranded
PROPERTIES FailedStays KeyKeepsItsMessage
