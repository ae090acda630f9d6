SPECIFICATION Spec
CONSTANTS
    Envelope = {1}
    Proc = {p1, p2}
    p1 = p1
    p2 = p2
    Time = {0, 1}
    SenderTTL <- MCNoSenderTTL
    DefaultTTL <- MCDefaultTTL
    Refusable = {}
    None = None
    Torn = Torn
    TearsDeletes = FALSE
    MaxCrashes = 1
INVARIANTS
    ScanSkipsExpired
