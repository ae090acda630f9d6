SPECIFICATION ColdSpec
CONSTANTS
    Envelope = {1}
    Proc = {p1}
    p1 = p1
    Curator = {c1}
    c1 = c1
    Letters = {}
    Time = {0, 1}
    SenderTTL <- MCSenderTTL
    DefaultTTL <- MCDefaultTTL
    Refusable = {}
    None = None
    Torn = Torn
    TearsDeletes = TRUE
    MaxCrashes = 2
INVARIANTS
    NothingLost
    ColdProvenance
    IndexOnce
