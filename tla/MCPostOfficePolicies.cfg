SPECIFICATION FairSpec
CONSTANTS
    Envelope = {1}
    Proc = {p1, p2}
    p1 = p1
    p2 = p2
    Time = {0, 1, 2}
    SenderTTL <- MCNoSenderTTL
    DefaultTTL <- MCPolicies
    Refusable = {1}
    None = None
    Torn = Torn
    TearsDeletes = TRUE
    MaxCrashes = 1
INVARIANTS
    ReceiptsAgree
    IndexTruth
    TombstoneTruth
    LedgerTruth
    ScanTruth
PROPERTIES
    OperationsReturn
