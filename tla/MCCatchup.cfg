SPECIFICATION Spec
CONSTANTS
    Job = {1, 2}
    Kind <- MCKind
    Runner = {r1}
    MaxLimit = 1
    ClaimTimeout = 1
    CooldownBase = 1
    CooldownMax = 2
    Tried = {0}
    MaxAttempts = 2
    Time = {0, 1}
    None = None
INVARIANTS InFlightBounded DeliveriesNotDropped
PROPERTIES DebtHistoryKept ClaimsUseTheirRoom
