SPECIFICATION Spec
CONSTANTS
    Candidate = {1, 2}
    Rank = {0, 1}
    MaxPresentations = 1
    Period = 2
    LeaseSeconds = 2
    Time = {0, 1, 2, 3, 4}
    MaxTokens = 4
    None = None
INVARIANTS HistoryAccepted BudgetHolds
PROPERTIES BestGoesFirst
