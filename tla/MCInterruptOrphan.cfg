SPECIFICATION InterruptSpec
CONSTANTS
    Candidate = {1, 2, 3}
    Rank = {0, 1}
    MaxPresentations = 1
    Period = 1
    LeaseSeconds = 1
    Time = {0, 1}
    MaxTokens = 2
    None = None
    Proc = {p1}
    p1 = p1
    Text = {"first", "corrected"}
    Letters <- MCLetters
    MaxPending = 1
PROPERTIES NothingMeansNothing
