SPECIFICATION Spec
CONSTANTS
    Key = {k1}
    Request = {r1}
    Envelope = {e1}
    Time = {1, 2}
    Budget = 1
    MaxCrashes = 1
    Prunable = {e1}
    None = None
PROPERTIES ReplayIsDuplicate
