SPECIFICATION Spec
CONSTANTS
    MaxSteps = 2
    MaxVersion = 1
    MaxStamp = 3
    MaxSessions = 2
    MaxClicks = 4
    MaxEdits = 1
    Polls = {p1}
    Requests = {r1, r2}
    SecretIds = {}
SYMMETRY AnyRequest
INVARIANTS
    CleanMeansSaved
    EditsSurvive
CHECK_DEADLOCK FALSE
