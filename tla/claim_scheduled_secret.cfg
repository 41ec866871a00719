SPECIFICATION Spec
CONSTANTS
    MaxSteps = 1
    MaxVersion = 0
    MaxStamp = 2
    MaxSessions = 1
    MaxClicks = 3
    MaxEdits = 0
    Polls = {p1}
    Requests = {r1}
    SecretIds = {1}
INVARIANT SecretsComeFirst
CHECK_DEADLOCK FALSE
