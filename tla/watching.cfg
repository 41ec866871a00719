SPECIFICATION Spec
CONSTANTS
    MaxLines = 3
    MaxUnread = 1
    Take = 3
    Ticks = {t1, t2}
INVARIANTS
    StreamHasNoGap
    LinesShownOnce
PROPERTY PageLearnsEnd
CHECK_DEADLOCK FALSE
