CONSTANTS
    Threads = {t1, t2}
    MUDEBUG = FALSE
    MaxLines = 2
    MaxSeconds = 1
SPECIFICATION Spec
INVARIANT LinesMarked
CHECK_DEADLOCK FALSE
