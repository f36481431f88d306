CONSTANTS
    Senders = {t1}
    MaxBytes = 1
    MaxSend = 1
    SndBuf = 1
    HighWaterMark = 2
    CallerKeepsText = TRUE
SPECIFICATION Spec
INVARIANT CallsKeepConnection
CHECK_DEADLOCK FALSE
