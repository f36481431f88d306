CONSTANTS
    Senders = {t1}
    MaxBytes = 3
    MaxSend = 2
    SndBuf = 1
    HighWaterMark = 2
    CallerKeepsText = TRUE
SPECIFICATION Spec
PROPERTY SentBeforeShutdown
CHECK_DEADLOCK FALSE
