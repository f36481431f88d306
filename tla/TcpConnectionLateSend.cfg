CONSTANTS
    Senders = {t1}
    MaxBytes = 2
    MaxSend = 2
    SndBuf = 1
    HighWaterMark = 2
    CallerKeepsText = FALSE
SPECIFICATION Spec
PROPERTY GiveUpWriting
CHECK_DEADLOCK FALSE
