CONSTANTS
    Senders = {t1}
    MaxBytes = 3
    MaxSend = 2
    SndBuf = 1
    HighWaterMark = 1
    CallerKeepsText = TRUE
SPECIFICATION FairSpec
INVARIANTS TypeOK StreamIntact WritingIffBuffered HighWaterTold EndReportedOnce
PROPERTIES FinBehindBuffer EndIsSeen ShutdownSendsFin OutputDrains
CHECK_DEADLOCK FALSE
