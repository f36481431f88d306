CONSTANTS
    MaxThreads = 2
    MaxConns = 3
    MaxOpen = 2
    MaxShut = 1
SPECIFICATION FairSpec
INVARIANTS TypeOK Balanced RegisteredIsHeld EndReported
PROPERTIES ImplementsConnectionLife NoCallAfterEnd PeerEndFrees BacklogAccepted ServerDestructorReturns
CHECK_DEADLOCK FALSE
