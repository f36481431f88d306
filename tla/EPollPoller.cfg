CONSTANTS
    Channels = {c1, c2}
    Fds = {fd1, fd2}
    Events = {in}
    None = none
    kInitEventListSize = 1
SPECIFICATION FairSpec
INVARIANTS Consistent ActiveAlive
PROPERTY EveryReadyReported
