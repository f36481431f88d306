CONSTANTS
    Functors = {f1, f2, f3}
    Callers = {t1, t2}
    Channels = {c1, c2}
    WakeupChannel = wakeup
    None = none
SPECIFICATION FairSpec
INVARIANTS
    NoStrandedFunctor
    QuitNotMissed
PROPERTIES
    ImplementsTaskQueue
    FunctorRuns
    ReadyChannelHandled
    ImplementsProgress
