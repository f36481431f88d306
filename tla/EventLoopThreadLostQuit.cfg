CONSTANTS
    Functors = {f1}
    Callers = {owner}
    Channels = {}
    WakeupChannel = wakeup
    None = none
    Owner = owner
SPECIFICATION TimedThreadSpec
CHECK_DEADLOCK FALSE
PROPERTY DestructorReturns
