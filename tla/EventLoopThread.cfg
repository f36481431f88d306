CONSTANTS
    Functors = {f1}
    Callers = {owner}
    Channels = {c1}
    WakeupChannel = wakeup
    None = none
    Owner = owner
SPECIFICATION ThreadSpec
CHECK_DEADLOCK FALSE
INVARIANTS ThreadTypeOK MembersOutliveThread
PROPERTIES StartLoopReturnsReadyLoop StartLoopReturns DestructorJoins
