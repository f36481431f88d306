CONSTANTS
    Producers = {p1, p2}
    Consumers = {c1, c2}
    Products = {v1, v2, v3}
    Capacities <- SomeCapacities
    SizeModulus = 16
    Starters = {m1, m2}
    Counts = {1}
    NoThread = NoThread
SPECIFICATION ToolsSpec
INVARIANTS NoStrandedWaiter NoDeadlock NoSleeperBehind
PROPERTIES BothSidesProceed ImplementsLatch
