CONSTANTS
    kCheapPrepend = 2
    kInitialSize = 2
    ExtraSize = 2
    Byte = {0, 1}
    Fresh = 0
    MaxReadable = 5
    MaxAppend = 3
SPECIFICATION Spec
INVARIANTS TypeOK MemoryBounded
PROPERTY ImplementsByteQueue
