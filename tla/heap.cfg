SPECIFICATION Spec
CONSTANTS
    Start = 8
    Requests = {40, 100, 200}
    MaxHeap = 430
INVARIANTS
    TypeOK
    FreeOrInUse
    ChunksApart
    HeadersIntact
    NothingLost
PROPERTY ImplementsAllocator
CHECK_DEADLOCK FALSE
