SPECIFICATION Spec
CONSTANTS
    Offsets <- MCOffsets
    Bounds <- MCBounds
    MaxHeap = 5
    MaxObjects = 3
    N = 3
INVARIANTS
    TypeOK
    FreeableAsAllocated
PROPERTIES
    OneOwner
    NoOverlap
    OtherStepsAsCells
    PartIsReported
CHECK_DEADLOCK FALSE
