SPECIFICATION Spec
CONSTANTS
    Offsets <- MCOffsets
    Bounds <- MCBounds
    MaxHeap = 5
    MaxObjects = 3
    N = 3
PROPERTY EmptyLoopFreesNothing
CHECK_DEADLOCK FALSE
