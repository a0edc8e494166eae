SPECIFICATION Spec
CONSTANTS
    Offsets <- MCOffsets
    Bounds <- MCBounds
    MaxHeap = 5
    MaxObjects = 3
    N = 3
PROPERTY StepsAsCells
CHECK_DEADLOCK FALSE
