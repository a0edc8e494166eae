SPECIFICATION Spec
CONSTANTS
    Names = {"x"}
    Literals = {"a"}
    Offsets = {0}
    MaxNew = 2
    MaxDepth = 2
INVARIANTS
    TypeOK
    NoWildPointer
    OneObjectPerOffset
    ConstantsAreDistinct
    PooledOnce
PROPERTIES
    FreedForGood
    HeapIsAllocator
