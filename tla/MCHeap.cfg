CONSTANTS
    MaxBlocks = 8
    MaxPairs = 2
    MaxItems = 2
    MaxHeader = 2
    MaxSteps = 4
    IntMax = 1
    LongMax = 4
    Threads = {th1, th2}
    Bases = {b1, b2, b3}
    Count = 2
    MaxSize = 1
    MaxOps = 4
SPECIFICATION HeapSpec
CHECK_DEADLOCK FALSE
SYMMETRY Symmetry
INVARIANTS
    ContainersInv
    WidthsTold
    AllocatorInv
