CONSTANTS
    Producers = {p1, p2}
    MaxQueue = 2
    MaxBatch = 2
    MaxSpans = 6
    Wrap = 16
    Threads = {th1, th2, th3}
    Processors = {proc1, proc2, proc3}
    None = None
SPECIFICATION CountingSpec
SYMMETRY Symmetry
CHECK_DEADLOCK FALSE
INVARIANTS
    DepthBounded
    DropsTracked
    NoReadAfterFree
    LatestStaysRegistered
