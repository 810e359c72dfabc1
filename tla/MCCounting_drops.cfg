CONSTANTS
    Producers = {p1}
    MaxQueue = 2
    MaxBatch = 1
    MaxSpans = 6
    Wrap = 16
    Threads = {th1}
    Processors = {proc1}
    None = None
SPECIFICATION CountingSpec
CHECK_DEADLOCK FALSE
INVARIANT
    DroppedWereRefused
