CONSTANTS
    f1 = f1
    f2 = f2
    N = 3
    Files = {f1, f2}
    FileOf <- TwoFilesAndRemote
    None = None
    Records = {r1, r2}
    Earlier = Earlier
    Configured = None
    Timeouts = {0, 1, 5}
    MaxStarts = 3
SPECIFICATION FairSpec
CHECK_DEADLOCK FALSE
INVARIANTS
    TrackedExportersLive
    FilesHoldOwnRecords
    WrittenStays
    LossNeedsTimeout
    FlushWithinTimeout
PROPERTIES
    StartReturns
