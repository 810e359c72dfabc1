CONSTANTS
    f1 = f1
    f2 = f2
    N = 1
    Files = {f1}
    FileOf <- OneRemote
    None = None
    Records = {r1, r2}
    Earlier = Earlier
    Configured = 2
    Timeouts = {0}
    MaxStarts = 2
SPECIFICATION FairSpec
CHECK_DEADLOCK FALSE
INVARIANTS
    DrainIsBounded
PROPERTIES
    DestroyReturns
