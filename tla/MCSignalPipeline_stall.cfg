CONSTANTS
    f1 = f1
    f2 = f2
    N = 2
    Files = {f1}
    FileOf <- FileAndRemote
    None = None
    Records = {r1}
    Earlier = Earlier
    Configured = None
    Timeouts = {4}
    MaxStarts = 1
SPECIFICATION Spec
CHECK_DEADLOCK FALSE
INVARIANTS
    DrainIsBounded
