CONSTANTS
    Threads = {th1, th2}
    Tracers = {t1, t2}
    Spans = {s1}
    Contexts = {c1}
    None = None
    LeftoversAlone = FALSE
SPECIFICATION Spec
CHECK_DEADLOCK FALSE
INVARIANT
    LockSkippedOnlyWithoutMap
