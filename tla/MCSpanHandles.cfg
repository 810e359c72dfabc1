CONSTANTS
    Threads = {th1, th2}
    Tracers = {t1, t2}
    Spans = {s1, s2}
    Contexts = {c1}
    None = None
    LeftoversAlone = TRUE
SPECIFICATION FairSpec
CHECK_DEADLOCK FALSE
INVARIANTS
    LookupFaithful
    NoLostSpan
    MapsFollowCount
    GuardedMapSurvives
PROPERTIES
    ImplementsRegistry
    CallsReturn
