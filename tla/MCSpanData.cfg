CONSTANTS
    s1 = s1
    s2 = s2
    c1 = c1
    Threads = {th1, th2}
    Spans = {s1, s2}
    Contexts = {c1}
    None = None
    Keys = {"k", "j"}
    Lists <- MCLists
    Shard <- MCShard
    MaxCalls = 5
SPECIFICATION FairSpec
CHECK_DEADLOCK FALSE
INVARIANTS
    SpanInv
PROPERTIES
    BaggageCutOnlyAtNull
    CallsReturn
