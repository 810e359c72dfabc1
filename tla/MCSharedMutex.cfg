CONSTANTS
    Threads = {th1, th2, th3}
    Nobody = Nobody
SPECIFICATION FairSpec
INVARIANTS
    Exclusion
    WriterWaitsOnlyForEarlierReaders
PROPERTIES
    WritersProgress
