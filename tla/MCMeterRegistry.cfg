CONSTANTS
    Threads = {th1, th2}
    None = None
    Names <- MCNames
    Fold <- MCFold
    Descriptors = {d1}
    Requests <- MCRequests
    Views <- MCViews
    MaxStarts = 2
SPECIFICATION FairSpec
CHECK_DEADLOCK FALSE
INVARIANTS
    RegistryInv
    OneIdPerKey
    CalledOnlyWhileGiven
    ProviderKnowsViews
PROPERTIES
    ImplementsIds
    CallsReturn
