SPECIFICATION FairSpec
CONSTANTS
    t1 = t1
    t2 = t2
    Threads = {t1, t2}
    RefreshInterval = 1
    Limit = 1
    FetchTime = 1
    Gap = 2
    MaxGeneration = 1
    MaxTime = 2
    NoKeys = NoKeys
    None = None
PROPERTY EveryRequestValidated
