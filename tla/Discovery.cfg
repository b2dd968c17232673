SPECIFICATION Spec
CONSTANTS
    t1 = t1
    t2 = t2
    Threads = {t1, t2}
    RefreshInterval = 1
    Limit = 1
    FetchTime = 1
    Gap = 2
    MaxGeneration = 2
    MaxTime = 4
    NoKeys = NoKeys
    None = None
INVARIANTS TypeOK KeysInv OneFetchAtATime
PROPERTIES GenuineVerified KeysNeverGoBack
SYMMETRY Symmetry
