SPECIFICATION FairSpec
CONSTANTS
    s1 = s1
    s2 = s2
    s3 = s3
    u1 = u1
    u2 = u2
    f1 = f1
    f2 = f2
    Sessions = {s1, s2}
    Cleaners = {}
    Users = {u1}
    NoUser = NoUser
    TokenUser <- SameUser
    IdUser <- NameNobody
    Files = {f1}
    OpsOf <- LockUnlock
    FilesOf <- AnyFile
    Tables = {d1, d2}
    NoTable = NoTable
    NoSession = NoSession
    Lifetime = 0
    MaxTime = 1
    Isolated = FALSE
INVARIANTS TypeOK
PROPERTIES RefreshNeverResurrects EveryRequestEnds
