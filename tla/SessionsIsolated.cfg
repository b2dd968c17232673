SPECIFICATION Spec
CONSTANTS
    s1 = s1
    s2 = s2
    s3 = s3
    u1 = u1
    u2 = u2
    f1 = f1
    f2 = f2
    Sessions = {s1, s2, s3}
    Cleaners = {k1}
    Users = {u1, u2}
    NoUser = NoUser
    TokenUser <- TokenOfTwo
    IdUser <- NameOfSome
    Files = {f1, f2}
    OpsOf <- UnlockLeaveRenew
    FilesOf <- FirstBoth
    Tables = {d1, d2}
    NoTable = NoTable
    NoSession = NoSession
    Lifetime = 1
    MaxTime = 2
    Isolated = TRUE
SYMMETRY TablesAlike
INVARIANTS IsolatedInv OneActiveSession GrantedIsListed
PROPERTIES HeldUntilReleased CleanupTakesKnown ImplementsLease
