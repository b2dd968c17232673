SPECIFICATION Spec
CONSTANTS
    c1 = c1
    c2 = c2
    a1 = a1
    a2 = a2
    b1 = b1
    r1 = r1
    f1 = f1
    Clients = {c1, c2}
    LockIds = {a1, a2, b1, r1}
    RawIds = {r1}
    NoLock = NoLock
    SessionOf <- SessionByLetter
    Files = {f1}
    Nobody = Nobody
    Names = {"n"}
    Ops <- AllOps
    Lifetime = 1
    MaxTime = 3
    Isolated = TRUE
INVARIANTS TypeOK FilesInv MutualExclusion LockedPutHoldsLock
PROPERTIES ImplementsLease LockedFileUntouched
