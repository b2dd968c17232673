SPECIFICATION Spec
CONSTANTS
    f1 = f1
    f2 = f2
    c1 = c1
    c2 = c2
    Files = {f1, f2}
    Clients = {c1}
    Names <- MCNames
    Requested = {"n"}
    Candidate <- MCCandidate
    Tries = 2
    Empty = Empty
    Missing = Missing
    Gone = Gone
    Lost = Lost
    Faults = {"write"}
    MaxRequests = 2
    Isolated = TRUE
INVARIANT AnsweredPutIsStored
