SPECIFICATION Spec
CONSTANTS
    a = a
    b = b
    Requested = {a, b}
    Candidate <- MCCandidate
    TestNames <- MCTestNames
    Wopitest = Wopitest
    OnDisk <- MCOnDisk
    Depth = 3
    MaxObjects = 5
    MaxRuns = 2
INVARIANTS TypeOK TableMatchesDisk EverythingReachable AnsweredTruly
PROPERTY NothingElseLost
