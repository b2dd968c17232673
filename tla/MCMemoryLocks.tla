--------------------------- MODULE MCMemoryLocks ----------------------------
(***************************************************************************)
(* Instances of MemoryLocks for TLC.                                       *)
(***************************************************************************)
EXTENDS MemoryLocks, TLC

CONSTANTS c1, c2, a1, a2, b1, r1, f1

\* A client that owns two identifiers can relock and refresh under another one.
SessionByLetter == [l \in LockIds |-> IF l \in {a1, a2} THEN c1 ELSE c2]
AllOps == Operations
LockOps == {"Lock", "Relock", "Unlock", "RefreshLock", "PutFile"}
=============================================================================
