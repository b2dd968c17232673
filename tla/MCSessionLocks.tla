--------------------------- MODULE MCSessionLocks ---------------------------
(***************************************************************************)
(* Instances of SessionLocks for TLC.                                      *)
(***************************************************************************)
EXTENDS SessionLocks, TLC

CONSTANTS s1, s2, s3, u1, u2, f1, f2

LockUnlock == [s \in Sessions |-> {"Lock", "Unlock"}]

\* s1 and s2 are one user's, who has both files open in s1; s3 is of another, whom only
\* its lock identifiers name.
TokenOfTwo == [s \in Sessions |-> IF s = s3 THEN NoUser ELSE u1]
NameOfSome ==
    [s \in Sessions |-> CASE s = s1 -> u1 [] s = s2 -> NoUser [] s = s3 -> u2]
FirstBoth ==
    [s \in Sessions |-> CASE s = s1 -> {f1, f2} [] s = s2 -> {f1} [] s = s3 -> {f2}]

\* s1 meets s2 on one file and s3 on the other: it gives its locks back, s2 leaves its
\* own to expire and s3 renews it.
UnlockLeaveRenew ==
    [s \in Sessions |-> CASE s = s1 -> {"Lock", "Unlock"}
                          [] s = s2 -> {"Lock"}
                          [] s = s3 -> {"Lock", "RefreshLock"}]

\* One table is like another.
TablesAlike == Permutations(Tables)

\* One user who opens a file in each session.
SameUser == [s \in Sessions |-> u1]
NameNobody == [s \in Sessions |-> NoUser]
AnyFile == [s \in Sessions |-> Files]
=============================================================================
