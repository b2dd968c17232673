----------------------------- MODULE MCDbFiles ------------------------------
(***************************************************************************)
(* Instances of DbFiles for TLC.                                           *)
(***************************************************************************)
EXTENDS DbFiles, TLC

CONSTANTS f1, f2, c1, c2

\* A numbered name is the name asked for with its number.
MCNames == Requested \X (0 .. Tries)
MCCandidate == [r \in Requested |-> [k \in 0 .. Tries |-> <<r, k>>]]
AllFaults == FaultySteps
=============================================================================
