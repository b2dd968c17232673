------------------------------ MODULE MCFsIds -------------------------------
(***************************************************************************)
(* Instances of FsIds for TLC.                                             *)
(***************************************************************************)
EXTENDS FsIds, TLC

CONSTANTS a, b

\* A numbered name is the name asked for with its number.
MCCandidate == [r \in Requested |-> [k \in 0 .. MaxObjects |-> <<r, k>>]]

\* A folder in a folder; in each a file whose name ends in "test.wopitest".
MCOnDisk ==
    LET dir == <<<<a, 0>>>>
        sub == <<<<a, 0>>, <<a, 0>>>>
        name == <<b, 0>>
    IN  RootPath :> Root
          @@ dir :> [kind |-> "folder", no |-> 1]
          @@ sub :> [kind |-> "folder", no |-> 2]
          @@ Append(dir, name) :> [kind |-> "file", no |-> 3]
          @@ Append(sub, name) :> [kind |-> "file", no |-> 4]

MCTestNames == {<<b, 0>>}
=============================================================================
