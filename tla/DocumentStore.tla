--------------------------- MODULE DocumentStore ----------------------------
(***************************************************************************)
(* What the host's file storage promises: documents that keep their        *)
(* content under every name they are given, are replaced only as a whole   *)
(* and by content of their own, and never come back once deleted.  An      *)
(* operation that fails half-way may cost the document it was working on,  *)
(* and no other; a host that stops may do so to several at once.           *)
(***************************************************************************)
CONSTANTS
    Files,
    Names,
    ContentsOf,  \* ContentsOf[f]: what may be stored as f
    Gone,         \* the name of a deleted file
    Lost          \* content the host no longer vouches for

VARIABLES
    called,       \* called[f]: the name of f
    holds         \* holds[f]: the content of f

vars == <<called, holds>>

Free(n) == \A f \in Files : called[f] # n

Init ==
    /\ called \in [Files -> Names]
    /\ \A f, g \in Files : called[f] = called[g] => f = g
    /\ holds \in [Files -> (UNION {ContentsOf[f] : f \in Files}) \cup {Lost}]
    /\ \A f \in Files : holds[f] \in ContentsOf[f] \cup {Lost}

Put(f) ==
    /\ called[f] # Gone
    /\ \E d \in ContentsOf[f] : holds' = [holds EXCEPT ![f] = d]
    /\ UNCHANGED called

Rename(f) ==
    /\ called[f] # Gone
    /\ \E n \in Names : Free(n) /\ called' = [called EXCEPT ![f] = n]
    /\ UNCHANGED holds

Delete(f) ==
    /\ called' = [called EXCEPT ![f] = Gone]
    /\ holds' = [holds EXCEPT ![f] = Lost]

Lose(F) ==
    /\ holds' = [f \in Files |-> IF f \in F THEN Lost ELSE holds[f]]
    /\ UNCHANGED called

Next ==
    \/ \E f \in Files : Put(f) \/ Rename(f) \/ Delete(f)
    \/ \E F \in SUBSET Files : Lose(F)

Spec == Init /\ [][Next]_vars
=============================================================================
