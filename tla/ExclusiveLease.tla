-------------------------- MODULE ExclusiveLease ---------------------------
(***************************************************************************)
(* What a WOPI host promises about locks, with no mechanism in it.  A file *)
(* has at most one owning session.  A client may rely on its lease only    *)
(* while the host still lists its session as the owner, and the host lets  *)
(* go of an owner only once that client no longer relies on the lease.     *)
(***************************************************************************)

CONSTANTS Clients, Files, Nobody

VARIABLES
    owner,    \* owner[f]: the session the host says has f locked, or Nobody
    relies    \* relies[c]: the files client c may count on having locked

vars == <<owner, relies>>

TypeOK ==
    /\ owner \in [Files -> Clients \cup {Nobody}]
    /\ relies \in [Clients -> SUBSET Files]

Init ==
    /\ owner = [f \in Files |-> Nobody]
    /\ relies = [c \in Clients |-> {}]

\* A free file gets an owner, who may count on it at once; an owned one never
\* passes straight to another.
Acquire(c, f) ==
    /\ owner[f] = Nobody
    /\ owner' = [owner EXCEPT ![f] = c]
    /\ relies' \in {relies, [relies EXCEPT ![c] = @ \cup {f}]}

\* The host's answer tells the owner that it has the lock.
Learn(c, f) ==
    /\ owner[f] = c
    /\ relies' = [relies EXCEPT ![c] = @ \cup {f}]
    /\ UNCHANGED owner

\* Leases lapse, or are given up by their clients, any number at a time.
Forget ==
    /\ UNCHANGED owner
    /\ relies' \in [Clients -> SUBSET Files]
    /\ \A c \in Clients : relies'[c] \subseteq relies[c]

Drop(f) ==
    /\ owner[f] # Nobody
    /\ f \notin relies[owner[f]]
    /\ owner' = [owner EXCEPT ![f] = Nobody]
    /\ UNCHANGED relies

Next ==
    \/ Forget
    \/ \E c \in Clients, f \in Files : Acquire(c, f) \/ Learn(c, f)
    \/ \E f \in Files : Drop(f)

Spec == Init /\ [][Next]_vars
=============================================================================
