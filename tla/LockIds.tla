------------------------------ MODULE LockIds ------------------------------
(***************************************************************************)
(* Lock identifiers as FilesController compares them.  An identifier is    *)
(* either plain text, which is its own session, or the JSON object an      *)
(* Office client sends, whose "S" member names the editing session.  Two   *)
(* identifiers are compatible when they belong to one session.             *)
(***************************************************************************)

CONSTANTS
    Clients,    \* editing sessions, each driven by one WOPI client
    LockIds,    \* the lock identifiers that travel in X-WOPI-Lock headers
    SessionOf,  \* the session each identifier names
    RawIds,     \* identifiers that parse as JSON but are no JSON object
    NoLock      \* an absent, empty or blank identifier

ASSUME LockIdsAssumption ==
    /\ SessionOf \in [LockIds -> Clients]
    /\ RawIds \subseteq LockIds
    /\ NoLock \notin LockIds

IdsOf(c) == {l \in LockIds : SessionOf[l] = c}

\* JsonElement.TryGetProperty throws on a number, a string, an array: only
\* identifiers outside RawIds yield a session, and only JsonException is caught.
ExtractSessionId(l) == SessionOf[l]

\* The comparison reaches ExtractSessionId only for two different identifiers.
ComparisonThrows(a, b) ==
    /\ a # NoLock /\ b # NoLock /\ a # b
    /\ a \in RawIds \/ b \in RawIds

\* Variant with a bug: any two identifiers belong to one session.
AnyCompatible(a, b) == a # NoLock /\ b # NoLock

AreLocksCompatible(a, b) ==
    /\ a # NoLock /\ b # NoLock
    /\ a = b \/ ExtractSessionId(a) = ExtractSessionId(b)
=============================================================================
