---------------------------- MODULE MemoryLocks -----------------------------
(***************************************************************************)
(* The lock operations of FilesController over MemoryLockProvider, and the *)
(* file operations that ask for a lock first.  Every request runs on its   *)
(* own thread: each call on the shared ConcurrentDictionary, each read of  *)
(* the clock and each call on the storage provider is a step, and steps of *)
(* different requests interleave.                                          *)
(***************************************************************************)
EXTENDS LockIds, Integers

CONSTANTS
    Files,
    Nobody,     \* the owner of a file that is not locked
    Names,      \* names a RenameFile may ask for
    Ops,        \* the operations clients use, a subset of Operations
    Lifetime,   \* 30 minutes in the code
    MaxTime,    \* bound on the clock
    Isolated    \* TRUE: requests for one file do not overlap

Operations == {"GetLock", "Lock", "Relock", "Unlock", "RefreshLock",
               "PutFile", "RenameFile", "DeleteFile"}

ASSUME MemoryLocksAssumption ==
    /\ Files # {}
    /\ Nobody \notin Clients /\ Clients \cap {"empty", "gone"} = {}
    /\ Ops \subseteq Operations
    /\ Lifetime \in Nat
    /\ MaxTime \in Nat
    /\ Isolated \in BOOLEAN

VARIABLES
    locks,     \* locks[f]: the dictionary's entry for f, NoEntry if none
    content,   \* content[f]: who wrote f last, "empty" or "gone"
    names,     \* names[f]: what f is called
    pc,        \* pc[c]: how far the thread that serves client c has come
    req,       \* req[c]: the request it serves
    frame,     \* frame[c]: its locals inside the lock provider
    answer,    \* answer[c]: the response it is about to send
    lease,     \* lease[c][f]: when c sent the request that got it f's lock
    now

storage == <<content, names>>
vars == <<locks, storage, pc, req, frame, answer, lease, now>>

Time == 0 .. MaxTime
NotHeld == -1
Reason == "reason text"     \* prose where a lock identifier belongs
Unnamed == "unnamed"        \* the name a file has before any rename

\* WopiLockInfo without FileId, which is the key; lockId = NoLock: no entry.
Entry == [lockId : LockIds \cup {NoLock}, dateCreated : Time]
NoEntry == [lockId |-> NoLock, dateCreated |-> 0]

Present(e) == e.lockId # NoLock

\* Variant with a bug: locks do not expire.
NeverExpired(e) == FALSE

Expired(e) == e.dateCreated + Lifetime < now

Label == {"idle", "refetch", "read", "check", "evict", "handle", "stamp",
          "store", "remove", "write", "rename", "delete", "reply"}

Request ==
    [op    : Operations \cup {"none"},
     file  : Files,
     old   : LockIds \cup {NoLock},      \* X-WOPI-OldLock
     new   : LockIds \cup {NoLock},      \* X-WOPI-Lock
     since : Time]                       \* when it came in

Frame ==
    [call : {"none", "TryGetLock", "AddLock", "RefreshLock"},
     seen : Entry,                       \* what TryGetValue returned
     date : Time]                        \* DateTimeOffset.UtcNow as read

Response ==
    [status : {"none", "ok", "conflict", "notFound", "error"},
     header : LockIds \cup {NoLock, Reason}]     \* X-WOPI-Lock

NoRequest == [op |-> "none", file |-> CHOOSE f \in Files : TRUE,
              old |-> NoLock, new |-> NoLock, since |-> 0]
NoFrame == [call |-> "none", seen |-> NoEntry, date |-> 0]
NoResponse == [status |-> "none", header |-> NoLock]

TypeOK ==
    /\ locks \in [Files -> Entry]
    /\ content \in [Files -> Clients \cup {"empty", "gone"}]
    /\ names \in [Files -> Names \cup {Unnamed}]
    /\ pc \in [Clients -> Label]
    /\ req \in [Clients -> Request]
    /\ frame \in [Clients -> Frame]
    /\ answer \in [Clients -> Response]
    /\ lease \in [Clients -> [Files -> Time \cup {NotHeld}]]
    /\ now \in Time

Init ==
    /\ locks = [f \in Files |-> NoEntry]
    /\ content \in [Files -> Clients \cup {"empty"}]
    /\ names = [f \in Files |-> Unnamed]
    /\ pc = [c \in Clients |-> "idle"]
    /\ req = [c \in Clients |-> NoRequest]
    /\ frame = [c \in Clients |-> NoFrame]
    /\ answer = [c \in Clients |-> NoResponse]
    /\ lease = [c \in Clients |-> [f \in Files |-> NotHeld]]
    /\ now = 0

-----------------------------------------------------------------------------
(* Moves of one thread that the handlers share.                            *)

Goto(c, label) ==
    /\ pc' = [pc EXCEPT ![c] = label]
    /\ UNCHANGED <<frame, answer>>

Enter(c, label, f) ==
    /\ pc' = [pc EXCEPT ![c] = label]
    /\ frame' = [frame EXCEPT ![c] = f]
    /\ UNCHANGED answer

Call(c, method, label) == Enter(c, label, [frame[c] EXCEPT !.call = method])

Reply(c, status, header) ==
    /\ pc' = [pc EXCEPT ![c] = "reply"]
    /\ frame' = [frame EXCEPT ![c] = NoFrame]
    /\ answer' = [answer EXCEPT ![c] = [status |-> status, header |-> header]]

LockMismatch(c, header) == Reply(c, "conflict", header)

\* A lock was granted or refreshed: PutFile goes on to the file, the others answer.
Granted(c) ==
    IF req[c].op = "PutFile" THEN Enter(c, "write", NoFrame) ELSE Reply(c, "ok", NoLock)

\* RefreshLock returned false.  Unlock and relock puts the reason into X-WOPI-Lock.
NotRefreshed(c) == LockMismatch(c, IF req[c].op = "Relock" THEN Reason ELSE NoLock)

\* TryGetLock returned, to the controller or to RefreshLock.
Returned(c, entry) ==
    IF frame[c].call = "TryGetLock"
    THEN Enter(c, "handle", [NoFrame EXCEPT !.seen = entry])
    ELSE IF Present(entry)
         THEN Enter(c, "stamp", [frame[c] EXCEPT !.seen = entry])
         ELSE NotRefreshed(c)

-----------------------------------------------------------------------------
(* A request arrives and its handler fetches the file.                     *)

\* Headers each operation is sent with; a blank X-WOPI-Lock is NoLock.
Headers(c, op) ==
    CASE op = "Relock" -> IdsOf(c) \X (IdsOf(c) \cup {NoLock})
      [] op \in {"GetLock", "DeleteFile"} -> {<<NoLock, NoLock>>}
      [] OTHER -> {NoLock} \X (IdsOf(c) \cup {NoLock})

\* ProcessLock throws if the file is missing, the other handlers answer 404.
\* PutFile without X-WOPI-Lock asks for no lock: only the file's size counts.
Fetch(c, op, f, new) ==
    CASE content[f] = "gone" ->
           Reply(c, IF op \in {"PutFile", "RenameFile", "DeleteFile"}
                    THEN "notFound" ELSE "error", NoLock)
      [] content[f] # "gone" /\ op # "PutFile" -> Call(c, "TryGetLock", "read")
      [] content[f] # "gone" /\ op = "PutFile" /\ new # NoLock -> Goto(c, "refetch")
      [] content[f] = "empty" /\ op = "PutFile" /\ new = NoLock -> Goto(c, "write")
      [] OTHER -> Reply(c, "conflict", NoLock)

\* A request for f is under way.
Busy(f) == \E d \in Clients : pc[d] # "idle" /\ req[d].file = f

\* A client that asks to unlock stops relying on its lock as it asks.
Arrive(c) ==
    /\ pc[c] = "idle"
    /\ \E op \in Ops, f \in Files : \E h \in Headers(c, op) :
         /\ Isolated => ~Busy(f)
         /\ req' = [req EXCEPT ![c] = [op |-> op, file |-> f, old |-> h[1],
                                       new |-> h[2], since |-> now]]
         /\ Fetch(c, op, f, h[2])
         /\ lease' = IF op = "Unlock"
                     THEN [lease EXCEPT ![c][f] = NotHeld] ELSE lease
    /\ UNCHANGED <<locks, storage, now>>

\* PutFile calls ProcessLock, which fetches the file again and throws if it is gone.
Refetch(c) ==
    /\ pc[c] = "refetch"
    /\ IF content[req[c].file] = "gone"
       THEN Reply(c, "error", NoLock)
       ELSE Call(c, "TryGetLock", "read")
    /\ UNCHANGED <<locks, storage, req, lease, now>>

-----------------------------------------------------------------------------
(* MemoryLockProvider.                                                     *)

TryGetValue(c) ==
    /\ pc[c] = "read"
    /\ LET entry == locks[req[c].file] IN
         IF Present(entry)
         THEN Enter(c, "check", [frame[c] EXCEPT !.seen = entry])
         ELSE Returned(c, NoEntry)
    /\ UNCHANGED <<locks, storage, req, lease, now>>

CheckExpired(c) ==
    /\ pc[c] = "check"
    /\ IF Expired(frame[c].seen) THEN Goto(c, "evict") ELSE Returned(c, frame[c].seen)
    /\ UNCHANGED <<locks, storage, req, lease, now>>

\* RemoveLock(fileId) goes by the key: it removes whatever the entry is by now.
Evict(c) ==
    /\ pc[c] = "evict"
    /\ locks' = [locks EXCEPT ![req[c].file] = NoEntry]
    /\ Returned(c, NoEntry)
    /\ UNCHANGED <<storage, req, lease, now>>

\* AddLock and RefreshLock read the clock before they touch the dictionary.
Stamp(c) ==
    /\ pc[c] = "stamp"
    /\ Enter(c, "store", [frame[c] EXCEPT !.date = now])
    /\ UNCHANGED <<locks, storage, req, lease, now>>

\* Variant with a bug: the entry bears the date it expires.
ExpiryEntry(c) == [lockId |-> req[c].new, dateCreated |-> frame[c].date + Lifetime]

NewEntry(c) == [lockId |-> req[c].new, dateCreated |-> frame[c].date]

\* Variant with a bug: locks[fileId] = lockInfo, whatever is there.
Anything(c) == TRUE

Vacant(c) == ~Present(locks[req[c].file])

AsSeen(c) == locks[req[c].file] = frame[c].seen

TryAdd(c) ==
    /\ pc[c] = "store"
    /\ frame[c].call = "AddLock"
    /\ IF Vacant(c)
       THEN /\ locks' = [locks EXCEPT ![req[c].file] = NewEntry(c)]
            /\ Granted(c)
       ELSE /\ LockMismatch(c, Reason)
            /\ UNCHANGED locks
    /\ UNCHANGED <<storage, req, lease, now>>

\* TryUpdate compares the entry with the one RefreshLock read, by value.
TryUpdate(c) ==
    /\ pc[c] = "store"
    /\ frame[c].call = "RefreshLock"
    /\ IF AsSeen(c)
       THEN /\ locks' = [locks EXCEPT ![req[c].file] = NewEntry(c)]
            /\ Granted(c)
       ELSE /\ NotRefreshed(c)
            /\ UNCHANGED locks
    /\ UNCHANGED <<storage, req, lease, now>>

RemoveLock(c) ==
    /\ pc[c] = "remove"
    /\ IF Present(locks[req[c].file])
       THEN Reply(c, "ok", NoLock) ELSE LockMismatch(c, Reason)
    /\ locks' = [locks EXCEPT ![req[c].file] = NoEntry]
    /\ UNCHANGED <<storage, req, lease, now>>

-----------------------------------------------------------------------------
(* The controller's handlers, once TryGetLock has returned frame[c].seen.  *)

Seen(c) == frame[c].seen

Handling(c, ops) ==
    /\ pc[c] = "handle"
    /\ req[c].op \in ops
    /\ UNCHANGED <<locks, storage, req, lease, now>>

HandleGetLock(c) ==
    /\ Handling(c, {"GetLock"})
    /\ Reply(c, "ok", Seen(c).lockId)

\* Go on as Matched says if the lock seen is compatible with the request's id.
Compared(c, id, Matched) ==
    CASE ComparisonThrows(Seen(c).lockId, id) -> Reply(c, "error", NoLock)
      [] ~ComparisonThrows(Seen(c).lockId, id) /\ AreLocksCompatible(Seen(c).lockId, id) -> Matched
      [] OTHER -> LockMismatch(c, Seen(c).lockId)

CallRefreshLock(c) == Call(c, "RefreshLock", "read")

\* Variant with a bug: a PutFile on a locked file writes without comparing.
PutUncompared(c) ==
    IF req[c].op = "PutFile" THEN Granted(c) ELSE Compared(c, req[c].new, CallRefreshLock(c))

LockOrRefresh(c) == Compared(c, req[c].new, CallRefreshLock(c))

\* HandleLockOrPut without X-WOPI-OldLock.
HandleLockOrPut(c) ==
    /\ Handling(c, {"Lock", "PutFile"})
    /\ IF req[c].new = NoLock THEN LockMismatch(c, NoLock)
       ELSE IF Present(Seen(c)) THEN LockOrRefresh(c)
       ELSE Call(c, "AddLock", "stamp")

\* HandleLockOrPut with X-WOPI-OldLock: unlock and relock.
HandleRelock(c) ==
    /\ Handling(c, {"Relock"})
    /\ IF Present(Seen(c))
       THEN Compared(c, req[c].old,
                     IF req[c].new = NoLock
                     THEN LockMismatch(c, NoLock) ELSE CallRefreshLock(c))
       ELSE LockMismatch(c, NoLock)

\* Variant with a bug: any session may unlock.
UnlockUncompared(c) ==
    /\ Handling(c, {"Unlock"})
    /\ IF Present(Seen(c)) THEN Goto(c, "remove") ELSE LockMismatch(c, NoLock)

HandleUnlock(c) ==
    /\ Handling(c, {"Unlock"})
    /\ IF Present(Seen(c))
       THEN Compared(c, req[c].new, Goto(c, "remove"))
       ELSE LockMismatch(c, NoLock)

HandleRefreshLock(c) ==
    /\ Handling(c, {"RefreshLock"})
    /\ IF Present(Seen(c)) /\ req[c].new # NoLock
       THEN LockOrRefresh(c)
       ELSE LockMismatch(c, NoLock)

\* Variant with a bug: any identifier will do, whichever the lock's is.
RenameUncompared(c) ==
    /\ Handling(c, {"RenameFile"})
    /\ IF Present(Seen(c)) /\ req[c].new = NoLock
       THEN LockMismatch(c, Seen(c).lockId)
       ELSE Goto(c, "rename")

\* RenameFile compares identifiers exactly; DeleteFile yields to any lock.
HandleRenameFile(c) ==
    /\ Handling(c, {"RenameFile"})
    /\ IF Present(Seen(c)) /\ Seen(c).lockId # req[c].new
       THEN LockMismatch(c, Seen(c).lockId)
       ELSE Goto(c, "rename")

\* Variant with a bug: the lock is not looked at.
DeleteUnchecked(c) ==
    /\ Handling(c, {"DeleteFile"})
    /\ Goto(c, "delete")

HandleDeleteFile(c) ==
    /\ Handling(c, {"DeleteFile"})
    /\ IF Present(Seen(c))
       THEN LockMismatch(c, Seen(c).lockId)
       ELSE Goto(c, "delete")

-----------------------------------------------------------------------------
(* The storage provider acts, or refuses, and the answer goes out.         *)

\* A write may fail, before or after it truncates the file; opening the write
\* stream of a deleted file always does.
WriteFile(c) ==
    /\ pc[c] = "write"
    /\ LET before == content[req[c].file] IN
         \/ /\ before # "gone"
            /\ content' = [content EXCEPT ![req[c].file] = c]
            /\ Reply(c, "ok", NoLock)
         \/ /\ \E left \in IF before = "gone" THEN {"gone"} ELSE {before, "empty", c} :
                 content' = [content EXCEPT ![req[c].file] = left]
            /\ Reply(c, "error", NoLock)
    /\ UNCHANGED <<locks, names, req, lease, now>>

RenameFile(c) ==
    /\ pc[c] = "rename"
    /\ \/ /\ content[req[c].file] # "gone"
          /\ \E n \in Names : names' = [names EXCEPT ![req[c].file] = n]
          /\ Reply(c, "ok", NoLock)
       \/ /\ \E status \in {"conflict", "notFound", "error"} : Reply(c, status, NoLock)
          /\ UNCHANGED names
    /\ UNCHANGED <<locks, content, req, lease, now>>

\* The lock, if one came in between, stays in the dictionary.
DeleteFile(c) ==
    /\ pc[c] = "delete"
    /\ \/ /\ content' = [content EXCEPT ![req[c].file] = "gone"]
          /\ Reply(c, "ok", NoLock)
       \/ /\ Reply(c, "error", NoLock)
          /\ UNCHANGED content
    /\ UNCHANGED <<locks, names, req, lease, now>>

LockingOps == {"Lock", "Relock", "RefreshLock", "PutFile"}

\* The answer says that c's session has the file locked.
GrantedLock(c) ==
    req[c].op \in LockingOps /\ req[c].new # NoLock /\ answer[c].status = "ok"

\* The client learns of its lock from the answer alone, and counts the lease
\* from the moment it sent the request.
Deliver(c) ==
    /\ pc[c] = "reply"
    /\ lease' = IF GrantedLock(c)
                THEN [lease EXCEPT ![c][req[c].file] = req[c].since] ELSE lease
    /\ pc' = [pc EXCEPT ![c] = "idle"]
    /\ req' = [req EXCEPT ![c] = NoRequest]
    /\ answer' = [answer EXCEPT ![c] = NoResponse]
    /\ UNCHANGED <<locks, storage, frame, now>>

Tick ==
    /\ now < MaxTime
    /\ now' = now + 1
    /\ UNCHANGED <<locks, storage, pc, req, frame, answer, lease>>

Step(c) ==
    \/ Arrive(c) \/ Refetch(c)
    \/ TryGetValue(c) \/ CheckExpired(c) \/ Evict(c)
    \/ Stamp(c) \/ TryAdd(c) \/ TryUpdate(c) \/ RemoveLock(c)
    \/ HandleGetLock(c) \/ HandleLockOrPut(c) \/ HandleRelock(c)
    \/ HandleUnlock(c) \/ HandleRefreshLock(c)
    \/ HandleRenameFile(c) \/ HandleDeleteFile(c)
    \/ WriteFile(c) \/ RenameFile(c) \/ DeleteFile(c)
    \/ Deliver(c)

Next == Tick \/ \E c \in Clients : Step(c)

Spec == Init /\ [][Next]_vars

-----------------------------------------------------------------------------
(* Properties.                                                             *)

\* Client c may count on having f locked: Lifetime has not passed since it asked.
Relies(c, f) ==
    /\ lease[c][f] # NotHeld
    /\ now <= lease[c][f] + Lifetime

\* The session the dictionary lists for f.
Owner(f) == IF Present(locks[f]) THEN SessionOf[locks[f].lockId] ELSE Nobody

Lease == INSTANCE ExclusiveLease WITH
    owner <- [f \in Files |-> Owner(f)],
    relies <- [c \in Clients |-> {f \in Files : Relies(c, f)}]

\* The controller and the provider together implement the exclusive lease: a
\* lock goes from one session to another only through being free, and the host
\* drops it only when its client no longer counts on it.
ImplementsLease == Lease!Spec

\* HandleLockOrPut, HandleRefreshLock: two sessions never both hold an answer
\* that says they have the same file locked.
MutualExclusion ==
    \A f \in Files : \A c, d \in Clients :
        Relies(c, f) /\ Relies(d, f) => c = d

\* PutFile writes after ProcessLock returned Ok: the lock it was granted is
\* still its session's when the write happens.
LockedPutHoldsLock ==
    \A c \in Clients :
        pc[c] = "write" /\ req[c].new # NoLock => Owner(req[c].file) = c

\* RenameFile, DeleteFile and PutFile, where requests for one file do not overlap:
\* while a client counts on its lock nobody else renames the file, deletes it or
\* replaces what is in it.  Only if there is nothing in it may a PutFile without a
\* lock write to it, which asks for the size alone (FilesController.cs:291).
LockedFileUntouched ==
    [][\A c, d \in Clients : \A f \in Files :
         Relies(c, f) /\ d # c /\ pc'[d] # pc[d] =>
            /\ names'[f] = names[f]
            /\ content'[f] = "gone" => content[f] = "gone"
            /\ content[f] \in {content'[f], "empty"}]_vars

\* RefreshLock's TryUpdate: refreshing a lock never brings its expiry forward,
\* however many refreshes of it overlap.
RenewalNeverShortens ==
    [][\A f \in Files : Present(locks[f]) /\ Present(locks'[f]) =>
         locks'[f].dateCreated >= locks[f].dateCreated]_vars

\* RefreshLock, unlock and relock: a lock that was removed while the request
\* was under way stays removed; only AddLock makes a new one.
RefreshNeverResurrects ==
    [][\A f \in Files : ~Present(locks[f]) /\ Present(locks'[f]) =>
         \E c \in Clients : frame[c].call = "AddLock" /\ pc'[c] # pc[c]]_vars

\* TryGetLock: a lock that had expired when the request came in never decides
\* the request.
ExpiredLockNeverDecides ==
    \A c \in Clients : pc[c] = "handle" /\ Present(frame[c].seen) =>
        frame[c].seen.dateCreated + Lifetime >= req[c].since

-----------------------------------------------------------------------------
(* The inductive invariant behind mutual exclusion.  It needs Guarded:     *)
(* requests for one file do not overlap, or no lock is old enough to       *)
(* expire.                                                                 *)

Guarded == Isolated \/ MaxTime <= Lifetime

InFlight(c) == pc[c] # "idle"

\* c's thread is inside RefreshLock, which it enters after the comparison.
Refreshing(c) ==
    /\ pc[c] \in {"read", "check", "evict", "stamp", "store"}
    /\ frame[c].call = "RefreshLock"

\* c's request was granted the lock and has yet to use it or to be answered.
HasGrant(c) ==
    \/ pc[c] = "write" /\ req[c].new # NoLock
    \/ pc[c] = "reply" /\ GrantedLock(c)

SawOwnLock(c) ==
    /\ pc[c] \in {"check", "evict", "handle", "stamp", "store"}
    /\ Present(frame[c].seen)
    /\ SessionOf[frame[c].seen.lockId] = c

\* What a thread carries fits the point it has reached.
RequestInv(c) ==
    /\ req[c].new \in IdsOf(c) \cup {NoLock}
    /\ req[c].old \in IdsOf(c) \cup {NoLock}
    /\ req[c].since <= now
    /\ pc[c] \in {"read", "check", "evict"} => frame[c].call \in {"TryGetLock", "RefreshLock"}
    /\ pc[c] \in {"stamp", "store"} => frame[c].call \in {"AddLock", "RefreshLock"}
    /\ pc[c] \in {"stamp", "store"} /\ frame[c].call = "AddLock"
         => req[c].op \in {"Lock", "PutFile"}
    /\ pc[c] \in {"stamp", "store"} \/ Refreshing(c) => req[c].new # NoLock
    /\ Refreshing(c) /\ pc[c] # "read" => Present(frame[c].seen)
    /\ pc[c] = "store" => req[c].since <= frame[c].date
    /\ pc[c] = "handle" /\ Present(frame[c].seen)
         => req[c].since <= frame[c].seen.dateCreated + Lifetime
    /\ pc[c] = "remove" => req[c].op = "Unlock"
    /\ pc[c] = "rename" => req[c].op = "RenameFile"
    /\ pc[c] = "delete" => req[c].op = "DeleteFile"

\* A session that saw its own lock, or was granted it, still has it.
OwnerInv(c) ==
    /\ Refreshing(c) /\ pc[c] # "read" => SawOwnLock(c)
    /\ Refreshing(c) \/ SawOwnLock(c) \/ HasGrant(c) \/ pc[c] = "remove"
         => Owner(req[c].file) = c
    /\ HasGrant(c) => req[c].since <= locks[req[c].file].dateCreated

\* Whoever is about to evict a lock has seen the very entry that is still there.
EvictInv(c) ==
    /\ pc[c] = "evict" => Expired(frame[c].seen)
    /\ pc[c] \in {"check", "evict"} /\ Isolated => locks[req[c].file] = frame[c].seen

\* A client's lease is covered by the host's lock, which is no older.
LeaseInv(c) ==
    \A f \in Files :
        /\ lease[c][f] <= now
        /\ InFlight(c) => lease[c][f] <= req[c].since
        /\ InFlight(c) /\ req[c].op = "Unlock" => lease[c][req[c].file] = NotHeld
        /\ Relies(c, f) => /\ Owner(f) = c
                           /\ lease[c][f] <= locks[f].dateCreated

IsolatedInv(c) ==
    Isolated /\ InFlight(c) =>
        \A d \in Clients : InFlight(d) /\ req[d].file = req[c].file => d = c

LockInv ==
    \A c \in Clients :
        RequestInv(c) /\ OwnerInv(c) /\ EvictInv(c) /\ LeaseInv(c) /\ IsolatedInv(c)

\* If Isolated: the lock a handler goes by is still its file's, and a thread
\* about to change the file found that no other session has it locked, or it empty.
StorageInv(c) ==
    /\ pc[c] = "handle" /\ Present(locks[req[c].file])
         => locks[req[c].file] = frame[c].seen
    /\ pc[c] = "rename" => Owner(req[c].file) \in {c, Nobody}
    /\ pc[c] = "delete" => Owner(req[c].file) = Nobody
    /\ pc[c] = "write" /\ req[c].new = NoLock => content[req[c].file] = "empty"

FilesInv == \A c \in Clients : StorageInv(c)

-----------------------------------------------------------------------------
(* What the code's comments say of it and interleaved requests break.      *)

\* "someone else might have locked the file. Return a lock mismatch"
\* (LockOrRefresh): a request never replaces another session's lock by its own.
OwnerNeverReplaced ==
    [][\A f \in Files : Present(locks[f]) /\ Present(locks'[f]) =>
         Owner(f)' = Owner(f)]_vars
=============================================================================
