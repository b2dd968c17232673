---------------------------- MODULE SessionLocks ----------------------------
(***************************************************************************)
(* InMemoryWopiLockProvider of the sample host, under the lock operations  *)
(* of FilesController and the cleanup of SessionCleanupController.  Every  *)
(* file has a table of its own, from session to lock.  A thread takes a    *)
(* reference to the table out of the outer dictionary and goes on to work  *)
(* on it, whether or not it is still the file's table by then.             *)
(***************************************************************************)
EXTENDS Integers

CONSTANTS
    Sessions,   \* editing sessions; each sends one request at a time
    Cleaners,   \* callers of force-save-cleanup-user
    Users,
    NoUser,
    TokenUser,  \* TokenUser[s]: the user in the token of session s, or NoUser
    IdUser,     \* IdUser[s]: the user its lock identifiers name, or NoUser
    Files,
    OpsOf,      \* OpsOf[s]: the lock operations session s uses
    FilesOf,    \* FilesOf[s]: the files session s opens
    Tables,     \* the inner dictionaries, one per file and thread at most
    NoTable,
    NoSession,
    Lifetime,   \* 30 minutes in the code
    MaxTime,    \* bound on the clock
    Isolated    \* TRUE: requests that conflict do not overlap

ASSUME SessionLocksAssumption ==
    /\ Sessions \cap Cleaners = {} /\ NoSession \notin Sessions
    /\ NoUser \notin Users /\ NoTable \notin Tables
    /\ TokenUser \in [Sessions -> Users \cup {NoUser}]
    /\ IdUser \in [Sessions -> Users \cup {NoUser}]
    /\ OpsOf \in [Sessions -> SUBSET {"GetLock", "Lock", "RefreshLock", "Unlock"}]
    /\ Files # {} /\ FilesOf \in [Sessions -> SUBSET Files]
    /\ Lifetime \in Nat /\ MaxTime \in Nat
    /\ Isolated \in BOOLEAN

VARIABLES
    fileLocks,      \* fileLocks[f]: f's table, or NoTable
    tables,         \* tables[d][s]: when the lock of s in table d was made
    sessionToUser,  \* sessionToUser[s]: the user s is known to be of
    thread,         \* thread[t]: the request t serves and its locals
    now

vars == <<fileLocks, tables, sessionToUser, thread, now>>

Threads == Sessions \cup Cleaners
Time == 0 .. MaxTime
Absent == -1
Stamp == Time \cup {Absent}
Empty == [s \in Sessions |-> Absent]

Thread ==
    [at     : {"idle", "get", "list", "purge", "first", "isEmpty", "drop", "map",
               "visit", "match", "take", "unmap", "probe", "check", "forget",
               "stamp", "store", "clear", "unlist"},
     op     : {"none", "GetLock", "Lock", "RefreshLock", "Unlock", "Cleanup"},
     method : {"none", "TryGetLock", "AddLock", "RefreshLock", "RemoveLock",
               "CleanupStaleSessionsForUser"},
     user   : Users \cup {NoUser},      \* whose sessions it cleans up
     file   : Files,                    \* the file it is working on
     asked  : Files,                    \* the file the request names
     table  : Tables \cup {NoTable},    \* fileSessions
     todo   : SUBSET Files,             \* files the cleanup has yet to visit
     doomed : SUBSET Sessions,          \* expiredSessions, staleSessions
     taken  : Sessions \cup {NoSession},
     seen   : Stamp,                    \* existingLock
     date   : Time]                     \* DateTimeOffset.UtcNow as read

Idle == LET f == CHOOSE g \in Files : TRUE IN
    [at |-> "idle", op |-> "none", method |-> "none", user |-> NoUser,
     file |-> f, asked |-> f, table |-> NoTable, todo |-> {},
     doomed |-> {}, taken |-> NoSession, seen |-> Absent, date |-> 0]

TypeOK ==
    /\ fileLocks \in [Files -> Tables \cup {NoTable}]
    /\ tables \in [Tables -> [Sessions -> Stamp]]
    /\ sessionToUser \in [Sessions -> Users \cup {NoUser}]
    /\ thread \in [Threads -> Thread]
    /\ now \in Time

Init ==
    /\ fileLocks = [f \in Files |-> NoTable]
    /\ tables = [d \in Tables |-> Empty]
    /\ sessionToUser = [s \in Sessions |-> NoUser]
    /\ thread = [t \in Threads |-> Idle]
    /\ now = 0

Expired(date) == date + Lifetime < now
Listed(d) == {s \in Sessions : tables[d][s] # Absent}
ListedFor(f) == IF fileLocks[f] = NoTable THEN {} ELSE Listed(fileLocks[f])
ActiveIn(f) == {s \in ListedFor(f) : ~Expired(tables[fileLocks[f]][s])}

-----------------------------------------------------------------------------
(* Moves of one thread.  Go keeps its locals.                              *)

At(t, label) == thread[t].at = label
Become(t, r) == thread' = [thread EXCEPT ![t] = r]
Go(t, label) == Become(t, [thread[t] EXCEPT !.at = label])
Answer(t) == Become(t, Idle)

\* A call of a method of the provider, with locals of its own.
CallFor(t, method, label) ==
    Become(t, [thread[t] EXCEPT !.at = label, !.method = method,
                                !.table = NoTable, !.seen = Absent])

\* Variant with a bug: a session locks a file that another one has locked.
NotItsOwn(t, s) == s # t

Unlocked(t, s) == s = NoSession

\* Variant with a bug: any session may unlock.
AnySession(t, s) == s # NoSession

Compatible(t, s) == s = t

\* The controller's handlers, once TryGetLock returned the lock of session s.
Handle(t, s) ==
    CASE thread[t].op = "Lock" /\ Unlocked(t, s) -> CallFor(t, "AddLock", "map")
      [] thread[t].op \in {"Lock", "RefreshLock"} /\ Compatible(t, s) ->
           CallFor(t, "RefreshLock", "get")
      [] thread[t].op = "Unlock" /\ Compatible(t, s) -> CallFor(t, "RemoveLock", "get")
      [] OTHER -> Answer(t)

-----------------------------------------------------------------------------
(* Requests arrive.                                                        *)

\* Lock, for the cleanup in AddLock, and the cleanup go over all files' tables.
Sweeps(op) == op \in {"Lock", "Cleanup"}

\* Two sweeps conflict, and two requests for one file that do not both read.
Conflict(q, r) ==
    \/ Sweeps(q.op) /\ Sweeps(r.op)
    \/ /\ q.asked = r.asked /\ "Cleanup" \notin {q.op, r.op}
       /\ {q.op, r.op} # {"GetLock"}

Free(q) ==
    Isolated => \A t \in Threads : ~At(t, "idle") => ~Conflict(q, thread[t])

Begin(t, q) ==
    /\ At(t, "idle") /\ Free(q)
    /\ Become(t, q)
    /\ UNCHANGED <<fileLocks, tables, sessionToUser, now>>

Arrive(s) ==
    \E op \in OpsOf[s], f \in FilesOf[s] :
         Begin(s, [Idle EXCEPT !.at = "get", !.method = "TryGetLock", !.op = op,
                                 !.file = f, !.asked = f])

ForceSaveAndCleanupUserSessions(t) ==
    \E u \in Users :
         Begin(t, [Idle EXCEPT !.at = "visit", !.op = "Cleanup",
                                 !.method = "CleanupStaleSessionsForUser",
                                 !.user = u, !.todo = Files])

-----------------------------------------------------------------------------
(* The outer dictionary.                                                   *)

\* A table that neither the dictionary nor a thread refers to.
Unused(d) ==
    /\ \A f \in Files : fileLocks[f] # d
    /\ \A t \in Threads : thread[t].table # d

\* TryGetValue finds no table: TryGetLock returns false, the others fail.
NotFound(t) == IF thread[t].method = "TryGetLock" THEN Handle(t, NoSession) ELSE Answer(t)

AfterGet(t) ==
    CASE thread[t].method \in {"TryGetLock", "AddLock"} -> "list"
      [] thread[t].method = "RefreshLock" -> "probe"
      [] OTHER -> "clear"

\* Variant with a bug: AddLock makes a table without adding it to the dictionary.
Unlisted(f, d) == fileLocks

List(f, d) == [fileLocks EXCEPT ![f] = d]

\* _fileLocks.TryGetValue, or GetOrAdd in AddLock.
GetTable(t) ==
    /\ At(t, "get")
    /\ LET d == fileLocks[thread[t].file] IN
         IF d # NoTable
         THEN /\ Become(t, [thread[t] EXCEPT !.at = AfterGet(t), !.table = d])
              /\ UNCHANGED <<fileLocks, tables>>
         ELSE IF thread[t].method = "AddLock"
         THEN \E e \in Tables :
                /\ Unused(e)
                /\ tables' = [tables EXCEPT ![e] = Empty]
                /\ fileLocks' = List(thread[t].file, e)
                /\ Become(t, [thread[t] EXCEPT !.at = "list", !.table = e])
         ELSE NotFound(t) /\ UNCHANGED <<fileLocks, tables>>
    /\ UNCHANGED <<sessionToUser, now>>

-----------------------------------------------------------------------------
(* Expired sessions, in TryGetLock and AddLock.                            *)

ListExpired(t) ==
    /\ At(t, "list")
    /\ Become(t, [thread[t] EXCEPT !.at = "purge",
          !.doomed = {s \in Listed(thread[t].table) : Expired(tables[thread[t].table][s])}])
    /\ UNCHANGED <<fileLocks, tables, sessionToUser, now>>

Remove(t, s) == tables' = [tables EXCEPT ![thread[t].table][s] = Absent]

\* Variant with a bug: the loop does not get past a session it removed.
Same(t, s) == thread[t].doomed

Rest(t, s) == thread[t].doomed \ {s}

PurgeExpired(t) ==
    /\ At(t, "purge")
    /\ IF thread[t].doomed = {}
       THEN /\ Go(t, IF thread[t].method = "AddLock" THEN "probe" ELSE "first")
            /\ UNCHANGED tables
       ELSE \E s \in thread[t].doomed :
              /\ Remove(t, s)
              /\ Become(t, [thread[t] EXCEPT !.doomed = Rest(t, s)])
    /\ UNCHANGED <<fileLocks, sessionToUser, now>>

\* The session TryGetLock returns is the first of the active ones, in the
\* order of the table.
FirstActive(t) ==
    /\ At(t, "first")
    /\ LET d == thread[t].table
           active == {s \in Listed(d) : ~Expired(tables[d][s])} IN
         IF active # {} THEN \E s \in active : Handle(t, s) ELSE Go(t, "isEmpty")
    /\ UNCHANGED <<fileLocks, tables, sessionToUser, now>>

\* IsEmpty, in TryGetLock and in the cleanup's loop over the files.
TestEmpty(t) ==
    /\ At(t, "isEmpty")
    /\ IF Listed(thread[t].table) = {} THEN Go(t, "drop")
       ELSE IF thread[t].method = "TryGetLock" THEN Handle(t, NoSession)
       ELSE Go(t, "visit")
    /\ UNCHANGED <<fileLocks, tables, sessionToUser, now>>

\* _fileLocks.TryRemove(fileId) goes by the key.
DropTable(t) ==
    /\ At(t, "drop")
    /\ fileLocks' = [fileLocks EXCEPT ![thread[t].file] = NoTable]
    /\ IF thread[t].method = "TryGetLock" THEN Handle(t, NoSession) ELSE Go(t, "visit")
    /\ UNCHANGED <<tables, sessionToUser, now>>

-----------------------------------------------------------------------------
(* AddLock and RefreshLock.                                                *)

KnownUser(s) == IF TokenUser[s] # NoUser THEN TokenUser[s] ELSE IdUser[s]

\* AddLock cleans up after the user before it gets to the file.
MapSession(t) ==
    /\ At(t, "map")
    /\ IF KnownUser(t) # NoUser
       THEN /\ sessionToUser' = [sessionToUser EXCEPT ![t] = KnownUser(t)]
            /\ Become(t, [thread[t] EXCEPT !.at = "visit", !.user = KnownUser(t),
                             !.method = "CleanupStaleSessionsForUser", !.todo = Files])
       ELSE Go(t, "get") /\ UNCHANGED sessionToUser
    /\ UNCHANGED <<fileLocks, tables, now>>

\* fileSessions.TryGetValue(sessionId).
ProbeSession(t) ==
    /\ At(t, "probe")
    /\ LET date == tables[thread[t].table][t] IN
         IF thread[t].method = "AddLock"
         THEN Become(t, [thread[t] EXCEPT !.at = "stamp", !.seen = date])
         ELSE IF date = Absent THEN Answer(t)
         ELSE Become(t, [thread[t] EXCEPT !.at = "check", !.seen = date])
    /\ UNCHANGED <<fileLocks, tables, sessionToUser, now>>

CheckExpired(t) ==
    /\ At(t, "check")
    /\ Go(t, IF Expired(thread[t].seen) THEN "forget" ELSE "stamp")
    /\ UNCHANGED <<fileLocks, tables, sessionToUser, now>>

ForgetExpired(t) ==
    /\ At(t, "forget")
    /\ Remove(t, t)
    /\ Answer(t)
    /\ UNCHANGED <<fileLocks, sessionToUser, now>>

\* Variant with a bug: the lock bears the date it expires.
Expiry == now + Lifetime + 1

UtcNow == now

ReadClock(t) ==
    /\ At(t, "stamp")
    /\ Become(t, [thread[t] EXCEPT !.at = "store", !.date = UtcNow])
    /\ UNCHANGED <<fileLocks, tables, sessionToUser, now>>

\* Variant with a bug: fileSessions[sessionId] = lock, whatever is there.
Anything(t) == TRUE

AsSeen(t) == tables[thread[t].table][t] = thread[t].seen

\* TryUpdate if the session was found, else TryAdd: both store if the session's
\* entry is still what it was.  TryUpdate compares by value.
StoreLock(t) ==
    /\ At(t, "store")
    /\ tables' = IF AsSeen(t)
                 THEN [tables EXCEPT ![thread[t].table][t] = thread[t].date]
                 ELSE tables
    /\ Answer(t)
    /\ UNCHANGED <<fileLocks, sessionToUser, now>>

-----------------------------------------------------------------------------
(* RemoveLock.                                                             *)

ClearTable(t) ==
    /\ At(t, "clear")
    /\ tables' = [tables EXCEPT ![thread[t].table] = Empty]
    /\ Go(t, "unlist")
    /\ UNCHANGED <<fileLocks, sessionToUser, now>>

UnlistTable(t) ==
    /\ At(t, "unlist")
    /\ fileLocks' = [fileLocks EXCEPT ![thread[t].file] = NoTable]
    /\ Answer(t)
    /\ UNCHANGED <<tables, sessionToUser, now>>

-----------------------------------------------------------------------------
(* CleanupStaleSessionsForUser: AddLock's, or a request of its own.        *)

\* The loop over the files comes to a file, if it still has a table, or ends.
VisitFile(t) ==
    /\ At(t, "visit")
    /\ IF thread[t].todo = {}
       THEN IF t \in Cleaners THEN Answer(t)
            ELSE Become(t, [thread[t] EXCEPT !.at = "get", !.method = "AddLock",
                               !.user = NoUser, !.table = NoTable,
                               !.file = thread[t].asked])
       ELSE \E f \in thread[t].todo :
              Become(t, [thread[t] EXCEPT !.todo = @ \ {f}, !.file = f,
                            !.table = fileLocks[f],
                            !.at = IF fileLocks[f] = NoTable THEN "visit" ELSE "match"])
    /\ UNCHANGED <<fileLocks, tables, sessionToUser, now>>

SessionUser(s) == IF sessionToUser[s] # NoUser THEN sessionToUser[s] ELSE IdUser[s]

\* Variant with a bug: the cleanup takes expired sessions only.
ExpiredOfUser(d, s, u) == SessionUser(s) = u /\ Expired(tables[d][s])

\* Variant with a bug: the cleanup takes whatever the table lists.
OfAnyone(d, s, u) == TRUE

OfUser(d, s, u) == SessionUser(s) = u

\* The age of the sessions plays no part, whatever maxAge says.
MatchSessions(t) ==
    /\ At(t, "match")
    /\ Become(t, [thread[t] EXCEPT !.at = "take",
          !.doomed = {s \in Listed(thread[t].table) :
                        OfUser(thread[t].table, s, thread[t].user)}])
    /\ UNCHANGED <<fileLocks, tables, sessionToUser, now>>

TakeSession(t) ==
    /\ At(t, "take")
    /\ IF thread[t].doomed = {}
       THEN Go(t, "isEmpty") /\ UNCHANGED tables
       ELSE \E s \in thread[t].doomed :
              /\ Remove(t, s)
              /\ Become(t, [thread[t] EXCEPT !.doomed = @ \ {s}, !.taken = s,
                    !.at = IF s \in Listed(thread[t].table) THEN "unmap" ELSE "take"])
    /\ UNCHANGED <<fileLocks, sessionToUser, now>>

UnmapSession(t) ==
    /\ At(t, "unmap")
    /\ sessionToUser' = [sessionToUser EXCEPT ![thread[t].taken] = NoUser]
    /\ Become(t, [thread[t] EXCEPT !.at = "take", !.taken = NoSession])
    /\ UNCHANGED <<fileLocks, tables, now>>

-----------------------------------------------------------------------------
Tick ==
    /\ now < MaxTime
    /\ now' = now + 1
    /\ UNCHANGED <<fileLocks, tables, sessionToUser, thread>>

\* What a thread does by itself once its request has come in.
Work(t) ==
    \/ GetTable(t) \/ ListExpired(t) \/ PurgeExpired(t) \/ FirstActive(t)
    \/ TestEmpty(t) \/ DropTable(t)
    \/ MapSession(t) \/ ProbeSession(t) \/ CheckExpired(t) \/ ForgetExpired(t)
    \/ ReadClock(t) \/ StoreLock(t) \/ ClearTable(t) \/ UnlistTable(t)
    \/ VisitFile(t) \/ MatchSessions(t) \/ TakeSession(t) \/ UnmapSession(t)

Next ==
    \/ Tick
    \/ \E s \in Sessions : Arrive(s)
    \/ \E t \in Cleaners : ForceSaveAndCleanupUserSessions(t)
    \/ \E t \in Threads : Work(t)

Spec == Init /\ [][Next]_vars

\* The thread pool runs every thread that can go on.
FairSpec == Spec /\ \A t \in Threads : WF_vars(Work(t))

-----------------------------------------------------------------------------
(* Properties that hold however requests interleave.                       *)

\* RefreshLock's TryUpdate: a session that a cleanup, an unlock or an eviction
\* took out of a table while its refresh was under way stays out; only AddLock
\* puts a session in.
RefreshNeverResurrects ==
    [][\A d \in Tables, s \in Sessions :
         tables[d][s] = Absent /\ tables'[d][s] # Absent =>
            thread[s].method = "AddLock"]_vars

\* Every request is answered: no loop over files or sessions that others change
\* at the same time goes on for ever.
EveryRequestEnds == \A t \in Threads : ~At(t, "idle") ~> At(t, "idle")

\* What a thread carries fits the point it has reached.
Fits(t, r) ==
    /\ t \in Cleaners => /\ r.at \in {"idle", "visit", "match", "take", "unmap",
                                       "isEmpty", "drop"}
                         /\ r.method # "TryGetLock"
    /\ r.at \in {"list", "purge", "first", "isEmpty", "drop", "match", "take", "unmap",
                 "probe", "check", "forget", "stamp", "store", "clear"}
         => r.table \in Tables
    /\ r.at \in {"probe", "check", "forget", "stamp", "store"}
         => r.method \in {"AddLock", "RefreshLock"}
    /\ r.at \in {"check", "forget", "stamp", "store"} /\ r.method = "RefreshLock"
         => r.seen # Absent

LocalsFit == \A t \in Threads : Fits(t, thread[t])

-----------------------------------------------------------------------------
(* Properties while no two requests in flight conflict.                    *)

\* HandleLockOrPut over TryGetLock: although a table has room for many sessions,
\* a second one never gets a lock while the first one's is alive.
OneActiveSession == \A f \in Files : \A s, r \in ActiveIn(f) : s = r

\* AddLock: the table a lock goes into is the one that the next request finds,
\* although a cleanup runs between the look-up and the store.
GrantedIsListed ==
    \A s \in Sessions :
        At(s, "store") /\ tables[thread[s].table][s] = thread[s].seen =>
            fileLocks[thread[s].file] = thread[s].table

\* Where a thread works on a table it has fetched.
AtTable == {"list", "purge", "first", "isEmpty", "drop", "match", "take", "unmap",
            "probe", "check", "forget", "stamp", "store", "clear"}

\* The method a session is in, at the points where that decides what comes next.
InMethod(label, method) ==
    /\ label = "get" => method \in {"TryGetLock", "AddLock", "RefreshLock", "RemoveLock"}
    /\ label \in {"list", "purge"} => method \in {"TryGetLock", "AddLock"}
    /\ label = "first" => method = "TryGetLock"
    /\ label = "map" => method = "AddLock"
    /\ label \in {"visit", "match", "take", "unmap"} =>
         method = "CleanupStaleSessionsForUser"
    /\ label \in {"isEmpty", "drop"} =>
         method \in {"TryGetLock", "CleanupStaleSessionsForUser"}
    /\ label \in {"clear", "unlist"} => method = "RemoveLock"

\* What a session's request has found out about its file: that nobody else has it
\* before it refreshes or removes a lock, nobody at all before it adds one.
Knows(t, r) ==
    /\ r.method # "CleanupStaleSessionsForUser" => r.file = r.asked
    /\ r.method \in {"AddLock", "CleanupStaleSessionsForUser"} => ActiveIn(r.asked) = {}
    /\ r.method \in {"RefreshLock", "RemoveLock"} => ActiveIn(r.file) \subseteq {t}
    /\ r.method = "TryGetLock" /\ r.at \in {"isEmpty", "drop"} => ActiveIn(r.file) = {}
    /\ r.at = "unlist" => ListedFor(r.file) = {}

\* The table it has fetched is still its file's; a cleanup, or another request
\* that found it empty, may have dropped it, but not from under AddLock.  It is
\* no other file's.
Current(r) ==
    /\ \/ fileLocks[r.file] = r.table
       \/ r.method # "AddLock" /\ fileLocks[r.file] = NoTable /\ Listed(r.table) = {}
    /\ \A f \in Files : fileLocks[f] = r.table => f = r.file

\* Which request calls which method.
Serves(t, r) ==
    /\ t \in Cleaners => r.op = "Cleanup"
    /\ t \in Sessions => r.op \in {"GetLock", "Lock", "RefreshLock", "Unlock"}
    /\ r.method = "AddLock" => r.op = "Lock"
    /\ r.method = "RefreshLock" => r.op \in {"Lock", "RefreshLock"}
    /\ r.method = "RemoveLock" => r.op = "Unlock"
    /\ r.method = "CleanupStaleSessionsForUser" => r.op \in {"Lock", "Cleanup"}

Carries(t, r) ==
    /\ Serves(t, r)
    /\ r.at \in AtTable => Current(r)
    /\ r.at = "drop" => Listed(r.table) = {}
    /\ t \in Sessions => InMethod(r.at, r.method) /\ Knows(t, r)

\* No table is two files'.
OwnTables ==
    \A f, g \in Files : fileLocks[f] = fileLocks[g] /\ fileLocks[f] # NoTable => f = g

\* No two requests in flight conflict.
Apart ==
    \A t, u \in Threads :
        ~At(t, "idle") /\ ~At(u, "idle") /\ Conflict(thread[t], thread[u]) => t = u

\* A request can rely on what it has seen of its file.
ExclusionInv ==
    /\ Apart
    /\ OwnTables
    /\ OneActiveSession
    /\ \A t \in Threads : ~At(t, "idle") => Carries(t, thread[t])

\* What a cleanup has left of the user's sessions in the files it has visited:
\* those it is about to take.
Leaves(r) ==
    /\ \A f \in Files \ r.todo : \A s \in ListedFor(f) :
          SessionUser(s) = r.user =>
             /\ r.file = f
             /\ \/ r.at = "match"
                \/ r.at \in {"take", "unmap"} /\ s \in r.doomed
    /\ r.at \in {"take", "unmap"} => \A s \in r.doomed : SessionUser(s) = r.user
    /\ r.at = "unmap" => r.taken \notin r.doomed /\ SessionUser(r.taken) = r.user

CleanupInv == \A t \in Cleaners : ~At(t, "idle") => Leaves(thread[t])

\* What a thread has to go by when it takes sessions out of a table: that they are
\* expired, of the user it cleans up after, or its own to unlock.
Grounds(t, r) ==
    /\ t \in Sessions => r.asked \in FilesOf[t]
    /\ r.at = "purge" => \A s \in r.doomed : Expired(tables[r.table][s])
    /\ r.at \in {"check", "forget"} => tables[r.table][t] \in {r.seen, Absent}
    /\ r.at = "forget" => Expired(r.seen)
    /\ r.at \in {"visit", "match", "take", "unmap", "isEmpty", "drop"} /\ r.method # "TryGetLock"
         => r.user \in Users /\ (t \in Sessions => r.user = KnownUser(t))
    /\ r.at \in {"take", "unmap"} => \A s \in r.doomed : SessionUser(s) = r.user
    /\ r.at = "unmap" => r.taken \notin r.doomed

HeldInv ==
    /\ \A s \in Sessions : sessionToUser[s] \in {NoUser, KnownUser(s)}
    /\ \A f \in Files : \A s \in ListedFor(f) : f \in FilesOf[s]
    /\ \A t \in Threads : ~At(t, "idle") => Grounds(t, thread[t])

\* No file lists two sessions, alive or not.
OneListed == \A f \in Files : \A s, r \in ListedFor(f) : s = r

\* AddLock has emptied the table it stores into.
Emptied(r) ==
    r.method = "AddLock" =>
       /\ r.at = "purge" => Listed(r.table) \subseteq r.doomed
       /\ r.at \in {"probe", "check", "forget", "stamp", "store"} => Listed(r.table) = {}

OwnerInv == OneListed /\ \A t \in Threads : Emptied(thread[t])

IsolatedInv == ExclusionInv /\ CleanupInv /\ HeldInv /\ OwnerInv

\* Cleanup t, AddLock's or a request of its own, is after a user of session s and has
\* yet to be through with file f.
ComesFor(t, s, f) ==
    /\ thread[t].method # "TryGetLock"
    /\ thread[t].user \in {KnownUser(s), IdUser[s]}
    /\ \/ /\ thread[t].at \in {"visit", "match", "take", "unmap", "isEmpty", "drop"}
          /\ f \in thread[t].todo
       \/ thread[t].at \in {"match", "take", "unmap"} /\ f = thread[t].file

\* Request t may take session s's lock on f: it is the session's own Unlock, or comes to
\* clean up after a user of the session.
Releases(t, s, f) ==
    \/ ~At(t, "idle") /\ thread[t].op = "Unlock" /\ t = s /\ thread[t].asked = f
    \/ ComesFor(t, s, f)

\* A session loses a live lock only to its own Unlock of the file, or to a cleanup after
\* a user of it; a Lock of any session of that user, for any file, is such a cleanup.
HeldUntilReleased ==
    [][\A f \in Files : \A s \in ActiveIn(f) \ ListedFor(f)' :
            \E t \in Threads : thread'[t] # thread[t] /\ Releases(t, s, f)]_vars

\* Session s may count on having f locked: its lock is alive, and no request that
\* releases it is under way.
Relies(s, f) == s \in ActiveIn(f) /\ ~\E t \in Threads : Releases(t, s, f)

\* The session that f's table lists, alive or not.
Owner(f) ==
    LET listed == ListedFor(f) IN
      IF listed = {} THEN NoSession ELSE CHOOSE s \in listed : TRUE

Lease == INSTANCE ExclusiveLease WITH
    Clients <- Sessions, Nobody <- NoSession,
    owner <- [f \in Files |-> Owner(f)],
    relies <- [s \in Sessions |-> {f \in FilesOf[s] : Relies(s, f)}]

\* The tables, with room for many sessions each, implement the exclusive lease that
\* the library's own provider implements with room for one.
ImplementsLease == Lease!Spec

\* CleanupStaleSessionsForUser: when the cleanup answers, no file lists a session
\* that is known to be the user's, whatever its age.
CleanupTakesKnown ==
    [][\A t \in Cleaners :
         thread[t].op = "Cleanup" /\ thread'[t].op = "none" =>
            \A f \in Files : \A s \in ListedFor(f) : SessionUser(s) # thread[t].user]_vars
=============================================================================
