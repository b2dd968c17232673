# WopiHost in TLA+

WopiHost is a WOPI server: the side of the Office web protocol that stores
files and lets Office clients lock, read, write, rename and delete them.  This
directory models the parts of it that have state, checks them with TLC and
proves theorems about them with TLAPS.

## The system

| component | state | operations | talks to |
|---|---|---|---|
| `FilesController` (`src/src/WopiHost.Core/Controllers`) | none between requests; a request keeps the file, the lock it read and its headers | CheckFileInfo, GetFile, GetLock, Lock, unlock and relock, Unlock, RefreshLock, PutFile, PutRelativeFile, RenameFile, DeleteFile, PutUserInfo, Cobalt | lock provider, storage provider |
| `MemoryLockProvider` | one static `ConcurrentDictionary` from file to lock | TryGetLock, AddLock, RefreshLock, RemoveLock | called by `FilesController` |
| `InMemoryWopiLockProvider` (sample host) | a dictionary of sessions per file, and the user of each session | the same four, CleanupStaleSessionsForUser, diagnostics | `FilesController`, `SessionCleanupController` |
| `FileService`, `DatabaseStorageProvider`, `SaveableMemoryStream` (sample host) | rows in a database and files on disk | read, save, rename, delete, suggested names | `FilesController` through the storage interfaces |
| `WopiFileSystemProvider`, `InMemoryFileIds` | files and folders on disk, and a dictionary from identifier to path | the same, and the container operations | `FilesController`, `ContainersController` |
| `ContainersController`, ecosystem, bootstrapper | none | create, rename, delete, enumerate | storage provider |
| `AsyncExpiringLazy`, `WopiDiscoverer` | the cached discovery document and when it expires | Value, Invalidate | the network |
| `WopiProofValidator` | none | validates the age and the signatures of a request | `WopiDiscoverer`, for the keys |
| tokens, URLs, file information | none | pure functions of a request | the framework |
| `RateLimitingMiddleware`, API keys, Cobalt, the web front end | none that lasts, or in other products | | the framework |

### What is hard about it

* ASP.NET runs every request on a thread of its own.  The lock dictionary is
  safe call by call, but every operation is several calls: look the lock up,
  compare its identifier, then add, refresh or remove it.
* Locks expire by the clock, and expired locks are removed by whoever comes
  across them, under the file's key rather than the lock that was read.
* An Office session uses many lock identifiers.  The host compares the session
  inside them, so two different identifiers can be one owner.
* The lock is checked once, before the file is touched; nothing holds it.
* Storage is two stores that can disagree: rows and files, identifiers and
  paths.  Each operation writes one after the other, either may fail, and the
  host may stop in between.
* The discovery cache tests and fetches in two sections of one semaphore that
  all its instances share, while the client changes its keys on its own.

### What makes each component correct

* Locks: at most one session may count on having a file locked; a lock changes
  hands only through being free; a write under a lock still has it; renewing
  never shortens a lock nor brings back one that was removed.
* Session locks: a granted session stays listed until it is removed or expires;
  a cleanup takes the user's stale sessions, all of them and no others.
* Storage: a file keeps its content under any name, no two files share one, and
  a failure costs no other file; an identifier names the file it was given out
  for, or nothing.
* Discovery: cached keys are only ever replaced by newer ones, waiting ends, and
  a request the client signed is not refused because of the cache.

## Modules

| module | models | state |
|---|---|---|
| `LockIds` | lock identifiers: `AreLocksCompatible`, `ExtractSessionId` | none |
| `MemoryLocks` | `MemoryLockProvider` and the operations of `FilesController` that read or need a lock | see below |
| `ExclusiveLease` | what a host promises about locks, with no mechanism; both lock providers implement it | `owner`, `relies` |
| `MCMemoryLocks` | values for the constants of `MemoryLocks` | |
| `SessionLocks` | `InMemoryWopiLockProvider` under `FilesController` and `SessionCleanupController` | see below |
| `MCSessionLocks` | values for the constants of `SessionLocks` | |
| `SessionLocksProofs` | types, that a refresh brings nothing back, and all invariants and action properties of requests that do not conflict | |
| `SessionLocksRefinement` | `SessionLocks` implements `ExclusiveLease` | |
| `MemoryLocksProofs` | types, how each action moves the state, what survives every interleaving | |
| `MemoryLocksExclusion` | the inductive invariant, mutual exclusion, refinement, files left alone | |
| `DocumentStore` | what a host promises about its files | `called`, `holds` |
| `DbFiles` | `FileService`, `DatabaseStorageProvider`, `SaveableMemoryStream` under the file operations | see below |
| `MCDbFiles` | values for the constants of `DbFiles` | |
| `DbFilesProofs` | types, the inductive invariant | |
| `DbFilesRefinement` | `DbFiles` implements `DocumentStore`; what is served and overwritten | |
| `Discovery` | `AsyncExpiringLazy`, `WopiDiscoverer`, `WopiProofValidator` | see below |
| `MCDiscovery` | values for the constants of `Discovery` | |
| `DiscoveryProofs` | types, the inductive invariant and all safety properties | |
| `FsIds` | `WopiFileSystemProvider`, `InMemoryFileIds` under the file and container operations | see below |
| `MCFsIds` | values for the constants of `FsIds` | |
| `FsIdsProofs` | paths and renamings, the inductive invariant and all safety properties of `FsIds` | |

### MemoryLocks and the code

`locks[f]` is the dictionary's entry, `content` and `names` what the storage
provider keeps.  Each client has one request under way at most, served by a
thread: `pc` is where the thread is, `req` the request's headers, `frame` the
locals of the lock provider's method it is in (which method, the entry that
`TryGetValue` returned, the time it read), `answer` the response.  `lease[c][f]`
is the client's knowledge, no state of the host: when it sent the request whose
answer said that it has the lock.

A step is one access to shared state, so a request is a path through them:

| code | actions |
|---|---|
| a request comes in, the file is fetched | `Arrive`; `Refetch` for PutFile, whose `ProcessLock` fetches it again |
| `TryGetLock` | `TryGetValue`, `CheckExpired`, `Evict` |
| `AddLock` | `Stamp`, `TryAdd` |
| `RefreshLock` | `TryGetValue`, `CheckExpired`, `Evict`, `Stamp`, `TryUpdate` |
| `RemoveLock` | `RemoveLock` |
| `HandleGetLock`, `HandleUnlock`, `HandleRefreshLock`, both halves of `HandleLockOrPut`; RenameFile, DeleteFile | `Handle...` |
| the storage provider | `WriteFile`, `RenameFile`, `DeleteFile`, each of which may fail |
| the response arrives | `Deliver` |

`TryUpdate` compares by value, as `ConcurrentDictionary` does with records.
The expiry is strict (`Expired`): a lock of exactly its lifetime is still good.
`RawIds` are identifiers that parse as JSON without being objects, on which
`ExtractSessionId` throws.

Assumptions about the surroundings: a session is driven by one client, which
waits for the answer to a request before it sends the next; a client that asks to unlock
stops counting on its lock as it asks; a client counts a lease from the moment
it sent the request, so its lease is never longer than the host's.

### SessionLocks and the code

The sample host keeps a table per file, from session to lock, and finds the
table in an outer dictionary.  `fileLocks[f]` is the outer dictionary,
`tables[d]` the tables, which have an identity of their own: a thread that has
fetched a table works on it even after another thread has dropped it from the
outer dictionary.  `sessionToUser` is the dictionary of that name.  `thread[t]` is
a session's request, or a caller of the cleanup endpoint, with the locals of the
method it is in.

| code | actions |
|---|---|
| `TryGetLock` | `GetTable`, `ListExpired`, `PurgeExpired` for each session, `FirstActive`, `TestEmpty`, `DropTable` |
| `AddLock` | `MapSession`, the cleanup, `GetTable`, `ListExpired`, `PurgeExpired`, `ProbeSession`, `ReadClock`, `StoreLock` |
| `RefreshLock` | `GetTable`, `ProbeSession`, `CheckExpired`, `ForgetExpired`, `ReadClock`, `StoreLock` |
| `RemoveLock` | `GetTable`, `ClearTable`, `UnlistTable` |
| `CleanupStaleSessionsForUser` | `VisitFile` for each file, `MatchSessions`, `TakeSession` and `UnmapSession` for each session, `TestEmpty`, `DropTable` |
| the controllers | `Arrive`, `Handle`, `ForceSaveAndCleanupUserSessions` |

Sessions stand for the identifiers: this provider keys everything by the session
and compares nothing else.  What is abstracted: an enumeration of one table is
one step (removals from it are steps of their own); the loops that only count
and log are left out; identifiers on which `ExtractSessionId` throws are left to
`MemoryLocks`.  `RemoveSessionLock` has no caller.  A table that nothing refers
to may be used again for a new one; `Tables` has one for every file and every
other thread, so `GetOrAdd` never waits for one.

`Lease` maps this state to `ExclusiveLease`.  The owner of a file is the session its
table lists, dead or alive (`Owner`); a session counts on a file while it is active there
and no request that gives the lock up is under way (`Relies`, `Releases`): its own Unlock, or
a cleanup after its user that has yet to be through with the file, be it asked for or the one that a
Lock begins with (`ComesFor`).  Where the client of
`MemoryLocks` counts a lease from its knowledge, `Relies` goes by what the host has stored,
which may be before the answer arrives; so `Acquire` lets an owner count
on its lock at once.

### DbFiles and the code

`rows[f]` is a file's row, `disk[n]` what is stored under name `n`.  A request
reads its row once (`seen[c]`, the entity its `DbContext` tracks) and works on
that copy.  `data` in a row stands for size, date and version, and is the content
they describe.  `torn` is a history: files some operation on which stopped
half-way, of which nothing is promised until they are saved again.

| code | actions |
|---|---|
| a request comes in, `GetFileByIdAsync`; what PutFile decides by the size | `Arrive` |
| GetFile, CheckFileInfo: `GetFileContentAsync` | `Load` |
| PutFile: `CopyToWriteStream`, `SaveFileContentAsync` as the stream is disposed | `Receive`, `Write`, `UpdateRow` |
| RenameFile: `GetSuggestedName`, one query per step; `RenameFileAsync` | `Suggest`, `Requery`, `RenameRow`, `Move` |
| DeleteFile: `DeleteFileAsync` | `Requery`, `DeleteRow`, `Unlink` |
| the response is sent | `Deliver` |
| the host stops and starts | `Crash` |

`Faults` says which of these may fail (`Load`, `Suggest` and `Requery`, which only query, cannot): a body that breaks off, a write that
truncated the file or wrote part of it, an update, a move, a deletion.  A failed save is
swallowed in `Dispose`, a failed rename or deletion is an error.  Names are data: the
name asked for, numbered by `GetSuggestedName`.  All files share one
`RemotePath`.  A second query of a row by the same `DbContext` returns the entity it
tracks; `Update` writes every column of it.  What locks decide is
`MemoryLocks`' and `SessionLocks`' subject: here a request with a lock is one
that got past it.  Creating files is left out because no request can: with this
provider no file has a container.

`holds[f]` of `DocumentStore` is the disk under the row's name, or, while a
rename has committed the row and not yet moved the file, under the old one.

### Discovery and the code

`field` is `_proofKey`; a lazy is named after the thread that created it, because
two threads that find `_proofKey` null both create one.  `value[i]` is the
lazy's `_value`, `holder` the thread inside the second section of `SyncLock`,
which is static: one for all lazies.  A thread `t` works on `lazy[t]`.
`generation` is the client's key: it signs with it, and with the one before in
`X-WOPI-ProofOld`, and publishes both.

| code | actions |
|---|---|
| `WopiDiscoverer.ProofKey` (`??=`) | `GetField`, `Create` |
| `AsyncExpiringLazy.Value` | `Look`; `Enter`, `Fetch`, `Store` |
| `WopiProofValidator.ValidateProofAsync` | `Check` |
| the client | `Sign`, `ChangeKeys`; the request's `Answer` |

A fetch reads the client's document at one moment and stores it later, within
`FetchTime`; it may fail, or find a document without keys, which is cached like
any other.  `GetAppsAsync` uses the same class with a semaphore of its own.

### FsIds and the code

`tree` is the disk: a function from the paths that exist to files and folders,
which carry a number so that one can tell them apart wherever they move.
`ids` is `InMemoryFileIds`: an identifier is the object it was made for and the run of the
host that made it, or `Wopitest`, which the scan gives to every file whose name ends in
`test.wopitest`, in every run (`InMemoryFileIds.cs:105`).  A second such file overwrites the
entry of the first, in whatever order the directory is enumerated: `Scan(k, p)` is the scan of
run k that comes to the one at p last.  `shaken` records that a folder with something in it was
renamed in this run, `issued` what each identifier of this run was given out for, `last` and
`asked` the identifier in the last request, its answer, and whether the operation is one on
containers or on files.

| code | actions |
|---|---|
| `ContainersController` | `CreateChildContainer`, `CreateChildFile`, `RenameContainer`, `DeleteContainer` |
| `FilesController` | `PutRelativeFile`, `RenameFile`, `DeleteFile` |
| the host stops and starts, and scans | `Restart` |

`AddFile`, `UpdateFile`, `RemoveId`, `Scan` are the methods of
`InMemoryFileIds`; `Create...`, `Rename`, `Erase` and `Suggested` those of the
provider.  A request is one step, because a `Dictionary` that requests change
concurrently does nothing one could model; a crash in the middle of one leaves the
disk changed or not, and the table is lost either way.  Any operation comes with
any identifier given out in this run, WOPITEST, or one of an earlier run (`Given`; of those the
root's stands for all, as the host knows none of them).  Nothing looks at the kind of what it
names (`GetWopiResource`, `WopiFileSystemProvider.cs:55`): RenameContainer with a file's identifier
moves the file, as `Directory.Move` does, DeleteContainer with one answers 404, creating
in it fails, and file operations with a folder's fail when they look for the file.
Nobody renames or deletes the root:
the provider's constructor, which every request runs, throws from then on.

## Runs

### MemoryLocks

All have two sessions and one file: locks of different files share nothing, and
every property is about the sessions that meet on one file.  That what goes on at other
files in the meantime makes no difference is left to the proofs.  Deadlock checking
is on; the last tick of the clock is not a deadlock because requests still come.

| run | instance | shows |
|---|---|---|
| `locks_isolated` | requests for the file do not overlap, all operations, four identifiers (two of one session, one that throws), clock to 3, lifetime 1 | the types, one holder, the refinement, that PutFile writes under its lock, what a thread about to change a file has found out, and that nobody else renames or deletes a locked file |
| `locks_race` | requests interleave, locks too young to expire, three identifiers | the inductive invariant, one holder, the refinement |
| `locks_expiry` | requests interleave and locks expire | no renewal shortens a lock, none brings one back, an expired lock decides nothing |
| `locks_replaced` | the same | `OwnerNeverReplaced` is violated |

Bounds: `MaxTime` bounds the clock.  With `Lifetime` 1, a lock is fresh, then of
exactly its lifetime, then expired by time 2; time 3 lets a second lock that was
granted after an expiry expire as well.  Two identifiers of one session are
enough to relock under another name; two sessions are enough for every
violation of mutual exclusion, which is about a pair.

The violation is in the code: `LockOrRefresh` compares with the lock it was
handed, then `RefreshLock` reads the dictionary again (`FilesController.cs:763`,
`MemoryLockProvider.cs:57`).  If the lock expired in between and another session
has the file by then, its lock is replaced and the answer is 200.

Two more things to know, seen while modelling and not kept as runs:

* `TryGetLock` evicts an expired lock with `RemoveLock(fileId)`
  (`MemoryLockProvider.cs:24`).  If another request evicts it first and locks
  the file, the second eviction removes that new, live lock.  Like the
  violation above it takes an expiry in the middle of a request, which the
  condition of the proofs rules out.
* PutFile without `X-WOPI-Lock` looks at the size only (`FilesController.cs:291`),
  so it writes to an empty file that another session has locked.  `LockedFileUntouched`
  makes this one exception.
* RenameFile and DeleteFile look for a lock and act on the file later
  (`FilesController.cs:182`, `:528`): a lock granted in between does not stop them.
  `LockedFileUntouched` is checked for requests that do not overlap, so it shows that
  every handler looks, and not that this window is closed, which it is not.

### SessionLocks

| run | instance | shows |
|---|---|---|
| `sessions_isolated` | three sessions on two files, one cleaner; two of the sessions are of one user, the first of them opens both files and meets the second on one and the third, whose user only its lock identifiers name, on the other; the first locks and unlocks, the second locks, the third locks and refreshes, and requests overlap unless they conflict; clock to 2 | the inductive invariant; a file has one active session though its table has room for more; a lock is stored where the next request looks; it is lost only by unlock, expiry or a cleanup after its user; a cleanup leaves no session known to be the user's; tables with room for many sessions implement the exclusive lease |
| `sessions_race` | two sessions of one user on one file, Lock and Unlock interleaved with the cleanups in `AddLock`, locks that expire at the next tick | the types, no refresh brings a removed session back, every request ends |

With `Isolated`, a request comes in only if it conflicts with none in flight
(`Conflict`).  Two requests for one file conflict, unless both only read; so do two that
sweep, Lock and the cleanup, as these go over every file's table.  What may overlap is
a sweep with the refreshes and unlocks of other files, whose tables it works on and may
drop, and reads with each other, which evict and drop tables too.  Nothing in the host keeps
conflicting requests apart: that is the hypothesis, no more of it is needed, and with less
the properties fail.

Bounds: two sessions show every conflict over one table.  The first has two files, so that its Lock of
one cleans up the other, its own and the second session's locks alike; the third is of another user, whom
that cleanup must pass by.  `sessions_isolated` is large, so each session has
the operations that say most where it is: the first gives its locks back, the second leaves its own to expire,
the third renews it while sweeps of others go over its table.  Lock by the owner refreshes too (`LockOrRefresh`), and
GetLock is the `TryGetLock` that every other request begins with.  The theorems cover every choice (`OpsOf`).
Two tables do: with a third the run has the same states but for the names of the tables,
so no request ever waits for one.  With `Lifetime` 1 a lock made at 0 is
of exactly its lifetime at 1 and expired at 2.  `Lifetime` 0
in `sessions_race` makes a lock expire with the next tick, so one tick is
enough for a lock that expires in the course of a request.  In the run that checks safety
only, tables are symmetric.

Known behaviours that these properties leave room for:

* `TryGetLock` tests that a table is empty and then removes the file's entry
  (`InMemoryWopiLockProvider.cs:172-174`); a lock added in between is lost.
* `AddLock` records whose session it is, then runs a cleanup that deletes the
  record if a lock of that session is left over (`:194`, `:199`, `:442`).  It is left
  over when it expires between `TryGetLock`'s two looks at the table.  Later
  cleanups do not recognise the session; no concurrency is needed.
* The cleanup in `AddLock` takes the user's fresh sessions as well (`:371`): opening
  a second file costs the lock on the first.

* An expired session is removed by its key after it was listed (`:155-159`): one that is
  renewed in between loses its lock.

Conflicting requests that overlap also break `OneActiveSession`, `GrantedIsListed` and
`HeldUntilReleased`, which is why these are checked with `Isolated`: they show nothing about the first and
the last of the behaviours above, which need an overlap.  `HeldUntilReleased` and
`ImplementsLease` ask nothing else of the sessions: a user may have several, and a session several files.  What the
cleanup in `AddLock` takes from them counts as released by whoever sent that Lock.

### DbFiles

| run | instance | shows |
|---|---|---|
| `db_files` | two files, two requests of two clients that overlap unless they conflict, every fault and crashes | types, the inductive invariant; the host implements `DocumentStore`; what is served fits the row; a PutFile without a lock writes over nothing; every request is answered |
| `db_unsaved` | one client, two requests, saves that fail | `AnsweredPutIsStored` is violated |

Bounds: three names (one asked for, and two numbers) and two files: a name asked
for may be free, taken by the other file or by the file itself, and the search goes
to its second number.  Two requests are what it takes to overlap on two files, or for
one to fail and the other to build on what it left.  `Tries` is 2, as many as there are files: with fewer,
the last name is returned although it is taken, and two rows share it.

The violation: `Dispose` logs a save that failed and nothing else learns of it
(`SaveableMemoryStream.cs:47`), so PutFile answers 200.

With `Isolated`, a request comes in only if it conflicts with none in flight
(`Conflict`): two requests for one file conflict unless both are GetFile, and a rename
conflicts with any other rename or deletion.  Requests for different files overlap
step by step otherwise, and a crash may catch several of them half-way, so
`Lose` of `DocumentStore` takes a set of files.

`ServedAsDescribed` and `UnlockedPutFindsEmpty` leave out the files an operation has stopped half-way
on (`torn`), as of these they do not hold: the content may be newer than the row, or missing and served
as empty.  A part of a body that broke off is stored like a whole one, and is
among the contents `DocumentStore` allows.  GetFile's answer to an `X-WOPI-MaxExpectedSize` exceeded is left
out; it changes nothing.

Conflicting requests that overlap break `ImplementsStore`: `Update` writes back the name and
`Active` as they were read, so a save undoes a rename or a deletion of the file that came
in between; two renames may suggest the same name; and a rename may take the name of a file
whose deletion has yet to unlink it, which then removes the renamed file's content.  The locks
prevent the first only for clients that use them, and nothing prevents the others.

### Discovery

| run | instance | shows |
|---|---|---|
| `discovery` | two threads, two key changes, time to 4 | types, the inductive invariant, one fetch at a time, no older keys, no genuine request refused for its keys |
| `discovery_live` | two threads, one key change, time to 2 | every request is decided |

Bounds: with an interval, a fetch time and a limit of 1, a value is fresh, then
expires, is fetched by one thread while the other waits with its own decision to fetch,
and the keys change between the two; `Gap` 2 is the least that
`SlowRotation` allows.  Two threads are enough to create two lazies.

`GenuineVerified` assumes `SlowRotation`: between two key changes the host's copy has the time to
expire and to be fetched again; the code has no other protection.  A document without keys is cached for a whole
interval, in which every request is refused (`keys[t] = NoKeys` in the property).

### FsIds

| run | instance | shows |
|---|---|---|
| `fs_ids` | a folder in a folder and a file named like `test.wopitest` in each, one object more, three levels, two runs of the host, two names and their numbers; operations of either kind under identifiers of either kind | types; an identifier names what it was given out for; everything can be reached; answers are true; nothing else is lost |
| `fs_ancestors` | two levels, one run | `AllParentsEnumerated` is violated |

Bounds: three levels are needed for a folder with a file in it to move along with
the folder around it; two files named like `test.wopitest` for one to be left without an
identifier, and for WOPITEST to go from one to the other when the host starts again; one object more
than there are at first, for a file or a folder that comes to a name in use or left free.  A second name
lets such a file be renamed to one that is not special, and back.  Two runs are needed for identifiers that
outlive the host.

`TableMatchesDisk`, `EverythingReachable` and `AnsweredTruly` are stated up to the
first rename of a folder with something in it: that gives the folder's
identifier its new path and leaves those of its contents
(`WopiFileSystemProvider.cs:389`), until the host starts again.  `NothingElseLost` holds in spite
of that, but goes by the path the table has: an identifier that is out of step may name, and delete,
another file that has come to that path.  `EverythingReachable` makes an exception for a file named like
`test.wopitest` when another one got WOPITEST, and `AnsweredTruly` for the 404 that a file's identifier
gets from DeleteContainer while the file is there; both are what the code does.  That WOPITEST
names the same file after a restart is not claimed, and does not hold.

The violation: for a file, `GetAncestors` leaves out the folder the file is in
unless that is the root (`WopiFileSystemProvider.cs:123`), so
EnumerateAncestors does not list it, and PutRelativeFile
creates its file one folder too high.

### Fairness

| property | fairness | why |
|---|---|---|
| `EveryRequestEnds` | weak, of each thread's own steps (`Work`) | the thread pool runs a thread that can go on |
| `EveryRequestAnswered` | weak, of each request that has come in | the same; a database or disk operation ends or fails |
| `EveryRequestValidated` | weak, of each thread's steps; strong, of the two that wait for `SyncLock` | the same; `SemaphoreSlim` lets its asynchronous waiters in first come, first served, and `HttpClient` ends a fetch by a timeout |

Nothing is assumed about requests arriving, the clock, key changes or crashes.

## Theorems

They hold for any numbers of sessions, identifiers and files, any lifetime and
any bound on the clock, for any numbers of files, names, clients and threads, and any
set of faults, for trees of any depth and any disk the host may find when it starts,
from the assumptions `LockIdsAssumption`, `MemoryLocksAssumption`,
`SessionLocksAssumption`, `DbFilesAssumption`, `DiscoveryAssumption` and
`FsIdsAssumption`, which state what the constants are.

| theorem | says |
|---|---|
| `TypeCorrect` | `[]TypeOK` |
| `RenewalIsMonotone` | `RenewalNeverShortens`: every entry and every time stamp a thread carries is at most `now`, and what a refresh carries is at least as old as what it read |
| `ExpiryIsSeen` | `ExpiredLockNeverDecides` |
| `RemovedStaysRemoved` | `RefreshNeverResurrects`: only the `TryAdd` of AddLock writes to an empty entry |
| `SessionTypes` | `[]TypeOK` of `SessionLocks` |
| `RemovedSessionsStayOut` | `RefreshNeverResurrects` of `SessionLocks` |
| `ConflictsApart` | `[]IsolatedInv` of `SessionLocks`, if `Isolated` |
| `ExclusiveSessions` | `[]OneActiveSession`, if `Isolated` |
| `CleanupsAreComplete` | `CleanupTakesKnown`, if `Isolated` |
| `SessionsLease` | `Spec => Lease!Spec` of `SessionLocks`, if `Isolated` |
| `LockInvariant` | `[]LockInv`, if `Guarded` |
| `OneHolder`, `PutHoldsItsLock` | `[]MutualExclusion`, `[]LockedPutHoldsLock`, if `Guarded` |
| `FilesInvariant` | `[]FilesInv`, if `Isolated` |
| `LeaseImplemented` | `Spec => Lease!Spec`, if `Guarded` |
| `TypeCorrect` of `DbFilesProofs` | `[]TypeOK` of `DbFiles` |
| `StoreInvariant` | `[]StoreInv`, if `Orderly` |
| `StoreImplemented` | `Spec => Store!Spec`, if `Orderly` |
| `DiscoveryTypes`, `KeysInvariant` | `[]TypeOK`, `[]KeysInv` of `Discovery` |
| `FetchesExclusive`, `NoOlderKeys` | `[]OneFetchAtATime`, `KeysNeverGoBack` |
| `GenuineRequestsPass` | `GenuineVerified` |
| `FsTypes` | `[]TypeOK` of `FsIds` |
| `IdentifiersHold`, `AllReachable` | `[]TableMatchesDisk`, `[]EverythingReachable` |
| `TrueAnswers`, `NothingLost` | `[]AnsweredTruly`, `NothingElseLost` |

Five more say what their hypotheses leave of a property and no more: `GrantsAreListed`
(`GrantedIsListed`), `HeldLocksStay` (`HeldUntilReleased`), `LockedFilesAreLeftAlone`
(`LockedFileUntouched`) if `Isolated`, `ServedTruly` (`ServedAsDescribed`) and `EmptyFilesOnly`
(`UnlockedPutFindsEmpty`) if `Orderly`.  They are proved beside the others and close none of the windows
named under the runs, which are overlaps of requests that conflict, or files an operation stopped half-way on.

Those without a condition hold for every interleaving.  The four with `Guarded` need
`Guarded == Isolated \/ MaxTime <= Lifetime`: requests for one file do not overlap,
whatever goes on at other files, or no lock gets old enough to expire.  The violation and the eviction described
above are what happens without it.

`MutualExclusion` is not inductive: a thread that has compared identifiers and
goes on to refresh would be free to overwrite another owner's entry.  `LockInv`
says what each thread carries: a thread that saw its session's lock, or was
granted it, still owns the entry (`OwnerInv`); one that is about to evict an
entry saw the very entry that is there (`EvictInv`); a client that counts on a
lock owns the entry, which is no older than its lease (`LeaseInv`).
`EntryChange` then shows that a step changes only its own session's entry, a
free one or an expired one, and the refinement follows: a change of entry is
`Acquire` or `Drop`, the end of a request is `Learn`, and the clock or an
unlock request is `Forget`.

`LockedFileUntouched` needs more, and `Isolated`: RenameFile and DeleteFile look at the
lock and act on the file later, which nothing but their having the file to themselves
protects.  So the theorem is about what each handler looks at, and says nothing of a lock granted between
the look and the act.  `FilesInv` says what a thread about to act on the file has found out,
and that it is still so; with `LeaseInv` no other session counts on the file then.

For `SessionLocks` the types alone are not inductive: a thread that reads a
session's lock must have a table to read it from, and must be a session.
`LocalsFit` says which locals a thread has at each point, and that a thread about
to store either serves AddLock or has seen a lock; with it the comparison in
`StoreLock` gives `RefreshNeverResurrects`.

While no two requests in flight conflict (`Apart`), what a session's request goes by is
`ExclusionInv`: nobody is active in the file when it comes to add a lock, nobody
but itself when it refreshes or removes one (`Knows`); and the table it has fetched is still its
file's, or has been dropped and is empty, and in either case is no other file's
(`Current`).  The second case is the work of others: a sweep may drop the table
of a file that a refresh is at work on, and two reads may drop one between them.  It cannot
happen to AddLock, alone in its file (`AddsAlone`), and a refresh whose table has been dropped
finds its session gone and does not store, so whoever stores does so into the file's
table (`StoresWhere`, which is `GrantedIsListed`).  Every step but a store only takes sessions
away or lets them age, and takes a table from a file only when it is empty (`Loses`); such a
step leaves what every other request carries true (`OthersCarryOn`), and a store does
because the requests that go by its file would conflict with it.  `CleanupInv` says what a
cleanup leaves behind as it goes from file to file; the step to watch is `UnmapSession`, after which
the session it took may count as another user's, and it holds because the files already visited do not
list it.  The requests it overlaps with do not sweep: they add no session to a file
and forget no user (`SessionWork`).  `HeldInv` says on what grounds a session is about to be taken out: it is expired, its own request
unlocks it, or it is of the user cleaned up after; none of which another request in flight can
change (`OthersGrounds`).

The refinement needs one fact more.  That a file has one active session leaves room for a
dead one beside it, and then a store would put a second owner into the table.  `OwnerInv` says that no table
lists two sessions, alive or not: AddLock has taken the expired ones out of the table it
stores into (`Emptied`), one at a time as it lists and purges them, and whoever stores finds nobody else there
(`StoresAlone`).  Then a store into an empty table is `Acquire`, or `Learn` if the session
had the lock and renews it; taking a session out is `Drop`, because it is expired or about to be
released, and so nobody counts on it (`Grounds`); a request that comes in, a tick and a step that
changes no table are `Forget`, and so is the start of the cleanup in a Lock, which puts all its user's locks
in danger; the answer to an Unlock, or the step of a cleanup that is through with a file, that has not taken the lock
there is `Learn`, as the session counts on that lock again.  Such a step is through with one file
(`Pending`, `SafeStays`), and that file lists one session, so it is one `Learn`.

For `DbFiles`, `ImplementsStore` needs to know what each thread has read and done
so far (`ThreadInv`): that its copy of the row is the row, that what it is about to describe is
on disk, that the name it found free is free.  All of it holds because of
`Orderly == Isolated /\ Cardinality(Files) <= Tries`.  Requests that do not conflict
(`Apart`) leave what each other knows true: only a file's own request writes its row or what is
stored under its name, only one rename at a time takes a name, and no deletion frees
one meanwhile, so at most one thread is half-way through a change of a file.  A
crash then loses exactly the files whose requests are half-way.  And a search for a name that has
failed `Tries` times has found that many names taken, by different files
(`FiniteSetTheorems`, by an injection from numbers to files), so the last one is free.
Two renames at
once, or a hundredth file of one name, are what happens without it.

For `Discovery`, the value of a lazy and what a thread is about to store carry when they
were read (`ValueInv`, `FetchedInv`): keys older than the current ones were read before the next were
published, so they expire within an interval and a fetch of that change.  That bounds how far
behind the client the host can be (`CheckInv`), and gives
`GenuineVerified`; that the thread inside `SyncLock` is the only one
that fetches (`Locked`) gives `KeysNeverGoBack`.  No condition on the interleaving is needed;
`SlowRotation` is a hypothesis of the property itself.

For `FsIds`, the inductive invariant `Inv` is `TypeOK` with the shape of the tree (`TreeInv`), what
the history variables say (`IssuedInv`) and, until a folder with something in it is renamed, `Tabled`:
every entry of the table names a path at which the object it was given out for is, every
identifier given out whose object is still there has an entry, and every object has one unless it is a file
that the scan left out.  A scan gives that because no object is in
two places and at most one file keeps WOPITEST; a folder that has
nothing in it is alone at and below its path because every path has its folders above it, and
the root's identifier is the only one that names the root.  A renaming changes one component of the paths within
the folder; undone, it gives every path back (`SwappedBack`), since nothing was at or below the
new name, and so neither loses nor doubles anything.  That the disk found at the start has all the folders
above a path follows from each path having its parent, by going up to the nearest that would be missing
(`OnDiskAbove`).

Every safety property of the passing runs is proved; only model-checked are the liveness
properties, which are out of the prover's reach, as are `ENABLED` and what recursive definitions compute.

## Not modelled

The program is C# (under `src/src` and `src/sample`).  The JavaScript in the
repository is vendored under `wwwroot/lib` (pdf.js, jQuery, Bootstrap) and not modelled.

Of the modelled components: text (names, bodies, identifiers are values), response
headers other than `X-WOPI-Lock`, logging, telemetry, the operations that only
read and fill records (CheckFileInfo beyond its version and size, CheckContainerInfo,
EnumerateChildren), PutUserInfo, which sets one cache entry per user.

Not at all: access tokens, authorization and cryptography, which the framework does;
URL templates, a regular expression over text; the rate limiter, which gives every request a
bucket of its own (`RateLimitingMiddleware.cs:79`) and so keeps nothing; API keys, compared
with the configuration; Cobalt, which delegates to a library that is not in the repository;
the web front end.  `FileSaveMonitorService` and the middlewares of that
name are empty files.  The framework (routing, dependency injection) is taken to do what it says.

## Plan

Done: the five state machines, the two abstract specifications, and the theorems above.
`ExclusiveLease` is implemented by both lock providers, `DocumentStore` by the database
storage.  The theorems that need a condition on the interleaving need the weakest one of
its kind, that conflicting requests do not overlap (`Isolated`).  What could follow:

1. `MemoryLocks` over `DbFiles`: the locks' `content` and `names` replaced by rows and
   disk, to see how far locks make overlapping requests orderly.
2. `FsIds` with the contents of files, and a scan that fails half-way; an abstract
   specification of the tree that `FsIds` implements.
3. `SessionLocks` with requests that overlap as they like: what of the lease is left.
