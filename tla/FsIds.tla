------------------------------- MODULE FsIds ---------------------------------
(***************************************************************************)
(* Files and folders on disk under the identifiers the file system         *)
(* provider hands out: InMemoryFileIds keeps a path for every identifier,  *)
(* and only the requests that create, rename or delete keep it in step     *)
(* with the disk.  The identifier is all a client has: it is in its URLs,  *)
(* in its access token and is the key of its locks.                        *)
(*                                                                         *)
(* InMemoryFileIds is a plain Dictionary: the program defines what happens *)
(* to it only for requests that do not overlap, and so a request is one    *)
(* step here.  The host may stop and start again between any two; stopped  *)
(* in the middle of a request, it has changed the disk or has not, and the *)
(* table is gone either way.                                               *)
(***************************************************************************)
EXTENDS Integers, Sequences, FiniteSets, Functions

CONSTANTS
    Requested,    \* the names clients ask for
    Candidate,    \* Candidate[r][k]: r with the number k, r itself for k = 0
    TestNames,    \* the names that end in "test.wopitest"
    Wopitest,     \* "WOPITEST", the identifier of files with such a name
    OnDisk,       \* what is there when the host first starts: a path -> Object
    Depth,        \* bound on the depth of the tree
    MaxObjects,   \* bound on the files and folders there ever are
    MaxRuns       \* bound on the runs of the host

VARIABLES
    tree,     \* what there is on disk under RootPath: a path -> Object
    made,     \* objects created so far
    run,      \* runs of the host so far
    ids,      \* InMemoryFileIds.fileIds: Id -> a path
    issued,   \* history: the identifiers given out in this run, and for what: Id -> Object
    shaken,   \* history: a folder with something in it was renamed in this run
    asked,    \* history: the kind of thing the last request is an operation on
    last      \* history: the identifier in the last request, and the answer

vars == <<tree, made, run, ids, issued, shaken, asked, last>>

Names == UNION {Range(Candidate[r]) : r \in Requested}

\* A path below RootPath, which is <<>>.
IsPath(p) == p \in Seq(Names) /\ Len(p) <= Depth
RootPath == <<>>

\* Parent is Path.GetDirectoryName, At(p, n) is Path.Combine.
Parent(p) == SubSeq(p, 1, Len(p) - 1)
At(p, n) == Append(p, n)

\* An object keeps its number wherever it is moved to.
Object == [kind : {"file", "folder"}, no : 0 .. MaxObjects]
Root == [kind |-> "folder", no |-> 0]

\* NewId is called once for an object in a run of the host.
Guid == [of : Object, run : 1 .. MaxRuns]
Id == Guid \cup {Wopitest}

ASSUME FsIdsAssumption ==
    /\ Depth \in Nat /\ MaxObjects \in Nat /\ MaxRuns \in Nat \ {0}
    /\ DOMAIN Candidate = Requested
    /\ Wopitest \notin Guid
    /\ \A r \in Requested :
          /\ DOMAIN Candidate[r] = 0 .. MaxObjects
          /\ \A j, k \in 0 .. MaxObjects : Candidate[r][j] = Candidate[r][k] => j = k
    /\ IsFiniteSet(DOMAIN OnDisk)
    /\ \A p \in DOMAIN OnDisk :
          /\ IsPath(p) /\ OnDisk[p] \in Object
          /\ OnDisk[p].no < Cardinality(DOMAIN OnDisk)
          /\ \A q \in DOMAIN OnDisk : OnDisk[p].no = OnDisk[q].no => p = q
          /\ p # RootPath =>
                Parent(p) \in DOMAIN OnDisk /\ OnDisk[Parent(p)].kind = "folder"
    /\ RootPath \in DOMAIN OnDisk /\ OnDisk[RootPath] = Root

Status == {"none", "ok", "notFound", "conflict", "error"}

Exists(kind, p) == p \in DOMAIN tree /\ tree[p].kind = kind
FileExists(p) == Exists("file", p)
FolderExists(p) == Exists("folder", p)

\* TryGetPath and TryGetFileId.
Known(i) == i \in DOMAIN ids
HasId(p) == p \in Range(ids)

NewId(o) == [of |-> o, run |-> run]

\* The files whose name ends in "test.wopitest"
TestFile(p) == FileExists(p) /\ p # RootPath /\ p[Len(p)] \in TestNames

\* ScanAll, in run k of the host.  All test files have the same identifier; the one
\* that the enumeration comes to last keeps it, and the others are left with none.
LastTestFile(p) == TestFile(p) \/ (p = RootPath /\ \A q \in DOMAIN tree : ~TestFile(q))

Scanned(kept) == {p \in DOMAIN tree : TestFile(p) => p = kept}
ScanId(k, p) == IF TestFile(p) THEN Wopitest ELSE [of |-> tree[p], run |-> k]

Scan(k, kept) ==
    [i \in {ScanId(k, p) : p \in Scanned(kept)} |->
        CHOOSE p \in Scanned(kept) : ScanId(k, p) = i]

\* What the identifiers of a scan are given out for
Identified(k, kept) == [i \in DOMAIN Scan(k, kept) |-> tree[Scan(k, kept)[i]]]

Init ==
    /\ tree = OnDisk
    /\ made = Cardinality(DOMAIN OnDisk) - 1
    /\ run = 1
    /\ \E p \in DOMAIN tree :
          LastTestFile(p) /\ ids = Scan(1, p) /\ issued = Identified(1, p)
    /\ shaken = FALSE
    /\ asked = "folder"
    /\ last = [id |-> NewId(Root), status |-> "none"]

-----------------------------------------------------------------------------
Answer(i, s) == last' = [id |-> i, status |-> s]

\* A request that ends without having changed anything.
Refuse(i, s) == Answer(i, s) /\ UNCHANGED <<tree, made, run, ids, issued, shaken>>

\* GetSuggestedName: the first name of r's that nothing of that kind has.
Suggested(kind, p, r) ==
    Candidate[r][CHOOSE k \in 0 .. MaxObjects :
                    /\ ~Exists(kind, At(p, Candidate[r][k]))
                    /\ \A j \in 0 .. (k - 1) : Exists(kind, At(p, Candidate[r][j]))]

\* Variants with a bug: the table is not told.
NotAdded(o, p) == ids
NotUpdated(i, p) == ids
NotRemoved(i) == ids

\* InMemoryFileIds.AddFile, UpdateFile and RemoveId: what they make of the table.
AddFile(o, p) ==
    [i \in DOMAIN ids \cup {NewId(o)} |-> IF i = NewId(o) THEN p ELSE ids[i]]
UpdateFile(i, p) == [ids EXCEPT ![i] = p]
RemoveId(i) == Restrict(ids, DOMAIN ids \ {i})

\* The objects that get the paths "new", the shallowest first
Numbered(new, kind, q) ==
    [kind |-> kind, no |-> made + Cardinality({x \in new : Len(x) <= Len(q)})]

\* An object of that kind is created at p, with folders at the other paths in "new".
Create(i, p, new, kind) ==
    /\ IsPath(p)
    /\ made + Cardinality(new) <= MaxObjects
    /\ made' = made + Cardinality(new)
    /\ tree' = [q \in DOMAIN tree \cup new |->
                  IF q \in new THEN Numbered(new, IF q = p THEN kind ELSE "folder", q)
                  ELSE tree[q]]
    /\ ids' = AddFile(Numbered(new, kind, p), p)
    /\ issued' = [j \in DOMAIN issued \cup {NewId(Numbered(new, kind, p))} |->
                     IF j \in DOMAIN issued THEN issued[j] ELSE j.of]
    /\ Answer(i, "ok")
    /\ UNCHANGED <<run, shaken>>

\* CreateWopiFile: FileMode.CreateNew takes no name that is in use.
CreateFile(i, p) ==
    IF FolderExists(Parent(p)) /\ p \notin DOMAIN tree
    THEN Create(i, p, {p}, "file")
    ELSE Refuse(i, "error")

\* CreateWopiChildContainer: DirectoryInfo.Create creates the folders above, too.
CreateFolder(i, p) ==
    LET above == {SubSeq(p, 1, k) : k \in 0 .. Len(p)}
    IN  IF FolderExists(p) \/ \E q \in above : FileExists(q)
        THEN Refuse(i, "error")
        ELSE Create(i, p, above \ DOMAIN tree, "folder")

\* CreateChildContainer; "mode" says which header the request has.
CreateChildContainer(i, r, mode) ==
    IF ~Known(i) THEN Refuse(i, "notFound")
    ELSE \/ /\ mode = "suggested"
            /\ CreateFolder(i, At(ids[i], Suggested("folder", ids[i], r)))
         \/ /\ mode = "relative"
            /\ LET p == At(ids[i], Candidate[r][0])
               IN  IF HasId(p) THEN Refuse(i, "conflict") ELSE CreateFolder(i, p)

\* What CreateChildFile and PutRelativeFile do in the folder "at".  A file that
\* is overwritten stays what it is; it may be locked.
NewFileIn(i, at, r, mode) ==
    LET p == At(at, Candidate[r][0])
    IN  \/ mode = "suggested" /\ CreateFile(i, At(at, Suggested("file", at, r)))
        \/ mode # "suggested" /\ ~HasId(p) /\ CreateFile(i, p)
        \/ mode # "suggested" /\ HasId(p) /\ ~FileExists(p) /\ Refuse(i, "error")
        \/ mode = "relative" /\ HasId(p) /\ FileExists(p) /\ Refuse(i, "conflict")
        \/ /\ mode = "overwrite" /\ HasId(p) /\ FileExists(p)
           /\ \E s \in {"ok", "conflict"} : Refuse(i, s)

CreateChildFile(i, r, mode) ==
    IF ~Known(i) THEN Refuse(i, "notFound") ELSE NewFileIn(i, ids[i], r, mode)

\* GetAncestors: the folders above the folder p, and RootPath itself for a file in it.
AncestorsOf(p, isFile) ==
    {SubSeq(p, 1, k) : k \in 0 .. (Len(p) - 1)}
        \cup (IF isFile /\ p = RootPath THEN {p} ELSE {})

\* GetFileParentIdentifier and GetFolderParentIdentifier find an identifier on the way up.
AncestorsFound(p) == \A k \in 0 .. Len(p) : HasId(SubSeq(p, 1, k))

Deepest(S) == CHOOSE p \in S : \A q \in S : Len(q) <= Len(p)

\* The file must be there: new WopiFile reads its version.
FileThere(i) == Known(i) /\ FileExists(ids[i])
FileMissing(i) ==
    \/ ~Known(i) /\ Refuse(i, "notFound")
    \/ Known(i) /\ ~FileExists(ids[i]) /\ Refuse(i, "error")

PutRelativeFile(i, r, mode) ==
    \/ FileMissing(i)
    \/ /\ FileThere(i)
       /\ LET p == Parent(ids[i])
          IN  IF AncestorsFound(p)
              THEN NewFileIn(i, Deepest(AncestorsOf(p, TRUE)), r, mode)
              ELSE Refuse(i, "error")
-----------------------------------------------------------------------------
Within(p, q) == Len(p) <= Len(q) /\ SubSeq(q, 1, Len(p)) = p

IsEmpty(p) == \A q \in DOMAIN tree : q = RootPath \/ Parent(q) # p

\* File.Move and Directory.Move: what is in a folder goes with it.
Swapped(q, from, to) == IF Within(from, q) THEN [q EXCEPT ![Len(to)] = to[Len(to)]] ELSE q

Moved(from, to) ==
    [q \in {Swapped(x, from, to) : x \in DOMAIN tree} |-> tree[Swapped(q, to, from)]]

\* The identifier of what was renamed gets its new path, and no other does.
Rename(i, to) ==
    /\ tree' = Moved(ids[i], to)
    /\ ids' = UpdateFile(i, to)
    /\ shaken' = (shaken \/ ~IsEmpty(ids[i]))
    /\ Answer(i, "ok")
    /\ UNCHANGED <<made, run, issued>>

\* RenameFile has GetSuggestedName look below the file for the name, where nothing is.
RenameFile(i, r) ==
    \/ FileMissing(i)
    \/ /\ FileThere(i)
       /\ LET to == At(Parent(ids[i]), Candidate[r][0])
          IN  \/ Refuse(i, "conflict")              \* another session has it locked
              \/ FileExists(to) /\ Refuse(i, "conflict")
              \/ FolderExists(to) /\ Refuse(i, "error")
              \/ to \notin DOMAIN tree /\ Rename(i, to)

\* Directory.Move needs something to move, and nothing where it goes.
RenameContainer(i, r) ==
    \/ ~Known(i) /\ Refuse(i, "notFound")
    \/ /\ Known(i)
       /\ LET to == At(Parent(ids[i]), Candidate[r][0])
              there == ids[i] \in DOMAIN tree
          IN  \/ FolderExists(to) /\ Refuse(i, "conflict")
              \/ ~FolderExists(to) /\ ~there /\ Refuse(i, "notFound")
              \/ there /\ FileExists(to) /\ Refuse(i, "error")
              \/ there /\ to \notin DOMAIN tree /\ Rename(i, to)

\* File.Delete, or Directory.Delete, which takes what is in the folder too
Erase(i) ==
    /\ tree' = Restrict(tree, {q \in DOMAIN tree : ~Within(ids[i], q)})
    /\ ids' = RemoveId(i)
    /\ Answer(i, "ok")
    /\ UNCHANGED <<made, run, issued, shaken>>

DeleteFile(i) ==
    \/ FileMissing(i)
    \/ FileThere(i) /\ Refuse(i, "conflict")        \* it is locked
    \/ FileThere(i) /\ Erase(i)

\* Variant with a bug: the folder need not be empty.
DeleteWithContent(i) ==
    LET there == Known(i) /\ FolderExists(ids[i])
    IN  \/ ~there /\ Refuse(i, "notFound")
        \/ there /\ Erase(i)

DeleteContainer(i) ==
    LET there == Known(i) /\ FolderExists(ids[i])
    IN  \/ ~there /\ Refuse(i, "notFound")
        \/ there /\ ~IsEmpty(ids[i]) /\ Refuse(i, "conflict")
        \/ there /\ IsEmpty(ids[i]) /\ Erase(i)

\* Variant with a bug: ScanAll does not clear the table, which has outlived the host.
RestartKeepingTable ==
    /\ run < MaxRuns
    /\ run' = run + 1
    /\ \E p \in DOMAIN tree :
          /\ LastTestFile(p)
          /\ ids' = [i \in DOMAIN ids \cup DOMAIN Scan(run + 1, p) |->
                       IF i \in DOMAIN Scan(run + 1, p) THEN Scan(run + 1, p)[i] ELSE ids[i]]
          /\ issued' = Identified(run + 1, p)
    /\ shaken' = FALSE
    /\ last' = [id |-> [of |-> Root, run |-> run + 1], status |-> "none"]
    /\ UNCHANGED <<tree, made>>

\* The host starts again; the first request scans what is on disk.
Restart ==
    /\ run < MaxRuns
    /\ run' = run + 1
    /\ \E p \in DOMAIN tree :
          /\ LastTestFile(p)
          /\ ids' = Scan(run + 1, p)
          /\ issued' = Identified(run + 1, p)
    /\ shaken' = FALSE
    /\ last' = [id |-> [of |-> Root, run |-> run + 1], status |-> "none"]
    /\ UNCHANGED <<tree, made>>

\* The identifiers clients have: those given out in this run, and of each earlier run
\* the root's, which the host knows as little as any other from then.  Nothing checks
\* that a file's comes with a file operation and a folder's with a container operation.
Given == DOMAIN issued \cup {Wopitest} \cup {[of |-> Root, run |-> k] : k \in 1 .. (run - 1)}

ContainerOperation(i) ==
    \/ \E r \in Requested :
          \/ \E m \in {"suggested", "relative"} : CreateChildContainer(i, r, m)
          \/ \E m \in {"suggested", "relative", "overwrite"} : CreateChildFile(i, r, m)
          \/ i # NewId(Root) /\ RenameContainer(i, r)
    \/ i # NewId(Root) /\ DeleteContainer(i)

FileOperation(i) ==
    \/ \E r \in Requested :
          \/ \E m \in {"suggested", "relative", "overwrite"} : PutRelativeFile(i, r, m)
          \/ RenameFile(i, r)
    \/ DeleteFile(i)

\* Nobody renames or deletes the root container: no request works after that
\* (the constructor of WopiFileSystemProvider looks for its identifier).
Next ==
    \/ \E i \in Given :
          \/ asked' = "folder" /\ ContainerOperation(i)
          \/ asked' = "file" /\ FileOperation(i)
    \/ asked' = "folder" /\ Restart

Spec == Init /\ [][Next]_vars

-----------------------------------------------------------------------------
\* Files and folders have paths below RootPath; the table holds identifiers that
\* were given out in this run, with such paths.
TypeOK ==
    /\ \A p \in DOMAIN tree : IsPath(p)
    /\ Range(tree) \subseteq {o \in Object : o.no <= made}
    /\ made \in 0 .. MaxObjects
    /\ run \in 1 .. MaxRuns
    /\ DOMAIN ids \subseteq DOMAIN issued
    /\ \A p \in Range(ids) : IsPath(p)
    /\ DOMAIN issued \subseteq {i \in Guid : i.run = run} \cup {Wopitest}
    /\ Range(issued) \subseteq {o \in Object : o.no <= made}
    /\ shaken \in BOOLEAN
    /\ asked \in {"file", "folder"}
    /\ last \in [id : Id, status : Status]

\* As long as no folder is renamed with something in it (WopiFileSystemProvider.cs:389),
\* an identifier names, all through a run of the host, the very file or folder it was
\* given out for, wherever that is moved to, until it is deleted, and then it names
\* nothing.  In another run WOPITEST may name another file (InMemoryFileIds.cs:105).
TableMatchesDisk ==
    ~shaken => \A i \in DOMAIN issued :
        /\ Known(i) <=> issued[i] \in Range(tree)
        /\ Known(i) => ids[i] \in DOMAIN tree /\ tree[ids[i]] = issued[i]

\* As long as no such rename has happened, every file and folder can be reached:
\* EnumerateChildren of the folder it is in lists it, which takes an identifier, and
\* GetAncestors finds one for every folder on the way up to the root.  The exception
\* is a file whose name ends in "test.wopitest", when the scan gave WOPITEST to another.
EverythingReachable ==
    ~shaken => \A p \in DOMAIN tree \ {RootPath} :
        /\ AncestorsFound(Parent(p))
        /\ ~HasId(p) =>
              TestFile(p) /\ Wopitest \in DOMAIN issued /\ issued[Wopitest] # tree[p]

\* As long as no such rename has happened, the answers about what the host has given
\* out an identifier for in this run are true of it.  A 409 says that it is there.  A
\* 404 says that it has been deleted, or that it is a file and the operation is on
\* containers (DeleteContainer, WopiFileSystemProvider.cs:323).
AnsweredTruly ==
    ~shaken /\ last.id \in DOMAIN issued =>
        LET what == issued[last.id]
        IN  /\ last.status = "conflict" => what \in Range(tree)
            /\ last.status = "notFound" =>
                  what \notin Range(tree) \/ (what.kind = "file" /\ asked = "folder")

\* No request makes files or folders disappear that it does not name, whatever was
\* renamed before: a new file, a move or the deletion of a folder takes no other along.
NothingElseLost ==
    [][\A o \in Range(tree) \ Range(tree') :
          Known(last'.id) /\ tree[ids[last'.id]] = o]_vars

\* "EnumerateAncestors ... enumerates all the parents of a given file, up to and
\* including the root container" (FilesController.cs:240): the folders GetAncestors
\* returns for a file are all those above it.
AllParentsEnumerated ==
    \A i \in DOMAIN ids : FileThere(i) =>
        AncestorsOf(Parent(ids[i]), TRUE) = {SubSeq(ids[i], 1, k) : k \in 0 .. (Len(ids[i]) - 1)}
=============================================================================
