------------------------------- MODULE DbFiles -------------------------------
(***************************************************************************)
(* The sample host's files: a database row per file, its content on disk   *)
(* under the row's name.  A request reads the row once, works on the copy  *)
(* its DbContext tracks, and writes row and disk one after the other; any  *)
(* of these steps may fail, and the host may stop between them.            *)
(* Row locks, the order of their checks and the answers about them are     *)
(* MemoryLocks' and SessionLocks' subject: here a request with a lock gets *)
(* past it or is refused.                                                  *)
(***************************************************************************)
EXTENDS Integers, FiniteSets

CONSTANTS
    Files,
    Clients,
    Names,        \* FileName; all rows share one RemotePath
    Requested,    \* names a RenameFile may ask for, the extension added
    Candidate,    \* Candidate[r][k]: r with " (k)" before its extension, r for k = 0
    Tries,        \* 99 in the code
    Empty,        \* content of length 0
    Missing,      \* there is nothing on disk under that name
    Gone, Lost,   \* see DocumentStore
    Faults,       \* the steps that may fail, a subset of FaultySteps
    MaxRequests,  \* bound on the requests that come in
    Isolated      \* TRUE: requests that conflict do not overlap

FaultySteps == {"receive", "write", "row", "rename", "move", "delete", "unlink", "crash"}

Document == [of : Files, by : 0 .. MaxRequests, whole : BOOLEAN]

ASSUME DbFilesAssumption ==
    /\ IsFiniteSet(Files) /\ Files # {}
    /\ Requested # {}
    /\ Tries \in Nat
    /\ Candidate \in [Requested -> [0 .. Tries -> Names]]
    /\ \A r \in Requested : \A j, k \in 0 .. Tries :
          Candidate[r][j] = Candidate[r][k] => j = k
    /\ Empty \notin Document /\ Missing \notin Document \cup {Empty}
    /\ Lost \notin Document \cup {Empty}
    /\ Gone \notin Names
    /\ Faults \subseteq FaultySteps
    /\ MaxRequests \in Nat
    /\ Isolated \in BOOLEAN

VARIABLES
    rows,      \* the table CR02TepDinhKem
    disk,      \* disk[n]: what is stored under name n
    torn,      \* history: files some operation on which stopped half-way
    requests,  \* requests that have come in
    pc,        \* pc[c]: how far the thread that serves client c has come
    job,       \* job[c]: the request it serves
    seen,      \* seen[c]: the row as its DbContext tracks it
    tries,     \* tries[c]: the number in the name GetSuggestedName tries
    answer     \* answer[c]: the response it is about to send

thread == <<pc, job, seen, tries, answer>>
vars == <<rows, disk, torn, requests, thread>>

DocumentsOf(f) == {d \in Document : d.of = f} \cup {Empty}
Original(f) == [of |-> f, by |-> 0, whole |-> TRUE]
Contents == Document \cup {Empty}

\* data stands for SizeInBytes, WriteDate and Version: the content they describe.
Row == [name : Names, active : BOOLEAN, data : Contents]

Label == {"idle", "load", "receive", "write", "row", "suggest",
          "requery", "rename", "move", "delete", "unlink", "reply"}

Operations == {"GetFile", "PutFile", "RenameFile", "DeleteFile"}

Job == [op : Operations, file : Files, asked : Requested, body : Contents,
        locked : BOOLEAN]                 \* with X-WOPI-Lock

Answer == [status : {"none", "ok", "conflict", "notFound", "error"},
           body : Contents]

Asked == CHOOSE r \in Requested : TRUE

NoAnswer == [status |-> "none", body |-> Empty]
NoJob == [op |-> "GetFile", file |-> CHOOSE f \in Files : TRUE, asked |-> Asked,
          body |-> Empty, locked |-> FALSE]
NoRow == [name |-> Candidate[Asked][0], active |-> FALSE, data |-> Empty]

TypeOK ==
    /\ rows \in [Files -> Row]
    /\ disk \in [Names -> Contents \cup {Missing}]
    /\ torn \subseteq Files
    /\ requests \in 0 .. MaxRequests
    /\ pc \in [Clients -> Label]
    /\ job \in [Clients -> Job]
    /\ seen \in [Clients -> Row]
    /\ tries \in [Clients -> 0 .. Tries]
    /\ answer \in [Clients -> Answer]

\* Rows come from outside; the content of some may not be where they say.
Init ==
    /\ \E name \in [Files -> Names], blank \in SUBSET Files :
         /\ \A f, g \in Files : name[f] = name[g] => f = g
         /\ rows = [f \in Files |->
                      [name |-> name[f], active |-> TRUE,
                       data |-> IF f \in blank THEN Empty ELSE Original(f)]]
    /\ torn \in SUBSET Files
    /\ disk = [n \in Names |->
                 IF \E f \in Files \ torn : rows[f].name = n
                 THEN rows[CHOOSE f \in Files : rows[f].name = n].data
                 ELSE Missing]
    /\ requests = 0
    /\ pc = [c \in Clients |-> "idle"]
    /\ job = [c \in Clients |-> NoJob]
    /\ seen = [c \in Clients |-> NoRow]
    /\ tries = [c \in Clients |-> 0]
    /\ answer = [c \in Clients |-> NoAnswer]

-----------------------------------------------------------------------------
(* Moves of one thread.                                                    *)

File(c) == job[c].file

\* The name GetSuggestedName has come to.
Name(c) == Candidate[job[c].asked][tries[c]]

Goto(c, label) ==
    /\ pc' = [pc EXCEPT ![c] = label]
    /\ UNCHANGED answer

Reply(c, status, body) ==
    /\ pc' = [pc EXCEPT ![c] = "reply"]
    /\ answer' = [answer EXCEPT ![c] = [status |-> status, body |-> body]]

\* GetFileById: a file that is not active is not found.
Found(f) == rows[f].active

Jobs(n) ==
    [op : {"GetFile", "DeleteFile"}, file : Files, asked : {Asked},
     body : {Empty}, locked : {FALSE}]
    \cup [op : {"RenameFile"}, file : Files, asked : Requested,
          body : {Empty}, locked : {FALSE}]
    \cup UNION {[op : {"PutFile"}, file : {f}, asked : {Asked},
                 body : {Empty, [of |-> f, by |-> n, whole |-> TRUE]},
                 locked : BOOLEAN] : f \in Files}

First == [GetFile |-> "load", PutFile |-> "receive",
          RenameFile |-> "suggest", DeleteFile |-> "requery"]

\* Variant with a bug: a PutFile without X-WOPI-Lock always goes on.
NeverRefused(j, row) == FALSE

\* Without X-WOPI-Lock PutFile goes by the size in the row.
Refused(j, row) == j.op = "PutFile" /\ ~j.locked /\ row.data # Empty

\* Which requests share rows or names: two for one file that do not both read
\* it; a rename and any other change of who has which name.
Conflict(j, k) ==
    \/ j.file = k.file /\ {j.op, k.op} # {"GetFile"}
    \/ j.op = "RenameFile" /\ k.op \in {"RenameFile", "DeleteFile"}
    \/ k.op = "RenameFile" /\ j.op \in {"RenameFile", "DeleteFile"}

Arrive(c) ==
    /\ pc[c] = "idle"
    /\ requests < MaxRequests
    /\ requests' = requests + 1
    /\ \E j \in Jobs(requests + 1) :
         /\ Isolated => \A d \in Clients : pc[d] # "idle" => ~Conflict(j, job[d])
         /\ job' = [job EXCEPT ![c] = j]
         /\ seen' = [seen EXCEPT ![c] = rows[j.file]]
         /\ IF ~Found(j.file) THEN Reply(c, "notFound", Empty)
            ELSE IF Refused(j, rows[j.file]) THEN Reply(c, "conflict", Empty)
            ELSE Goto(c, First[j.op])
    /\ tries' = [tries EXCEPT ![c] = 0]
    /\ UNCHANGED <<rows, disk, torn>>

Deliver(c) ==
    /\ pc[c] = "reply"
    /\ pc' = [pc EXCEPT ![c] = "idle"]
    /\ job' = [job EXCEPT ![c] = NoJob]
    /\ seen' = [seen EXCEPT ![c] = NoRow]
    /\ tries' = [tries EXCEPT ![c] = 0]
    /\ answer' = [answer EXCEPT ![c] = NoAnswer]
    /\ UNCHANGED <<rows, disk, torn, requests>>

-----------------------------------------------------------------------------
(* GetFile, and CheckFileInfo, which hashes the content it reads.          *)

\* Variant with a bug: no test whether the file exists.
ReadAnyway(n) == disk[n]

\* GetFileContent: a file that is not on disk reads as an empty one.
ReadAllBytes(n) == IF disk[n] = Missing THEN Empty ELSE disk[n]

Load(c) ==
    /\ pc[c] = "load"
    /\ Reply(c, "ok", ReadAllBytes(seen[c].name))
    /\ UNCHANGED <<rows, disk, torn, requests, job, seen, tries>>

-----------------------------------------------------------------------------
(* PutFile: the body goes to a SaveableMemoryStream, which saves what it   *)
(* has when it is disposed.                                                *)

Part(d) == [d EXCEPT !.whole = FALSE]

\* The answer of a PutFile whose save is over, whatever became of it: the
\* controller learns of a broken body, and of nothing that happens in Dispose.
Disposed(c) ==
    Reply(c, IF job[c].body = Empty \/ job[c].body.whole THEN "ok" ELSE "error", Empty)

\* CopyToWriteStream; an empty stream is not saved.
Receive(c) ==
    /\ pc[c] = "receive"
    /\ \/ /\ IF job[c].body = Empty THEN Disposed(c) ELSE Goto(c, "write")
          /\ UNCHANGED job
       \/ /\ "receive" \in Faults
          /\ \/ /\ job[c].body # Empty
                /\ job' = [job EXCEPT ![c].body = Part(job[c].body)]
                /\ Goto(c, "write")
             \/ /\ Reply(c, "error", Empty)
                /\ UNCHANGED job
    /\ UNCHANGED <<rows, disk, torn, requests, seen, tries>>

\* SaveFileContent: File.WriteAllBytes truncates, then writes.
Write(c) ==
    /\ pc[c] = "write"
    /\ \/ /\ disk' = [disk EXCEPT ![seen[c].name] = job[c].body]
          /\ Goto(c, "row")
          /\ UNCHANGED torn
       \/ /\ "write" \in Faults
          /\ \E left \in {Empty, Part(job[c].body)} :
               disk' = [disk EXCEPT ![seen[c].name] = left]
          /\ torn' = torn \cup {File(c)}
          /\ Disposed(c)
       \/ /\ "write" \in Faults
          /\ UNCHANGED <<disk, torn>>
          /\ Disposed(c)
    /\ UNCHANGED <<rows, requests, job, seen, tries>>

\* Variant with a bug: size and version stay as they were read.
RowAsRead(c) == seen[c]

\* UpdateFile: DbSet.Update marks every column modified, so the whole row is
\* written as it was read, name and Active included.
SavedRow(c) == [seen[c] EXCEPT !.data = job[c].body]

UpdateRow(c) ==
    /\ pc[c] = "row"
    /\ \/ /\ rows' = [rows EXCEPT ![File(c)] = SavedRow(c)]
          /\ torn' = torn \ {File(c)}
       \/ /\ "row" \in Faults
          /\ torn' = torn \cup {File(c)}
          /\ UNCHANGED rows
    /\ Disposed(c)
    /\ UNCHANGED <<disk, requests, job, seen, tries>>

-----------------------------------------------------------------------------
(* RenameFile and DeleteFile.                                              *)

\* Variant with a bug: the database is not asked.
NeverTaken(n) == FALSE

\* FileExistsByName
Taken(n) == \E f \in Files : rows[f].active /\ rows[f].name = n

\* Variant with a bug: the search never gets beyond its first name.
SameNumber(c) == tries[c]

NextNumber(c) == tries[c] + 1

\* GetSuggestedName: one query per name; the last is returned even if taken.
Suggest(c) ==
    /\ pc[c] = "suggest"
    /\ IF Taken(Name(c)) /\ tries[c] < Tries
       THEN /\ tries' = [tries EXCEPT ![c] = NextNumber(c)]
            /\ Goto(c, "suggest")
       ELSE /\ Goto(c, "requery")
            /\ UNCHANGED tries
    /\ UNCHANGED <<rows, disk, torn, requests, job, seen>>

\* The second query of a row answers with the entity tracked since the first.
Requery(c) ==
    /\ pc[c] = "requery"
    /\ IF Found(File(c))
       THEN Goto(c, IF job[c].op = "RenameFile" THEN "rename" ELSE "delete")
       ELSE Reply(c, "error", Empty)
    /\ UNCHANGED <<rows, disk, torn, requests, job, seen, tries>>

RenamedRow(c) == [seen[c] EXCEPT !.name = Name(c)]

RenameRow(c) ==
    /\ pc[c] = "rename"
    /\ \/ /\ rows' = [rows EXCEPT ![File(c)] = RenamedRow(c)]
          /\ Goto(c, "move")
       \/ /\ "rename" \in Faults
          /\ Reply(c, "error", Empty)
          /\ UNCHANGED rows
    /\ UNCHANGED <<disk, torn, requests, job, seen, tries>>

\* File.Move, overwriting what is there; a file without content stays so.
Moved(from, to) ==
    IF disk[from] = Missing THEN disk
    ELSE [disk EXCEPT ![from] = Missing, ![to] = disk[from]]

Move(c) ==
    /\ pc[c] = "move"
    /\ \/ /\ disk' = Moved(seen[c].name, Name(c))
          /\ Reply(c, "ok", Empty)
          /\ UNCHANGED torn
       \/ /\ "move" \in Faults
          /\ torn' = torn \cup {File(c)}
          /\ Reply(c, "error", Empty)
          /\ UNCHANGED disk
    /\ UNCHANGED <<rows, requests, job, seen, tries>>

\* Active alone has changed, so it alone is written.
DeleteRow(c) ==
    /\ pc[c] = "delete"
    /\ \/ /\ rows' = [rows EXCEPT ![File(c)].active = FALSE]
          /\ Goto(c, "unlink")
       \/ /\ "delete" \in Faults
          /\ Reply(c, "error", Empty)
          /\ UNCHANGED rows
    /\ UNCHANGED <<disk, torn, requests, job, seen, tries>>

Unlink(c) ==
    /\ pc[c] = "unlink"
    /\ \/ /\ disk' = [disk EXCEPT ![seen[c].name] = Missing]
          /\ Reply(c, "ok", Empty)
       \/ /\ "unlink" \in Faults
          /\ Reply(c, "error", Empty)
          /\ UNCHANGED disk
    /\ UNCHANGED <<rows, torn, requests, job, seen, tries>>

\* The host stops and starts again: rows and files are what was written last.
\* That it stops within a write to disk is a failed Write with a Crash after it.
HalfWay == {File(c) : c \in {d \in Clients : pc[d] \in {"row", "move"}}}

Crash ==
    /\ "crash" \in Faults
    /\ torn' = torn \cup HalfWay
    /\ pc' = [c \in Clients |-> "idle"]
    /\ job' = [c \in Clients |-> NoJob]
    /\ seen' = [c \in Clients |-> NoRow]
    /\ tries' = [c \in Clients |-> 0]
    /\ answer' = [c \in Clients |-> NoAnswer]
    /\ UNCHANGED <<rows, disk, requests>>

Step(c) ==
    \/ Arrive(c) \/ Load(c) \/ Receive(c) \/ Write(c) \/ UpdateRow(c)
    \/ Suggest(c) \/ Requery(c) \/ RenameRow(c) \/ Move(c)
    \/ DeleteRow(c) \/ Unlink(c) \/ Deliver(c)

Next == Crash \/ \E c \in Clients : Step(c)

Spec == Init /\ [][Next]_vars

\* The thread of a request that has come in runs until it has answered.
FairSpec == Spec /\ \A c \in Clients : WF_vars(pc[c] # "idle" /\ Step(c))

-----------------------------------------------------------------------------
(* Properties.                                                             *)

\* What a read of f would find; in a rename the content follows the new name.
Holds(f) ==
    IF ~rows[f].active \/ f \in torn THEN Lost
    ELSE LET movers == {c \in Clients : pc[c] = "move" /\ File(c) = f} IN
         disk[IF movers = {} THEN rows[f].name
              ELSE seen[CHOOSE c \in movers : TRUE].name]

Called(f) == IF rows[f].active THEN rows[f].name ELSE Gone

Store == INSTANCE DocumentStore WITH
    ContentsOf <- [f \in Files |-> DocumentsOf(f)],
    called <- [f \in Files |-> Called(f)],
    holds <- [f \in Files |-> Holds(f)]

\* FileService: while no two requests in flight conflict, the table and the
\* directory together are a store of documents.  No two files come to share a name, so none reads
\* or loses another's content; a rename takes the content along; a deleted file
\* stays deleted; a failure costs at most the file it happened to.
ImplementsStore == Store!Spec

\* GetFile, CheckFileInfo: the version and size in the answer are those of the
\* content in the answer, unless an operation on the file stopped half-way.
ServedAsDescribed ==
    \A c \in Clients :
        /\ pc[c] = "reply" /\ job[c].op = "GetFile" /\ answer[c].status = "ok"
        /\ File(c) \notin torn
        => answer[c].body = seen[c].data

\* PutFile without X-WOPI-Lock: what it writes over is empty, as the size in
\* the row said, unless an operation on the file stopped half-way.
UnlockedPutFindsEmpty ==
    \A c \in Clients :
        pc[c] = "write" /\ ~job[c].locked /\ File(c) \notin torn
        => disk[seen[c].name] = Empty

\* Every request is answered, the search for a free name included: each thread
\* gets back to waiting for one, again and again.
EveryRequestAnswered ==
    \A c \in Clients : []<>(pc[c] = "idle")

-----------------------------------------------------------------------------
(* The inductive invariant behind ImplementsStore and ServedAsDescribed.   *)
(* It needs Orderly: requests that conflict do not overlap, and the search *)
(* for a free name has more tries than there are files.                    *)

Orderly == Isolated /\ Cardinality(Files) <= Tries

InFlight(c) == pc[c] # "idle"

UniqueNames ==
    \A f, g \in Files :
        rows[f].active /\ rows[g].active /\ rows[f].name = rows[g].name => f = g

\* A file nobody is working on and nothing has happened to is what its row says.
Settled(f) ==
    /\ rows[f].data \in DocumentsOf(f)
    /\ rows[f].active /\ f \notin torn
          /\ (\A c \in Clients : pc[c] \in {"row", "move"} => File(c) # f)
       => disk[rows[f].name] = rows[f].data

\* How far a request of each kind may have come.
Stages ==
    [GetFile    |-> {"load"},
     PutFile    |-> {"receive", "write", "row"},
     RenameFile |-> {"suggest", "requery", "rename", "move"},
     DeleteFile |-> {"requery", "delete", "unlink"}]

\* A body is content of its file, and there is something to write of it.
BodyInv(c) ==
    /\ job[c].body \in DocumentsOf(File(c))
    /\ pc[c] \in {"write", "row"} => job[c].body # Empty
    /\ pc[c] \in Stages[job[c].op] \cup {"idle", "reply"}
    /\ job[c].op # "PutFile" => job[c].body = Empty

\* What the thread of c has read and done so far.
ThreadInv(c) ==
    /\ pc[c] \in {"load", "receive", "write", "row", "suggest", "requery",
                   "rename", "delete"} =>
          rows[File(c)] = seen[c] /\ seen[c].active
    /\ pc[c] = "row" => disk[seen[c].name] = job[c].body
    /\ pc[c] = "suggest" => \A k \in 0 .. (tries[c] - 1) : Taken(Candidate[job[c].asked][k])
    /\ pc[c] \in {"requery", "rename"} /\ job[c].op = "RenameFile" => ~Taken(Name(c))
    /\ pc[c] = "move" =>
          /\ rows[File(c)] = [seen[c] EXCEPT !.name = Name(c)]
          /\ seen[c].active /\ ~Taken(seen[c].name)
          /\ File(c) \notin torn => disk[seen[c].name] = seen[c].data
    /\ pc[c] = "unlink" => ~rows[File(c)].active /\ ~Taken(seen[c].name)
    /\ pc[c] \in {"receive", "write"} /\ ~job[c].locked => seen[c].data = Empty

\* No two requests in flight conflict.
Apart ==
    \A c, d \in Clients :
        InFlight(c) /\ InFlight(d) /\ Conflict(job[c], job[d]) => c = d

StoreInv ==
    /\ UniqueNames
    /\ \A f \in Files : Settled(f)
    /\ \A c \in Clients : BodyInv(c) /\ ThreadInv(c)
    /\ Apart

-----------------------------------------------------------------------------
(* What a comment says and a failed save breaks.                           *)

\* "This ensures that changes made to the stream are persisted to the underlying
\* storage" (SaveableMemoryStream): a PutFile that answers Ok has stored its body.
AnsweredPutIsStored ==
    \A c \in Clients :
        /\ pc[c] = "reply" /\ job[c].op = "PutFile" /\ answer[c].status = "ok"
        /\ job[c].body # Empty
        => disk[seen[c].name] = job[c].body
=============================================================================
