--------------------------- MODULE DbFilesProofs ----------------------------
(***************************************************************************)
(* Theorems about DbFiles, for all values of its constants.                *)
(***************************************************************************)
EXTENDS DbFiles, FiniteSetTheorems, TLAPS

-----------------------------------------------------------------------------
(* Types.                                                                  *)

LEMMA Constants ==
    /\ NoAnswer \in Answer /\ NoJob \in Job /\ NoRow \in Row
    /\ Asked \in Requested
    /\ \A r \in Requested : \A k \in 0 .. Tries : Candidate[r][k] \in Names
<1> USE DbFilesAssumption
<1>1. NoAnswer \in Answer
  BY DEF NoAnswer, Answer, Contents
<1>2. Asked \in Requested
  BY DEF Asked
<1>3. (CHOOSE f \in Files : TRUE) \in Files
  OBVIOUS
<1>4. NoJob \in Job
  BY <1>2, <1>3 DEF NoJob, Job, Contents, Operations
<1>5. \A r \in Requested : \A k \in 0 .. Tries : Candidate[r][k] \in Names
  OBVIOUS
<1>6. NoRow \in Row
  BY <1>2, <1>5 DEF NoRow, Row, Contents
<1> QED
  BY <1>1, <1>2, <1>4, <1>5, <1>6

LEMMA JobTypes ==
    ASSUME NEW n \in 0 .. MaxRequests, NEW j \in Jobs(n)
    PROVE  /\ j \in Job
           /\ j.body \in DocumentsOf(j.file)
           /\ j.op = "PutFile" \/ j.body = Empty
<1>1. Asked \in Requested
  BY Constants
<1>2. CASE j \in [op : {"GetFile", "DeleteFile"}, file : Files, asked : {Asked},
                  body : {Empty}, locked : {FALSE}]
  <2>1. j \in Job
    BY <1>1, <1>2 DEF Job, Operations, Contents
  <2> QED
    BY <2>1, <1>2 DEF DocumentsOf
<1>3. CASE j \in [op : {"RenameFile"}, file : Files, asked : Requested,
                  body : {Empty}, locked : {FALSE}]
  <2>1. j \in Job
    BY <1>3 DEF Job, Operations, Contents
  <2> QED
    BY <2>1, <1>3 DEF DocumentsOf
<1>4. ASSUME NEW f \in Files,
             j \in [op : {"PutFile"}, file : {f}, asked : {Asked},
                    body : {Empty, [of |-> f, by |-> n, whole |-> TRUE]},
                    locked : BOOLEAN]
      PROVE  /\ j \in Job
             /\ j.body \in DocumentsOf(j.file)
             /\ j.op = "PutFile"
  <2>1. [of |-> f, by |-> n, whole |-> TRUE] \in Document
    BY DEF Document
  <2> DEFINE bodies == {Empty, [of |-> f, by |-> n, whole |-> TRUE]}
  <2>2. bodies \subseteq Contents /\ bodies \subseteq DocumentsOf(f)
    BY <2>1 DEF Contents, DocumentsOf
  <2>3. j \in [op : {"PutFile"}, file : {f}, asked : {Asked}, body : bodies, locked : BOOLEAN]
    BY <1>4
  <2> HIDE DEF bodies
  <2>4. j \in Job
    BY <2>2, <2>3, <1>1 DEF Job, Operations
  <2>5. j.op = "PutFile" /\ j.file = f /\ j.body \in bodies
    BY <2>3
  <2> QED
    BY <2>2, <2>4, <2>5
<1> QED
  BY <1>2, <1>3, <1>4 DEF Jobs

\* The moves of a thread keep the types of the variables they assign.
ThreadType ==
    /\ pc \in [Clients -> Label]
    /\ answer \in [Clients -> Answer]

LEMMA GotoType ==
    ASSUME ThreadType, NEW c \in Clients, NEW label \in Label, Goto(c, label)
    PROVE  ThreadType'
BY DEF ThreadType, Goto

LEMMA ReplyType ==
    ASSUME ThreadType, NEW c \in Clients,
           NEW status \in {"ok", "conflict", "notFound", "error"},
           NEW body \in Contents, Reply(c, status, body)
    PROVE  ThreadType'
BY DEF ThreadType, Reply, Answer, Label

LEMMA DisposedType ==
    ASSUME ThreadType, NEW c \in Clients, Disposed(c)
    PROVE  ThreadType'
BY ReplyType DEF Disposed, Contents

LEMMA PartType ==
    ASSUME NEW d \in Document
    PROVE  /\ Part(d) \in Document
           /\ Part(d).of = d.of
BY DEF Part, Document

LEMMA InitType == Init => TypeOK
<1> SUFFICES ASSUME Init PROVE TypeOK
  OBVIOUS
<1> USE DbFilesAssumption, Constants
<1>1. PICK name \in [Files -> Names], blank \in SUBSET Files :
         rows = [f \in Files |->
                      [name |-> name[f], active |-> TRUE,
                       data |-> IF f \in blank THEN Empty ELSE Original(f)]]
  BY DEF Init
<1>2. \A f \in Files : Original(f) \in Contents
  BY DEF Original, Contents, Document
<1>3. rows \in [Files -> Row]
  BY <1>1, <1>2 DEF Row, Contents
<1>4. disk \in [Names -> Contents \cup {Missing}]
  BY <1>3 DEF Init, Row
<1>5. /\ job \in [Clients -> Job] /\ seen \in [Clients -> Row]
      /\ answer \in [Clients -> Answer]
  BY DEF Init
<1>6. /\ torn \subseteq Files /\ requests \in 0 .. MaxRequests
      /\ pc \in [Clients -> Label] /\ tries \in [Clients -> 0 .. Tries]
  BY DEF Init, Label
<1> QED
  BY <1>3, <1>4, <1>5, <1>6 DEF TypeOK

LEMMA ArriveType ==
    ASSUME TypeOK, NEW c \in Clients, Arrive(c)
    PROVE  TypeOK'
<1>1. PICK j \in Jobs(requests + 1) :
         /\ job' = [job EXCEPT ![c] = j]
         /\ seen' = [seen EXCEPT ![c] = rows[j.file]]
         /\ IF ~Found(j.file) THEN Reply(c, "notFound", Empty)
            ELSE IF Refused(j, rows[j.file]) THEN Reply(c, "conflict", Empty)
            ELSE Goto(c, First[j.op])
  BY DEF Arrive
<1>2. requests + 1 \in 0 .. MaxRequests
  BY DbFilesAssumption DEF Arrive, TypeOK
<1>3. j \in Job
  BY <1>2, JobTypes
<1>4. j.file \in Files /\ j.op \in Operations
  BY <1>3 DEF Job
<1>5. First[j.op] \in Label
  BY <1>4 DEF First, Label, Operations
<1>6. ThreadType'
  BY <1>1, <1>5, ReplyType, GotoType DEF TypeOK, ThreadType, Contents
<1>7. job' \in [Clients -> Job] /\ seen' \in [Clients -> Row]
  BY <1>1, <1>3, <1>4 DEF TypeOK
<1>8. tries' \in [Clients -> 0 .. Tries]
  BY DbFilesAssumption DEF Arrive, TypeOK
<1> QED
  BY <1>2, <1>6, <1>7, <1>8 DEF TypeOK, ThreadType, Arrive

LEMMA BodyTypes ==
    ASSUME TypeOK, NEW c \in Clients
    PROVE  /\ File(c) \in Files
           /\ job[c].body \in Contents
           /\ Name(c) \in Names
           /\ seen[c].name \in Names
           /\ job[c].body # Empty => Part(job[c].body) \in Document
<1>1. job[c] \in Job /\ seen[c] \in Row /\ tries[c] \in 0 .. Tries
  BY DEF TypeOK
<1>2. job[c].file \in Files /\ job[c].body \in Contents /\ job[c].asked \in Requested
  BY <1>1 DEF Job
<1> QED
  BY <1>1, <1>2, Constants, PartType DEF File, Name, Row, Contents

LEMMA PutType ==
    ASSUME TypeOK, NEW c \in Clients, Load(c) \/ Receive(c) \/ UpdateRow(c)
    PROVE  TypeOK'
<1>1. ThreadType /\ Label = Label \cup {"write"}
  BY DEF TypeOK, ThreadType, Label
<1>2. CASE Load(c)
  <2>1. ReadAllBytes(seen[c].name) \in Contents
    BY BodyTypes DEF ReadAllBytes, TypeOK, Contents
  <2> QED
    BY <1>1, <1>2, <2>1, ReplyType DEF Load, TypeOK, ThreadType
<1>3. CASE Receive(c)
  <2>1. ThreadType'
    BY <1>1, <1>3, GotoType, ReplyType, DisposedType DEF Receive, Contents
  <2>2. job' \in [Clients -> Job]
    <3>1. CASE job[c].body # Empty /\ job' = [job EXCEPT ![c].body = Part(job[c].body)]
      <4>1. job[c] \in Job /\ Part(job[c].body) \in Contents
        BY <3>1, BodyTypes DEF TypeOK, Contents
      <4>2. [job[c] EXCEPT !.body = Part(job[c].body)] \in Job
        BY <4>1 DEF Job
      <4> QED
        BY <3>1, <4>2 DEF TypeOK
    <3> QED
      BY <1>3, <3>1 DEF Receive, TypeOK
  <2> QED
    BY <1>3, <2>1, <2>2 DEF Receive, TypeOK, ThreadType
<1>4. CASE UpdateRow(c)
  <2>1. ThreadType'
    BY <1>1, <1>4, DisposedType DEF UpdateRow
  <2>2. SavedRow(c) \in Row
    BY BodyTypes DEF SavedRow, TypeOK, Row
  <2> QED
    BY <1>4, <2>1, <2>2, BodyTypes DEF UpdateRow, TypeOK, ThreadType
<1> QED
  BY <1>2, <1>3, <1>4

\* Write is reached with a body; that is StoreInv's business, so here the
\* content on disk is typed only as far as Write itself says.
LEMMA WriteType ==
    ASSUME TypeOK, NEW c \in Clients, Write(c), job[c].body # Empty
    PROVE  TypeOK'
<1>1. ThreadType /\ "row" \in Label
  BY DEF TypeOK, ThreadType, Label
<1>2. ThreadType'
  BY <1>1, GotoType, DisposedType DEF Write
<1>3. disk' \in [Names -> Contents \cup {Missing}]
  BY BodyTypes DEF Write, TypeOK, Contents
<1> QED
  BY <1>2, <1>3, BodyTypes DEF Write, TypeOK, ThreadType

LEMMA RenameDeleteType ==
    ASSUME TypeOK, NEW c \in Clients,
           \/ Suggest(c) \/ Requery(c) \/ RenameRow(c) \/ Move(c)
           \/ DeleteRow(c) \/ Unlink(c)
    PROVE  TypeOK'
<1>1. ThreadType /\ Label = Label \cup {"suggest", "requery", "rename", "delete", "move", "unlink"}
  BY DEF TypeOK, ThreadType, Label
<1>2. ThreadType'
  BY <1>1, GotoType, ReplyType
     DEF Suggest, Requery, RenameRow, Move, DeleteRow, Unlink, Contents
<1>3. RenamedRow(c) \in Row /\ [rows[File(c)] EXCEPT !.active = FALSE] \in Row
  BY BodyTypes DEF RenamedRow, TypeOK, Row
<1>4. \A m, n \in Names : Moved(m, n) \in [Names -> Contents \cup {Missing}]
  BY DEF Moved, TypeOK
<1>5. CASE Suggest(c)
  <2>1. tries[c] \in 0 .. Tries /\ Tries \in Nat
    BY DbFilesAssumption DEF TypeOK
  <2>2. tries[c] < Tries => NextNumber(c) \in 0 .. Tries
    BY <2>1 DEF NextNumber
  <2> QED
    BY <1>2, <1>5, <2>2 DEF Suggest, TypeOK, ThreadType
<1>6. CASE Requery(c)
  BY <1>2, <1>6 DEF Requery, TypeOK, ThreadType
<1>7. CASE RenameRow(c)
  BY <1>2, <1>3, <1>7 DEF RenameRow, TypeOK, ThreadType
<1>8. CASE Move(c)
  BY <1>2, <1>4, <1>8, BodyTypes DEF Move, TypeOK, ThreadType
<1>9. CASE DeleteRow(c)
  BY <1>2, <1>3, <1>9 DEF DeleteRow, TypeOK, ThreadType
<1>10. CASE Unlink(c)
  BY <1>2, <1>10 DEF Unlink, TypeOK, ThreadType
<1> QED
  BY <1>5, <1>6, <1>7, <1>8, <1>9, <1>10

LEMMA RestType ==
    ASSUME TypeOK
    PROVE  /\ \A c \in Clients : Deliver(c) => TypeOK'
           /\ Crash => TypeOK'
           /\ UNCHANGED vars => TypeOK'
<1>1. Label = Label \cup {"idle"} /\ 0 \in 0 .. Tries
  BY DbFilesAssumption DEF Label
<1>2. ASSUME NEW c \in Clients, Deliver(c) PROVE TypeOK'
  BY <1>1, <1>2, Constants DEF Deliver, TypeOK
<1>3. ASSUME Crash PROVE TypeOK'
  BY <1>1, <1>3, Constants, BodyTypes DEF Crash, HalfWay, TypeOK
<1>4. ASSUME UNCHANGED vars PROVE TypeOK'
  BY <1>4 DEF vars, thread, TypeOK
<1> QED
  BY <1>2, <1>3, <1>4

BodyOK == TypeOK /\ \A c \in Clients : BodyInv(c)

LEMMA InitBody == Init => BodyOK
<1> SUFFICES ASSUME Init, NEW c \in Clients PROVE BodyInv(c)
  BY InitType DEF BodyOK
<1>1. pc[c] = "idle" /\ job[c] = NoJob
  BY DEF Init
<1>2. NoJob.body = Empty
  BY DEF NoJob
<1> QED
  BY <1>1, <1>2 DEF BodyInv, DocumentsOf

\* Which request a thread serves, by how far it has come.
LEMMA PhaseOf ==
    ASSUME BodyOK, NEW c \in Clients
    PROVE  /\ pc[c] = "load" => job[c].op = "GetFile"
           /\ pc[c] \in {"receive", "write", "row"} => job[c].op = "PutFile"
           /\ pc[c] \in {"suggest", "rename", "move"} => job[c].op = "RenameFile"
           /\ pc[c] \in {"delete", "unlink"} => job[c].op = "DeleteFile"
           /\ pc[c] = "requery" => job[c].op \in {"RenameFile", "DeleteFile"}
<1>1. job[c].op \in Operations /\ BodyInv(c)
  BY DEF BodyOK, TypeOK, Job
<1> QED
  BY <1>1 DEF BodyInv, Stages, Operations

LEMMA StepBody ==
    ASSUME BodyOK, NEW c \in Clients, Step(c)
    PROVE  BodyOK'
<1> USE DEF BodyOK
<1>1. TypeOK'
  <2>1. Write(c) => job[c].body # Empty
    BY DEF Write, BodyInv
  <2> QED
    BY <2>1, ArriveType, PutType, WriteType, RenameDeleteType, RestType DEF Step
<1>2. ASSUME NEW d \in Clients, d # c
      PROVE  pc'[d] = pc[d] /\ job'[d] = job[d]
  BY <1>2 DEF TypeOK, Step, Arrive, Load, Receive, Write, UpdateRow, Suggest, Requery,
     RenameRow, Move, DeleteRow, Unlink, Deliver, Goto, Reply, Disposed
<1>3. BodyInv(c)'
  <2>1. CASE Arrive(c)
    <3>1. PICK j \in Jobs(requests + 1) :
             /\ job' = [job EXCEPT ![c] = j]
             /\ seen' = [seen EXCEPT ![c] = rows[j.file]]
             /\ IF ~Found(j.file) THEN Reply(c, "notFound", Empty)
                ELSE IF Refused(j, rows[j.file]) THEN Reply(c, "conflict", Empty)
                ELSE Goto(c, First[j.op])
      BY <2>1 DEF Arrive
    <3>2. requests + 1 \in 0 .. MaxRequests
      BY <2>1, DbFilesAssumption DEF Arrive, TypeOK
    <3>3. j \in Job /\ j.body \in DocumentsOf(j.file) /\ (j.op = "PutFile" \/ j.body = Empty)
      BY <3>2, JobTypes
    <3>4. j.op \in Operations
      BY <3>3 DEF Job
    <3>5. pc'[c] \in {"write", "row"} => FALSE
      BY <3>1, <3>4 DEF Reply, Goto, First, Operations, TypeOK
    <3>6. pc'[c] \in Stages[j.op] \cup {"reply"}
      BY <3>1, <3>4 DEF Reply, Goto, First, Stages, Operations, TypeOK
    <3>7. job'[c] = j
      BY <3>1 DEF TypeOK
    <3> QED
      BY <3>3, <3>5, <3>6, <3>7 DEF BodyInv, File
  <2>2. CASE Receive(c)
    <3>1. BodyInv(c) /\ pc[c] = "receive" /\ job[c].op = "PutFile"
      BY <2>2, PhaseOf DEF Receive
    <3>0. pc'[c] \in {"write", "reply"}
      BY <2>2 DEF Receive, Goto, Reply, Disposed, TypeOK
    <3>2. CASE UNCHANGED job
      BY <3>1, <3>2, <2>2 DEF Receive, BodyInv, File, Goto, Reply, Disposed, TypeOK, Stages
    <3>3. CASE job[c].body # Empty /\ job' = [job EXCEPT ![c].body = Part(job[c].body)]
      <4>1. /\ Part(job[c].body) \in DocumentsOf(File(c))
            /\ Part(job[c].body) # Empty
        BY <3>1, <3>3, PartType, DbFilesAssumption DEF BodyInv, DocumentsOf
      <4>2. /\ job'[c].op = "PutFile" /\ job'[c].file = job[c].file
            /\ job'[c].body = Part(job[c].body)
        BY <3>1, <3>3 DEF TypeOK, Job
      <4> QED
        BY <3>0, <4>1, <4>2 DEF BodyInv, File, DocumentsOf, Stages
    <3> QED
      BY <3>2, <3>3, <2>2 DEF Receive
  <2>3. CASE Deliver(c)
    BY <2>3, Constants DEF Deliver, BodyInv, DocumentsOf, NoJob, TypeOK
  <2>4. CASE ~Arrive(c) /\ ~Receive(c) /\ ~Deliver(c)
    <3>1. UNCHANGED job
      BY <2>4 DEF Step, Load, Write, UpdateRow, Suggest, Requery, RenameRow, Move,
         DeleteRow, Unlink
    <3>2. /\ pc'[c] = "row" => pc[c] = "write"
          /\ pc'[c] # "write"
      BY <2>4 DEF Step, Load, Write, UpdateRow, Suggest, Requery, RenameRow, Move,
         DeleteRow, Unlink, Goto, Reply, Disposed, TypeOK
    <3>3. pc'[c] \in Stages[job[c].op] \cup {"reply"}
      <4>1. job[c].op \in Operations
        BY DEF TypeOK, Job
      <4>2. CASE Load(c) \/ Write(c) \/ UpdateRow(c)
        BY <4>1, <4>2, PhaseOf DEF Load, Write, UpdateRow, Goto, Reply, Disposed,
           TypeOK, Stages
      <4>3. CASE Suggest(c) \/ RenameRow(c) \/ Move(c)
        BY <4>1, <4>3, PhaseOf DEF Suggest, RenameRow, Move, Goto, Reply, TypeOK, Stages
      <4>4. CASE Requery(c) \/ DeleteRow(c) \/ Unlink(c)
        BY <4>1, <4>4, PhaseOf DEF Requery, DeleteRow, Unlink, Goto, Reply, TypeOK, Stages
      <4> QED
        BY <2>4, <4>2, <4>3, <4>4 DEF Step
    <3> QED
      BY <3>1, <3>2, <3>3 DEF BodyInv, File, DocumentsOf
  <2> QED
    BY <2>1, <2>2, <2>3, <2>4
<1>4. ASSUME NEW d \in Clients, d # c PROVE BodyInv(d)'
  BY <1>2, <1>4 DEF BodyInv, File, DocumentsOf
<1> QED
  BY <1>1, <1>3, <1>4

LEMMA CrashBody ==
    ASSUME BodyOK, Crash \/ UNCHANGED vars
    PROVE  BodyOK'
<1>1. CASE Crash
  BY <1>1, RestType, Constants DEF BodyOK, Crash, BodyInv, NoJob, DocumentsOf, File
<1>2. CASE UNCHANGED vars
  BY <1>2, RestType DEF BodyOK, vars, thread, BodyInv, DocumentsOf, File
<1> QED
  BY <1>1, <1>2

LEMMA BodyInvariant == Spec => []BodyOK
<1>1. BodyOK /\ [Next]_vars => BodyOK'
  BY StepBody, CrashBody DEF Next
<1> QED
  BY <1>1, InitBody, PTL DEF Spec

\* Every variable keeps its type, whatever fails and however requests interleave.
THEOREM TypeCorrect == Spec => []TypeOK
BY BodyInvariant, PTL DEF BodyOK

-----------------------------------------------------------------------------
(* The inductive invariant, for requests that do not conflict.             *)

\* With more names to try than files, the search ends at a free one.
LEMMA SomeNameIsFree ==
    ASSUME TypeOK, Orderly, NEW r \in Requested,
           \A k \in 0 .. (Tries - 1) : Taken(Candidate[r][k])
    PROVE  ~Taken(Candidate[r][Tries])
<1> SUFFICES ASSUME Taken(Candidate[r][Tries]) PROVE FALSE
  OBVIOUS
<1> USE DbFilesAssumption
<1>1. \A k \in 0 .. Tries : \E f \in Files : rows[f].name = Candidate[r][k]
  <2> TAKE k \in 0 .. Tries
  <2>1. k \in 0 .. (Tries - 1) \/ k = Tries
    OBVIOUS
  <2> QED
    BY <2>1 DEF Taken
<1> DEFINE owner == [k \in 0 .. Tries |-> CHOOSE f \in Files : rows[f].name = Candidate[r][k]]
<1>2. \A k \in 0 .. Tries : owner[k] \in Files /\ rows[owner[k]].name = Candidate[r][k]
  BY <1>1
<1>3. owner \in [0 .. Tries -> Files]
  BY <1>2
<1> HIDE DEF owner
<1>4. IsFiniteSet(0 .. Tries) /\ Cardinality(0 .. Tries) = Tries + 1
  BY FS_Interval
<1>5. Cardinality(Files) \in Nat /\ Cardinality(Files) < Tries + 1
  BY FS_CardinalityType DEF Orderly
<1>6. PICK j, k \in 0 .. Tries : j # k /\ owner[j] = owner[k]
  BY <1>3, <1>4, <1>5, FS_PigeonHole
<1>7. Candidate[r][j] = Candidate[r][k]
  BY <1>2, <1>6
<1> QED
  BY <1>6, <1>7

Inv == BodyOK /\ StoreInv

-----------------------------------------------------------------------------
(* What a thread at work may count on of the others.                       *)

LEMMA OthersKeep ==
    ASSUME TypeOK, NEW c \in Clients, Step(c), NEW d \in Clients, d # c
    PROVE  /\ pc'[d] = pc[d] /\ job'[d] = job[d] /\ seen'[d] = seen[d]
           /\ tries'[d] = tries[d] /\ answer'[d] = answer[d]
BY DEF TypeOK, Step, Arrive, Load, Receive, Write, UpdateRow, Suggest, Requery,
   RenameRow, Move, DeleteRow, Unlink, Deliver, Goto, Reply, Disposed

\* A request keeps its kind and its file until it is answered.
LEMMA OwnKeeps ==
    ASSUME TypeOK, NEW c \in Clients, Step(c), ~Arrive(c)
    PROVE  /\ pc[c] # "idle"
           /\ pc'[c] # "idle" => job'[c].op = job[c].op /\ job'[c].file = job[c].file
<1>1. CASE Receive(c)
  BY <1>1 DEF Receive, TypeOK, Job
<1>2. CASE Deliver(c)
  BY <1>2 DEF Deliver, TypeOK
<1>3. CASE ~Receive(c) /\ ~Deliver(c)
  BY <1>3 DEF Step, Load, Write, UpdateRow, Suggest, Requery, RenameRow, Move,
     DeleteRow, Unlink
<1> QED
  BY <1>1, <1>2, <1>3

LEMMA ConflictIsMutual ==
    ASSUME NEW j, NEW k, Conflict(j, k)
    PROVE  Conflict(k, j)
BY DEF Conflict

LEMMA ApartNext ==
    ASSUME TypeOK, Orderly, Apart, NEW c \in Clients, Step(c)
    PROVE  Apart'
<1>1. ASSUME NEW d \in Clients, d # c, InFlight(c)', InFlight(d)'
      PROVE  ~Conflict(job'[c], job'[d])
  <2>1. pc[d] # "idle" /\ job'[d] = job[d]
    BY <1>1, OthersKeep DEF InFlight
  <2>2. CASE Arrive(c)
    <3>1. PICK j : job' = [job EXCEPT ![c] = j] /\ ~Conflict(j, job[d])
      BY <2>1, <2>2 DEF Arrive, Orderly
    <3> QED
      BY <2>1, <3>1 DEF TypeOK
  <2>3. CASE ~Arrive(c)
    <3>1. /\ pc[c] # "idle"
          /\ job'[c].op = job[c].op /\ job'[c].file = job[c].file
      BY <1>1, <2>3, OwnKeeps DEF InFlight
    <3>2. ~Conflict(job[c], job[d])
      BY <1>1, <2>1, <3>1 DEF Apart, InFlight
    <3> QED
      BY <2>1, <3>1, <3>2 DEF Conflict
  <2> QED
    BY <2>2, <2>3
<1>2. ASSUME NEW d \in Clients, NEW e \in Clients, InFlight(d)', InFlight(e)',
             Conflict(job'[d], job'[e])
      PROVE  d = e
  <2>1. CASE d = c
    BY <1>1, <1>2, <2>1
  <2>2. CASE e = c
    BY <1>1, <1>2, <2>2, ConflictIsMutual
  <2>3. CASE d # c /\ e # c
    BY <1>2, <2>3, OthersKeep DEF Apart, InFlight
  <2> QED
    BY <2>1, <2>2, <2>3
<1> QED
  BY <1>2 DEF Apart

\* At a file somebody changes nobody else is at work.
LEMMA ChangesAlone ==
    ASSUME BodyOK, Apart, NEW c \in Clients, NEW d \in Clients, c # d,
           pc[c] \notin {"idle", "load", "reply"}, pc[d] # "idle"
    PROVE  File(c) # File(d)
<1>1. job[c].op \in {"PutFile", "RenameFile", "DeleteFile"}
  <2>1. pc[c] \in {"receive", "write", "row", "suggest", "requery", "rename", "move",
                   "delete", "unlink"}
    BY DEF BodyOK, TypeOK, Label
  <2> QED
    BY <2>1, PhaseOf
<1>2. ~Conflict(job[c], job[d])
  BY DEF Apart, InFlight
<1>3. {job[c].op, job[d].op} # {"GetFile"}
  BY <1>1
<1> QED
  BY <1>2, <1>3 DEF Conflict, File

\* Nor, while names change, at another change of names.
LEMMA NamesAlone ==
    ASSUME BodyOK, Apart, NEW c \in Clients, NEW d \in Clients, c # d, pc[c] # "idle"
    PROVE  /\ job[c].op = "RenameFile" =>
                 pc[d] \in {"idle", "load", "receive", "write", "row", "reply"}
           /\ job[c].op \in {"RenameFile", "DeleteFile"} =>
                 pc[d] = "idle" \/ job[d].op # "RenameFile"
<1>1. pc[d] # "idle" => ~Conflict(job[c], job[d])
  BY DEF Apart, InFlight
<1>2. /\ pc[d] # "idle" /\ job[c].op = "RenameFile" =>
            job[d].op \notin {"RenameFile", "DeleteFile"}
      /\ pc[d] # "idle" /\ job[c].op = "DeleteFile" => job[d].op # "RenameFile"
  BY <1>1 DEF Conflict
<1>3. pc[d] \in Label
  BY DEF BodyOK, TypeOK
<1> QED
  BY <1>2, <1>3, PhaseOf DEF Label

\* A file at work on which no save or rename is half done is what its row says.
LEMMA SettledHere ==
    ASSUME Inv, NEW c \in Clients, pc[c] # "idle", File(c) \in Files
    PROVE  /\ rows[File(c)].data \in DocumentsOf(File(c))
           /\ /\ rows[File(c)].active /\ File(c) \notin torn
              /\ pc[c] \notin {"row", "move"}
              => disk[rows[File(c)].name] = rows[File(c)].data
<1>1. ASSUME NEW d \in Clients, pc[d] \in {"row", "move"}, pc[c] \notin {"row", "move"}
      PROVE  File(d) # File(c)
  BY <1>1, ChangesAlone DEF Inv, StoreInv
<1> QED
  BY <1>1 DEF Inv, StoreInv, Settled

\* A step of c leaves the files it is not about as they are.
LEMMA SettledElsewhere ==
    ASSUME Inv, NEW c \in Clients, Step(c), File(c)' = File(c),
           NEW g \in Files, g # File(c), rows'[g] = rows[g], g \in torn' <=> g \in torn,
           rows[g].active => disk'[rows[g].name] = disk[rows[g].name]
    PROVE  Settled(g)'
<1>1. ASSUME \A d \in Clients : pc'[d] \in {"row", "move"} => File(d)' # g
      PROVE  \A d \in Clients : pc[d] \in {"row", "move"} => File(d) # g
  BY <1>1, OthersKeep DEF File, Inv, BodyOK
<1>2. Settled(g)
  BY DEF Inv, StoreInv
<1> QED
  BY <1>1, <1>2 DEF Settled, DocumentsOf

\* What a step must leave alone for what d has read and done to hold good.
LEMMA Undisturbed ==
    ASSUME Inv, NEW c \in Clients, Step(c), NEW d \in Clients, d # c,
           rows'[File(d)] = rows[File(d)],
           File(d) \in torn => File(d) \in torn',
           pc[d] \in {"row", "move"} => disk'[seen[d].name] = disk[seen[d].name],
           job[d].op = "RenameFile" => \A n \in Names : Taken(n)' <=> Taken(n),
           pc[d] = "unlink" => \A n \in Names : Taken(n)' => Taken(n)
    PROVE  ThreadInv(d)'
<1>1. ThreadInv(d) /\ TypeOK /\ BodyOK
  BY DEF Inv, StoreInv, BodyOK
<1>2. /\ pc'[d] = pc[d] /\ job'[d] = job[d] /\ seen'[d] = seen[d] /\ tries'[d] = tries[d]
      /\ File(d)' = File(d) /\ Name(d)' = Name(d)
  BY <1>1, OthersKeep DEF File, Name
<1>3. /\ seen[d].name \in Names /\ Name(d) \in Names /\ job[d].asked \in Requested
      /\ tries[d] \in 0 .. Tries
  BY <1>1, BodyTypes DEF TypeOK, Job
<1>4. \A k \in 0 .. (tries[d] - 1) : Candidate[job[d].asked][k] \in Names
  BY <1>3, Constants, DbFilesAssumption
<1>5. pc[d] \in {"suggest", "rename", "move"} => job[d].op = "RenameFile"
  BY <1>1, PhaseOf
<1>6. PICK n \in Names, m \in Names, N \in [0 .. (tries[d] - 1) -> Names] :
         /\ n = Name(d) /\ m = seen[d].name
         /\ N = [k \in 0 .. (tries[d] - 1) |-> Candidate[job[d].asked][k]]
  BY <1>3, <1>4
<1>7. /\ pc[d] = "suggest" => \A k \in 0 .. (tries[d] - 1) : Taken(N[k])
      /\ pc[d] \in {"requery", "rename"} /\ job[d].op = "RenameFile" => ~Taken(n)
      /\ pc[d] \in {"move", "unlink"} => ~Taken(m)
  BY <1>1, <1>6 DEF ThreadInv
<1>8. /\ pc[d] = "suggest" => \A k \in 0 .. (tries[d] - 1) : Taken(N[k])'
      /\ pc[d] \in {"requery", "rename"} /\ job[d].op = "RenameFile" => ~Taken(n)'
      /\ pc[d] \in {"move", "unlink"} => ~Taken(m)'
  BY <1>5, <1>6, <1>7
<1>9. /\ pc'[d] = "suggest" =>
            \A k \in 0 .. (tries'[d] - 1) : Taken(Candidate[job[d].asked][k])'
      /\ pc'[d] \in {"requery", "rename"} /\ job'[d].op = "RenameFile" => ~Taken(Name(d))'
      /\ pc'[d] \in {"move", "unlink"} => ~Taken(seen[d].name)'
  BY <1>2, <1>6, <1>8 DEF Taken
<1> QED
  BY <1>1, <1>2, <1>9 DEF ThreadInv

\* Saving writes under the name of c's own row, and leaves its name.
LEMMA PutDisturbsNone ==
    ASSUME Inv, BodyOK', NEW c \in Clients, Write(c) \/ UpdateRow(c),
           NEW d \in Clients, d # c, pc[d] # "idle"
    PROVE  ThreadInv(d)'
<1> DEFINE f == File(c)
<1>1. Step(c) /\ BodyOK /\ TypeOK /\ Apart /\ UniqueNames /\ ThreadInv(c) /\ ThreadInv(d)
  BY DEF Step, Inv, BodyOK, StoreInv
<1>2. /\ f \in Files /\ rows[f] = seen[c] /\ seen[c].active
      /\ seen[c].name \in Names /\ seen[d].name \in Names /\ File(d) \in Files
  BY <1>1, BodyTypes DEF Write, UpdateRow, ThreadInv
<1>3. File(d) # f
  BY <1>1, ChangesAlone DEF Write, UpdateRow
<1>4. CASE Write(c)
  <2>1. pc[d] \in {"row", "move"} => seen[d].name # seen[c].name
    BY <1>1, <1>2, <1>3 DEF ThreadInv, UniqueNames, Taken
  <2>2. rows' = rows /\ (torn' = torn \/ torn' = torn \cup {f})
    BY <1>4 DEF Write
  <2>3. pc[d] \in {"row", "move"} => disk'[seen[d].name] = disk[seen[d].name]
    BY <1>1, <1>2, <1>4, <2>1 DEF Write, TypeOK
  <2>4. \A n \in Names : Taken(n)' <=> Taken(n)
    BY <2>2 DEF Taken
  <2> QED
    BY <1>1, <2>2, <2>3, <2>4, Undisturbed
<1>5. CASE UpdateRow(c)
  <2>1. /\ \A g \in Files : g # f => rows'[g] = rows[g]
        /\ rows'[f].name = rows[f].name /\ rows'[f].active = rows[f].active
        /\ disk' = disk /\ torn \ {f} \subseteq torn'
    BY <1>1, <1>2, <1>5 DEF UpdateRow, SavedRow, TypeOK, Row
  <2>2. \A g \in Files : rows'[g].name = rows[g].name /\ rows'[g].active = rows[g].active
    BY <2>1
  <2>3. \A n \in Names : Taken(n)' <=> Taken(n)
    BY <2>2 DEF Taken
  <2> QED
    BY <1>1, <1>2, <1>3, <2>1, <2>3, Undisturbed
<1> QED
  BY <1>4, <1>5

\* A rename meets nobody who depends on which names are taken, and moves content
\* between a name that is in use nowhere and one that only its own row uses.
LEMMA RenameDisturbsNone ==
    ASSUME Inv, BodyOK', NEW c \in Clients, RenameRow(c) \/ Move(c),
           NEW d \in Clients, d # c, pc[d] # "idle"
    PROVE  ThreadInv(d)'
<1> DEFINE f == File(c)
<1>1. Step(c) /\ BodyOK /\ TypeOK /\ Apart /\ UniqueNames /\ ThreadInv(c) /\ ThreadInv(d)
  BY DEF Step, Inv, BodyOK, StoreInv
<1>2. /\ f \in Files /\ File(d) \in Files /\ Name(c) \in Names
      /\ seen[c] \in Row /\ seen[c].name \in Names /\ seen[d].name \in Names
  BY <1>1, BodyTypes DEF TypeOK
<1>3. File(d) # f
  BY <1>1, ChangesAlone DEF RenameRow, Move
<1>4. /\ pc[d] \in {"load", "receive", "write", "row", "reply"}
      /\ job[d].op # "RenameFile"
  <2>1. job[c].op = "RenameFile" /\ pc[c] # "idle"
    BY <1>1, PhaseOf DEF RenameRow, Move
  <2> QED
    BY <1>1, <2>1, NamesAlone
<1>5. CASE RenameRow(c)
  <2>1. /\ \A g \in Files : g # f => rows'[g] = rows[g]
        /\ disk' = disk /\ torn' = torn
    BY <1>1, <1>5 DEF RenameRow, TypeOK
  <2> QED
    BY <1>1, <1>2, <1>3, <1>4, <2>1, Undisturbed
<1>6. CASE Move(c)
  <2>1. /\ rows' = rows /\ (torn' = torn \/ torn' = torn \cup {f})
        /\ rows[f].name = Name(c) /\ rows[f].active /\ ~Taken(seen[c].name)
    BY <1>1, <1>2, <1>6 DEF Move, ThreadInv, Row
  <2>2. pc[d] = "row" => seen[d].name # seen[c].name /\ seen[d].name # Name(c)
    BY <1>1, <1>2, <1>3, <2>1 DEF ThreadInv, Taken, UniqueNames
  <2>3. pc[d] = "row" => disk'[seen[d].name] = disk[seen[d].name]
    BY <1>1, <1>2, <1>6, <2>2 DEF Move, Moved, TypeOK
  <2> QED
    BY <1>1, <1>4, <2>1, <2>3, Undisturbed
<1> QED
  BY <1>5, <1>6

\* A delete meets other deletes, to which a name that becomes free is welcome.
LEMMA DeleteDisturbsNone ==
    ASSUME Inv, BodyOK', NEW c \in Clients, DeleteRow(c) \/ Unlink(c),
           NEW d \in Clients, d # c, pc[d] # "idle"
    PROVE  ThreadInv(d)'
<1> DEFINE f == File(c)
<1>1. /\ Step(c) /\ BodyOK /\ TypeOK /\ Apart /\ UniqueNames /\ ThreadInv(c) /\ ThreadInv(d)
      /\ torn' = torn
  BY DEF Step, Inv, BodyOK, StoreInv, DeleteRow, Unlink
<1>2. /\ f \in Files /\ File(d) \in Files
      /\ seen[c].name \in Names /\ seen[d].name \in Names
  BY <1>1, BodyTypes
<1>3. File(d) # f
  BY <1>1, ChangesAlone DEF DeleteRow, Unlink
<1>4. job[d].op # "RenameFile" /\ pc[d] # "move"
  <2>1. job[c].op = "DeleteFile" /\ pc[c] # "idle"
    BY <1>1, PhaseOf DEF DeleteRow, Unlink
  <2> QED
    BY <1>1, <2>1, NamesAlone, PhaseOf
<1>5. CASE DeleteRow(c)
  <2>1. /\ \A g \in Files : g # f => rows'[g] = rows[g]
        /\ rows'[f] = rows[f] \/ ~rows'[f].active
        /\ disk' = disk
    BY <1>1, <1>2, <1>5 DEF DeleteRow, TypeOK, Row
  <2>2. \A n \in Names : Taken(n)' => Taken(n)
    BY <2>1 DEF Taken
  <2> QED
    BY <1>1, <1>2, <1>3, <1>4, <2>1, <2>2, Undisturbed
<1>6. CASE Unlink(c)
  <2>1. rows' = rows /\ ~Taken(seen[c].name)
    BY <1>1, <1>6 DEF Unlink, ThreadInv
  <2>2. pc[d] = "row" => seen[d].name # seen[c].name
    BY <1>1, <1>2, <2>1 DEF ThreadInv, Taken
  <2>3. pc[d] = "row" => disk'[seen[d].name] = disk[seen[d].name]
    BY <1>1, <1>2, <1>6, <2>2 DEF Unlink, TypeOK
  <2>4. \A n \in Names : Taken(n)' <=> Taken(n)
    BY <2>1 DEF Taken
  <2> QED
    BY <1>1, <1>4, <2>1, <2>3, <2>4, Undisturbed
<1> QED
  BY <1>5, <1>6

LEMMA OthersUndisturbed ==
    ASSUME Inv, BodyOK', NEW c \in Clients, Step(c), NEW d \in Clients, d # c
    PROVE  ThreadInv(d)'
<1>1. TypeOK /\ pc'[d] = pc[d]
  BY OthersKeep DEF Inv, BodyOK
<1>2. CASE pc[d] = "idle"
  BY <1>1, <1>2 DEF ThreadInv
<1>3. CASE Arrive(c) \/ Load(c) \/ Receive(c) \/ Suggest(c) \/ Requery(c) \/ Deliver(c)
  <2>1. UNCHANGED <<rows, disk, torn>>
    BY <1>3 DEF Arrive, Load, Receive, Suggest, Requery, Deliver
  <2>2. \A n \in Names : Taken(n)' <=> Taken(n)
    BY <2>1 DEF Taken
  <2> QED
    BY <2>1, <2>2, Undisturbed
<1> QED
  BY <1>2, <1>3, PutDisturbsNone, RenameDisturbsNone, DeleteDisturbsNone DEF Step

\* It is enough to look at the thread that moved.
LEMMA OneThread ==
    ASSUME Inv, Orderly, NEW c \in Clients, Step(c),
           UniqueNames', \A f \in Files : Settled(f)', ThreadInv(c)', BodyOK'
    PROVE  Inv'
<1>1. \A d \in Clients : ThreadInv(d)'
  BY OthersUndisturbed
<1>2. Apart'
  BY ApartNext DEF Inv, BodyOK, StoreInv
<1> QED
  BY <1>1, <1>2 DEF Inv, StoreInv, BodyOK

-----------------------------------------------------------------------------
(* Every step keeps the invariant.                                         *)

\* Steps that write neither to the table nor to the disk.
LEMMA ReadingInv ==
    ASSUME Inv, Orderly, BodyOK', NEW c \in Clients,
           \/ Arrive(c) \/ Load(c) \/ Receive(c) \/ Suggest(c) \/ Requery(c) \/ Deliver(c)
    PROVE  Inv'
<1>0. Step(c) /\ TypeOK /\ BodyOK
  BY DEF Step, Inv, BodyOK
<1>1. UNCHANGED <<rows, disk, torn>>
  BY DEF Arrive, Load, Receive, Suggest, Requery, Deliver
<1>2. pc[c] \notin {"row", "move"}
  BY DEF Arrive, Load, Receive, Suggest, Requery, Deliver
<1>3. UniqueNames' /\ \A f \in Files : Settled(f)'
  <2>1. UniqueNames'
    BY <1>1 DEF UniqueNames, Inv, StoreInv
  <2>2. ASSUME NEW f \in Files, \A d \in Clients : pc'[d] \in {"row", "move"} => File(d)' # f
        PROVE  \A d \in Clients : pc[d] \in {"row", "move"} => File(d) # f
    BY <1>0, <1>2, <2>2, OthersKeep DEF File
  <2> QED
    BY <1>1, <2>1, <2>2 DEF Settled, DocumentsOf, Inv, StoreInv
<1>4. ThreadInv(c)'
  <2>1. CASE Arrive(c)
    <3>1. PICK j \in Jobs(requests + 1) :
             /\ job' = [job EXCEPT ![c] = j]
             /\ seen' = [seen EXCEPT ![c] = rows[j.file]]
             /\ IF ~Found(j.file) THEN Reply(c, "notFound", Empty)
                ELSE IF Refused(j, rows[j.file]) THEN Reply(c, "conflict", Empty)
                ELSE Goto(c, First[j.op])
      BY <2>1 DEF Arrive
    <3>2. requests + 1 \in 0 .. MaxRequests
      BY <2>1, DbFilesAssumption, <1>0 DEF Arrive, TypeOK
    <3>3. j \in Job
      BY <3>2, JobTypes
    <3>4. j.op \in Operations /\ j.file \in Files
      BY <3>3 DEF Job
    <3>5. job'[c] = j /\ seen'[c] = rows[j.file] /\ File(c)' = j.file
      BY <3>1, <1>0 DEF TypeOK, File
    <3>6. tries'[c] = 0
      BY <2>1, <1>0 DEF Arrive, TypeOK
    <3>7. CASE pc'[c] = "reply"
      BY <3>7 DEF ThreadInv
    <3>8. CASE /\ Found(j.file) /\ ~Refused(j, rows[j.file]) /\ pc'[c] = First[j.op]
      <4>1. rows'[File(c)'] = seen'[c] /\ seen'[c].active
        BY <3>5, <3>8, <1>1 DEF Found
      <4>2. pc'[c] \in {"load", "receive", "suggest", "requery"}
        BY <3>4, <3>8 DEF First, Operations
      <4>3. pc'[c] = "requery" => job'[c].op = "DeleteFile"
        BY <3>4, <3>5, <3>8 DEF First, Operations
      <4>4. pc'[c] = "receive" /\ ~job'[c].locked => seen'[c].data = Empty
        BY <3>4, <3>5, <3>8 DEF First, Operations, Refused
      <4>5. 0 .. (tries'[c] - 1) = {}
        BY <3>6
      <4> QED
        BY <4>1, <4>2, <4>3, <4>4, <4>5 DEF ThreadInv, File
    <3> QED
      BY <3>1, <3>7, <3>8, <1>0 DEF Reply, Goto, TypeOK
  <2>2. CASE Load(c)
    BY <2>2, <1>0 DEF Load, Reply, TypeOK, ThreadInv
  <2>3. CASE Receive(c)
    <3>1. /\ pc[c] = "receive" /\ pc'[c] \in {"write", "reply"}
      BY <2>3, <1>0 DEF Receive, Goto, Reply, Disposed, TypeOK
    <3>2. job'[c].locked = job[c].locked /\ job'[c].file = job[c].file
      BY <2>3, <1>0 DEF Receive, TypeOK, Job
    <3>3. UNCHANGED <<seen, tries>>
      BY <2>3 DEF Receive
    <3>4. ThreadInv(c)
      BY DEF Inv, StoreInv
    <3> QED
      BY <3>1, <3>2, <3>3, <3>4, <1>1 DEF ThreadInv, File
  <2>4. CASE Suggest(c)
    <3>1. /\ tries[c] \in 0 .. Tries /\ Tries \in Nat /\ job[c].asked \in Requested
          /\ pc[c] = "suggest" /\ UNCHANGED <<job, seen>>
      BY <2>4, <1>0, DbFilesAssumption DEF Suggest, TypeOK, Job
    <3>2. /\ rows[File(c)] = seen[c] /\ seen[c].active
          /\ \A k \in 0 .. (tries[c] - 1) : Taken(Candidate[job[c].asked][k])
      BY <3>1 DEF Inv, StoreInv, ThreadInv
    <3>3. CASE Taken(Name(c)) /\ tries[c] < Tries
      <4>1. tries'[c] = tries[c] + 1 /\ pc'[c] = "suggest"
        BY <2>4, <3>3, <1>0 DEF Suggest, Goto, TypeOK, NextNumber
      <4>2. \A k \in 0 .. (tries'[c] - 1) : k \in 0 .. (tries[c] - 1) \/ k = tries[c]
        BY <4>1, <3>1
      <4>3. \A k \in 0 .. (tries'[c] - 1) : Taken(Candidate[job[c].asked][k])'
        BY <4>2, <3>1, <3>2, <3>3, <1>1 DEF Taken, Name
      <4> QED
        BY <4>1, <4>3, <3>1, <3>2, <1>1 DEF ThreadInv, File
    <3>4. CASE ~(Taken(Name(c)) /\ tries[c] < Tries)
      <4>1. tries' = tries /\ pc'[c] = "requery"
        BY <2>4, <3>4, <1>0 DEF Suggest, Goto, TypeOK
      <4>2. ~Taken(Name(c))
        <5>1. CASE tries[c] = Tries
          BY <5>1, <3>1, <3>2, <1>0, SomeNameIsFree DEF Name
        <5> QED
          BY <5>1, <3>1, <3>4
      <4>3. ~Taken(Name(c))'
        BY <4>1, <4>2, <3>1, <1>1 DEF Taken, Name
      <4> QED
        BY <4>1, <4>3, <3>1, <3>2, <1>1 DEF ThreadInv, File
    <3> QED
      BY <3>3, <3>4
  <2>5. CASE Requery(c)
    <3>1. /\ pc[c] = "requery" /\ pc'[c] \in {"rename", "delete", "reply"}
          /\ UNCHANGED <<job, seen, tries>>
      BY <2>5, <1>0 DEF Requery, Goto, Reply, TypeOK
    <3>2. ThreadInv(c)
      BY DEF Inv, StoreInv
    <3>3. ~Taken(Name(c)) => ~Taken(Name(c))'
      BY <3>1, <1>1 DEF Taken, Name
    <3> QED
      BY <3>1, <3>2, <3>3, <1>1 DEF ThreadInv, File
  <2>6. CASE Deliver(c)
    BY <2>6, <1>0 DEF Deliver, TypeOK, ThreadInv
  <2> QED
    BY <2>1, <2>2, <2>3, <2>4, <2>5, <2>6
<1> QED
  BY <1>0, <1>3, <1>4, OneThread

\* PutFile writes where only its own file's row points.
LEMMA PutInv ==
    ASSUME Inv, Orderly, BodyOK', NEW c \in Clients, Write(c) \/ UpdateRow(c)
    PROVE  Inv'
<1> DEFINE f == File(c)
<1>1. Step(c) /\ TypeOK /\ UniqueNames /\ ThreadInv(c) /\ BodyInv(c)
  BY DEF Step, Inv, BodyOK, StoreInv
<1>2. f \in Files /\ rows[f] = seen[c] /\ seen[c].active /\ seen[c] \in Row
  BY <1>1, BodyTypes DEF Write, UpdateRow, ThreadInv, TypeOK
<1>3. /\ job[c].body \in DocumentsOf(f)
      /\ UNCHANGED <<job, seen, tries>> /\ File(c)' = f
  BY <1>1 DEF BodyInv, Write, UpdateRow, File
<1>4. \A g \in Files : g # f /\ rows[g].active => rows[g].name # seen[c].name
  BY <1>1, <1>2 DEF UniqueNames
<1>5. CASE Write(c)
  <2>1. pc[c] = "write" /\ rows' = rows /\ pc'[c] \in {"row", "reply"}
    BY <1>1, <1>5 DEF Write, Goto, Reply, Disposed, TypeOK
  <2>2. /\ \A n \in Names : n # seen[c].name => disk'[n] = disk[n]
        /\ torn \subseteq torn'
        /\ f \notin torn' => disk' = disk \/ pc'[c] = "row"
        /\ pc'[c] = "row" => disk'[seen[c].name] = job[c].body
    BY <1>1, <1>2, <1>5 DEF Write, Goto, Reply, Disposed, TypeOK, Row
  <2>3. UniqueNames'
    BY <1>1, <2>1 DEF UniqueNames
  <2>4. ASSUME NEW g \in Files PROVE Settled(g)'
    <3>1. rows[g].name \in Names
      BY <1>1 DEF TypeOK, Row
    <3>2. g # f => (g \in torn' <=> g \in torn)
      BY <1>5 DEF Write
    <3>3. CASE g # f
      BY <3>1, <3>2, <3>3, <1>1, <1>3, <1>4, <2>1, <2>2, SettledElsewhere
    <3>4. CASE g = f
      <4>1. /\ rows[f].data \in DocumentsOf(f)
            /\ rows[f].active /\ f \notin torn => disk[rows[f].name] = rows[f].data
        BY <1>2, <2>1, SettledHere
      <4> QED
        BY <3>4, <4>1, <1>3, <2>1, <2>2 DEF Settled, DocumentsOf, File
    <3> QED
      BY <3>3, <3>4
  <2>5. ThreadInv(c)'
    BY <1>1, <1>2, <1>3, <2>1, <2>2 DEF ThreadInv, File
  <2> QED
    BY <1>1, <2>3, <2>4, <2>5, OneThread
<1>6. CASE UpdateRow(c)
  <2>1. pc[c] = "row" /\ disk' = disk /\ pc'[c] = "reply"
    BY <1>1, <1>6 DEF UpdateRow, Reply, Disposed, TypeOK
  <2>2. /\ \A g \in Files : g # f => rows'[g] = rows[g] /\ (g \in torn' <=> g \in torn)
        /\ rows'[f].name = seen[c].name /\ rows'[f].active
        /\ rows'[f].data \in {rows[f].data, job[c].body}
        /\ f \notin torn' => rows'[f].data = job[c].body
    BY <1>1, <1>2, <1>6 DEF UpdateRow, SavedRow, TypeOK, Row
  <2>3. UniqueNames'
    BY <1>1, <1>2, <2>2 DEF UniqueNames
  <2>4. ASSUME NEW g \in Files PROVE Settled(g)'
    <3>1. CASE g # f
      BY <3>1, <1>1, <1>3, <2>1, <2>2, SettledElsewhere
    <3>2. CASE g = f
      <4>1. disk[seen[c].name] = job[c].body
        BY <1>1, <2>1 DEF ThreadInv
      <4>2. rows[f].data \in DocumentsOf(f)
        BY <1>2 DEF Inv, StoreInv, Settled
      <4> QED
        BY <3>2, <4>1, <4>2, <1>3, <2>1, <2>2 DEF Settled, DocumentsOf
    <3> QED
      BY <3>1, <3>2
  <2>5. ThreadInv(c)'
    BY <2>1 DEF ThreadInv
  <2> QED
    BY <1>1, <2>3, <2>4, <2>5, OneThread
<1> QED
  BY <1>5, <1>6

\* RenameFile: the row takes a name no file has, then the content follows.
LEMMA RenameInv ==
    ASSUME Inv, Orderly, BodyOK', NEW c \in Clients, RenameRow(c) \/ Move(c)
    PROVE  Inv'
<1> DEFINE f == File(c)
<1>1. Step(c) /\ TypeOK /\ UniqueNames /\ ThreadInv(c)
  BY DEF Step, Inv, BodyOK, StoreInv
<1>2. f \in Files /\ seen[c] \in Row /\ seen[c].active /\ Name(c) \in Names
  BY <1>1, BodyTypes DEF RenameRow, Move, ThreadInv, TypeOK
<1>3. UNCHANGED <<job, seen, tries>> /\ File(c)' = f
  BY DEF RenameRow, Move, File
<1>4. CASE RenameRow(c)
  <2>1. /\ pc[c] = "rename" /\ disk' = disk /\ torn' = torn
        /\ rows[f] = seen[c] /\ ~Taken(Name(c))
    BY <1>1, <1>4, PhaseOf DEF RenameRow, ThreadInv, Inv
  <2>2. CASE rows' = rows /\ pc'[c] = "reply"
    <3>1. UniqueNames' /\ ThreadInv(c)'
      BY <1>1, <2>2 DEF UniqueNames, ThreadInv
    <3>2. ASSUME NEW g \in Files PROVE Settled(g)'
      <4>1. CASE g # f
        BY <4>1, <1>1, <1>3, <2>1, <2>2, SettledElsewhere
      <4>2. CASE g = f
        BY <4>2, <1>2, <2>1, <2>2, SettledHere DEF Settled, DocumentsOf
      <4> QED
        BY <4>1, <4>2
    <3> QED
      BY <1>1, <3>1, <3>2, OneThread
  <2>3. CASE rows' = [rows EXCEPT ![f] = RenamedRow(c)] /\ pc'[c] = "move"
    <3>1. /\ \A g \in Files : g # f => rows'[g] = rows[g]
          /\ rows'[f] = [seen[c] EXCEPT !.name = Name(c)]
          /\ rows'[f].name = Name(c) /\ rows'[f].active
          /\ rows'[f].data = seen[c].data
      BY <1>1, <1>2, <2>3 DEF RenamedRow, TypeOK, Row
    <3>2. \A g \in Files : rows[g].active => rows[g].name # Name(c)
      BY <2>1 DEF Taken
    <3>3. UniqueNames'
      <4>1. ASSUME NEW g \in Files, NEW h \in Files, rows'[g].active, rows'[h].active,
                   rows'[g].name = rows'[h].name, g # f
            PROVE  g = h
        <5>1. rows'[g] = rows[g] /\ (h # f => rows'[h] = rows[h])
          BY <3>1, <4>1
        <5>2. h # f
          BY <3>1, <3>2, <4>1, <5>1
        <5> QED
          BY <1>1, <4>1, <5>1, <5>2 DEF UniqueNames
      <4> QED
        BY <4>1 DEF UniqueNames
    <3>4. ASSUME NEW g \in Files PROVE Settled(g)'
      <4>1. File(c)' = f
        BY <1>3 DEF File
      <4>2. CASE g # f
        BY <4>1, <4>2, <1>1, <2>1, <3>1, SettledElsewhere
      <4>3. CASE g = f
        <5>1. rows'[g].data \in DocumentsOf(g)
          BY <4>3, <2>1, <3>1 DEF Inv, StoreInv, Settled
        <5> QED
          BY <4>1, <4>3, <2>3, <5>1 DEF Settled, DocumentsOf
      <4> QED
        BY <4>2, <4>3
    <3>5. ~Taken(seen[c].name)'
      <4>1. rows[f].name = seen[c].name /\ rows[f].active /\ seen'[c] = seen[c]
        BY <1>2, <1>3, <2>1
      <4>2. Name(c) # seen[c].name
        BY <1>2, <3>2, <4>1
      <4>3. ASSUME NEW g \in Files, rows'[g].active PROVE rows'[g].name # seen[c].name
        BY <1>1, <1>2, <3>1, <4>1, <4>2, <4>3 DEF UniqueNames
      <4> QED
        BY <4>1, <4>3 DEF Taken
    <3>6. f \notin torn => disk[seen[c].name] = seen[c].data
      BY <1>2, <2>1, SettledHere
    <3>7. Name(c)' = Name(c) /\ File(c)' = f
      BY <1>3 DEF Name, File
    <3>8. ThreadInv(c)'
      BY <1>2, <1>3, <2>1, <2>3, <3>1, <3>5, <3>6, <3>7 DEF ThreadInv
    <3> QED
      BY <1>1, <3>3, <3>4, <3>8, OneThread
  <2> QED
    BY <1>1, <1>4, <2>2, <2>3 DEF RenameRow, Goto, Reply, TypeOK
<1>5. CASE Move(c)
  <2>1. /\ pc[c] = "move" /\ pc'[c] = "reply" /\ rows' = rows
        /\ rows[f] = [seen[c] EXCEPT !.name = Name(c)]
        /\ ~Taken(seen[c].name)
        /\ f \notin torn => disk[seen[c].name] = seen[c].data
    BY <1>1, <1>5 DEF Move, ThreadInv, Reply, TypeOK
  <2>2. rows[f].name = Name(c) /\ rows[f].active /\ rows[f].data = seen[c].data
    BY <1>2, <2>1 DEF Row
  <2>3. /\ \A n \in Names : n # seen[c].name /\ n # Name(c) => disk'[n] = disk[n]
        /\ \A g \in Files : g # f => (g \in torn' <=> g \in torn)
        /\ f \notin torn' => f \notin torn /\ disk' = Moved(seen[c].name, Name(c))
    BY <1>1, <1>2, <1>5 DEF Move, Moved, TypeOK, Row
  <2>4. seen[c].name # Name(c)
    BY <1>2, <2>1, <2>2 DEF Taken
  <2>5. UniqueNames' /\ ThreadInv(c)'
    BY <1>1, <2>1 DEF UniqueNames, ThreadInv
  <2>6. ASSUME NEW g \in Files PROVE Settled(g)'
    <3>1. rows[g].data \in DocumentsOf(g) /\ rows[g].name \in Names
      BY <1>1 DEF Inv, StoreInv, Settled, TypeOK, Row
    <3>2. CASE g # f
      <4>1. rows[g].active => rows[g].name # seen[c].name /\ rows[g].name # Name(c)
        BY <3>2, <1>1, <1>2, <2>1, <2>2 DEF Taken, UniqueNames
      <4> QED
        BY <3>1, <3>2, <4>1, <1>1, <1>3, <2>1, <2>3, SettledElsewhere
    <3>3. CASE g = f
      <4>1. rows[f].data # Missing
        BY <3>1, <3>3, DbFilesAssumption DEF DocumentsOf
      <4>2. f \notin torn' => disk'[Name(c)] = seen[c].data
        BY <4>1, <1>1, <1>2, <2>1, <2>2, <2>3, <2>4 DEF Moved, TypeOK
      <4> QED
        BY <3>1, <3>3, <4>2, <2>1, <2>2 DEF Settled, DocumentsOf
    <3> QED
      BY <3>2, <3>3
  <2> QED
    BY <1>1, <2>5, <2>6, OneThread
<1> QED
  BY <1>4, <1>5

\* DeleteFile: what is removed from the disk no row points to any more.
LEMMA DeleteInv ==
    ASSUME Inv, Orderly, BodyOK', NEW c \in Clients, DeleteRow(c) \/ Unlink(c)
    PROVE  Inv'
<1> DEFINE f == File(c)
<1>1. Step(c) /\ TypeOK /\ UniqueNames /\ ThreadInv(c)
  BY DEF Step, Inv, BodyOK, StoreInv
<1>2. f \in Files /\ seen[c] \in Row
  BY <1>1, BodyTypes DEF TypeOK
<1>3. UNCHANGED <<job, seen, tries, torn>> /\ File(c)' = f
  BY DEF DeleteRow, Unlink, File
<1>4. CASE DeleteRow(c)
  <2>1. /\ pc[c] = "delete" /\ disk' = disk /\ rows[f] = seen[c] /\ seen[c].active
        /\ pc'[c] \in {"unlink", "reply"}
    BY <1>1, <1>4 DEF DeleteRow, ThreadInv, Goto, Reply, TypeOK
  <2>2. /\ \A g \in Files : g # f => rows'[g] = rows[g]
        /\ rows'[f].data = rows[f].data
        /\ rows'[f] = rows[f] \/ ~rows'[f].active
        /\ pc'[c] = "unlink" => ~rows'[f].active
    BY <1>1, <1>2, <1>4 DEF DeleteRow, TypeOK, Row, Goto, Reply
  <2>3. UniqueNames'
    BY <1>1, <2>2 DEF UniqueNames
  <2>4. ASSUME NEW g \in Files PROVE Settled(g)'
    <3>1. CASE g # f
      BY <3>1, <1>1, <1>3, <2>1, <2>2, SettledElsewhere
    <3>2. CASE g = f
      BY <3>2, <1>2, <1>3, <2>1, <2>2, SettledHere DEF Settled, DocumentsOf
    <3> QED
      BY <3>1, <3>2
  <2>5. pc'[c] = "unlink" => ~Taken(seen[c].name)'
    BY <1>1, <1>2, <1>3, <2>1, <2>2 DEF Taken, UniqueNames
  <2>6. ThreadInv(c)'
    BY <1>3, <2>1, <2>2, <2>5 DEF ThreadInv, File
  <2> QED
    BY <1>1, <2>3, <2>4, <2>6, OneThread
<1>5. CASE Unlink(c)
  <2>1. /\ pc[c] = "unlink" /\ rows' = rows /\ pc'[c] = "reply" /\ ~Taken(seen[c].name)
    BY <1>1, <1>5 DEF Unlink, ThreadInv, Reply, TypeOK
  <2>2. \A n \in Names : n # seen[c].name => disk'[n] = disk[n]
    BY <1>1, <1>5 DEF Unlink, TypeOK
  <2>3. UniqueNames' /\ ThreadInv(c)'
    BY <1>1, <2>1 DEF UniqueNames, ThreadInv
  <2>4. ASSUME NEW g \in Files PROVE Settled(g)'
    <3>1. rows[g].active => rows[g].name # seen[c].name
      BY <2>1 DEF Taken
    <3>2. rows[g].name \in Names
      BY <1>1 DEF TypeOK, Row
    <3>3. CASE g # f
      BY <3>1, <3>2, <3>3, <1>1, <1>3, <2>1, <2>2, SettledElsewhere
    <3>4. CASE g = f
      <4>1. ~rows[f].active
        BY <1>1, <2>1 DEF ThreadInv
      <4> QED
        BY <3>4, <4>1, <2>1 DEF Settled, DocumentsOf, Inv, StoreInv
    <3> QED
      BY <3>3, <3>4
  <2> QED
    BY <1>1, <2>3, <2>4, OneThread
<1> QED
  BY <1>4, <1>5

LEMMA InitInv == Init => StoreInv
<1> SUFFICES ASSUME Init PROVE StoreInv
  OBVIOUS
<1>1. PICK name \in [Files -> Names], blank \in SUBSET Files :
         /\ \A f, g \in Files : name[f] = name[g] => f = g
         /\ rows = [f \in Files |->
                      [name |-> name[f], active |-> TRUE,
                       data |-> IF f \in blank THEN Empty ELSE Original(f)]]
  BY DEF Init
<1>2. UniqueNames
  BY <1>1 DEF UniqueNames
<1>3. ASSUME NEW f \in Files PROVE Settled(f)
  <2>1. rows[f].data \in DocumentsOf(f)
    <3>1. Original(f) \in Document /\ Original(f).of = f
      BY DbFilesAssumption DEF Original, Document
    <3>2. rows[f].data \in {Empty, Original(f)}
      BY <1>1
    <3> QED
      BY <3>1, <3>2 DEF DocumentsOf
  <2>2. ASSUME f \notin torn PROVE disk[rows[f].name] = rows[f].data
    <3>1. rows[f].name \in Names
      BY <1>1
    <3>2. disk[rows[f].name] = rows[CHOOSE g \in Files : rows[g].name = rows[f].name].data
      BY <3>1, <2>2 DEF Init
    <3>3. (CHOOSE g \in Files : rows[g].name = rows[f].name) = f
      BY <1>1
    <3> QED
      BY <3>2, <3>3
  <2> QED
    BY <2>1, <2>2 DEF Settled
<1>4. \A c \in Clients : pc[c] = "idle"
  BY DEF Init
<1> QED
  BY <1>2, <1>3, <1>4, InitBody DEF StoreInv, BodyOK, ThreadInv, Apart, InFlight

LEMMA CrashInv ==
    ASSUME Inv, Crash \/ UNCHANGED vars
    PROVE  Inv'
<1>1. BodyOK'
  BY CrashBody DEF Inv
<1>2. CASE Crash
  <2>1. \A c \in Clients : pc'[c] = "idle"
    BY <1>2 DEF Crash
  <2>2. ASSUME NEW f \in Files PROVE Settled(f)'
    <3>1. f \notin torn' => f \notin torn /\ \A c \in Clients : pc[c] \in {"row", "move"} => File(c) # f
      BY <1>2 DEF Crash, HalfWay
    <3> QED
      BY <3>1, <1>2 DEF Crash, Settled, Inv, StoreInv, DocumentsOf
  <2> QED
    BY <1>1, <1>2, <2>1, <2>2
       DEF Inv, StoreInv, BodyOK, ThreadInv, Apart, InFlight, Crash, UniqueNames
<1>3. CASE UNCHANGED vars
  <2>1. \A f \in Files : Settled(f)'
    BY <1>3 DEF vars, thread, Inv, StoreInv, Settled, DocumentsOf, File
  <2>2. ASSUME NEW c \in Clients PROVE ThreadInv(c)'
    <3>1. ThreadInv(c)
      BY DEF Inv, StoreInv
    <3> QED
      BY <3>1, <1>3 DEF vars, thread, ThreadInv, File, Name, Taken
  <2> QED
    BY <1>1, <1>3, <2>1, <2>2
       DEF vars, thread, Inv, StoreInv, BodyOK, Apart, InFlight, UniqueNames
<1> QED
  BY <1>2, <1>3

LEMMA StepInv ==
    ASSUME Inv, Orderly, [Next]_vars
    PROVE  Inv'
<1>1. ASSUME NEW c \in Clients, Step(c) PROVE Inv'
  <2>1. BodyOK'
    BY <1>1, StepBody DEF Inv
  <2> QED
    BY <1>1, <2>1, ReadingInv, PutInv, RenameInv, DeleteInv DEF Step
<1> QED
  BY <1>1, CrashInv DEF Next

\* Rows and files agree: while no two requests in flight conflict, and with
\* fewer files than tries, whatever step fails.
THEOREM StoreInvariant == Orderly => (Spec => []StoreInv)
<1> SUFFICES ASSUME Orderly PROVE Spec => []StoreInv
  OBVIOUS
<1>1. Init => Inv
  BY InitInv, InitBody DEF Inv
<1>2. Inv /\ [Next]_vars => Inv'
  BY StepInv
<1>3. Inv => StoreInv
  BY DEF Inv
<1> QED
  BY <1>1, <1>2, <1>3, PTL DEF Spec
=============================================================================
