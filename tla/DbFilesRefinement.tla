------------------------- MODULE DbFilesRefinement --------------------------
(***************************************************************************)
(* DbFiles implements DocumentStore, for all values of its constants, as   *)
(* long as no two requests in flight conflict.                             *)
(***************************************************************************)
EXTENDS DbFilesProofs

Putters(f) == {c \in Clients : pc[c] = "row" /\ File(c) = f}

\* What the row of f describes or, in the middle of a PutFile, its body.
Stored(f) ==
    IF ~rows[f].active \/ f \in torn THEN Lost
    ELSE IF Putters(f) = {} THEN rows[f].data
    ELSE job[CHOOSE c \in Putters(f) : TRUE].body

\* There is at most one thread half-way through a save or a rename of a file.
LEMMA OnlyOneHalfWay ==
    ASSUME Inv, NEW c \in Clients, pc[c] # "idle",
           NEW d \in Clients, pc[d] \in {"row", "move"}, File(c) = File(d)
    PROVE  c = d
BY ChangesAlone DEF Inv, StoreInv

\* A read finds what the row describes or, in the middle of a PutFile, its body.
LEMMA HoldsStored ==
    Inv => \A f \in Files : Holds(f) = Stored(f)
<1> SUFFICES ASSUME NEW f \in Files, Inv, rows[f].active, f \notin torn
             PROVE  Holds(f) = IF Putters(f) = {} THEN rows[f].data
                               ELSE job[CHOOSE c \in Putters(f) : TRUE].body
  BY DEF Holds, Stored
<1> DEFINE movers == {c \in Clients : pc[c] = "move" /\ File(c) = f}
<1>1. CASE \E c \in Clients : pc[c] = "move" /\ File(c) = f
  <2>1. PICK c \in Clients : pc[c] = "move" /\ File(c) = f
    BY <1>1
  <2>2. movers = {c} /\ Putters(f) = {}
    BY <2>1, OnlyOneHalfWay DEF Putters
  <2>3. Holds(f) = disk[seen[c].name]
    BY <2>2 DEF Holds
  <2>4. disk[seen[c].name] = seen[c].data /\ rows[f] = [seen[c] EXCEPT !.name = Name(c)]
    BY <2>1 DEF Inv, StoreInv, ThreadInv
  <2>5. seen[c] \in Row
    BY DEF Inv, BodyOK, TypeOK
  <2> QED
    BY <2>2, <2>3, <2>4, <2>5 DEF Row
<1>2. CASE \E c \in Clients : pc[c] = "row" /\ File(c) = f
  <2>1. PICK c \in Clients : pc[c] = "row" /\ File(c) = f
    BY <1>2
  <2>2. movers = {} /\ Putters(f) = {c}
    BY <2>1, OnlyOneHalfWay DEF Putters
  <2>3. Holds(f) = disk[rows[f].name]
    BY <2>2 DEF Holds
  <2>4. disk[seen[c].name] = job[c].body /\ rows[f] = seen[c]
    BY <2>1 DEF Inv, StoreInv, ThreadInv
  <2> QED
    BY <2>2, <2>3, <2>4
<1>3. CASE \A c \in Clients : pc[c] \in {"row", "move"} => File(c) # f
  <2>1. movers = {} /\ Putters(f) = {}
    BY <1>3 DEF Putters
  <2>2. Holds(f) = disk[rows[f].name]
    BY <2>1 DEF Holds
  <2> QED
    BY <1>3, <2>1, <2>2 DEF Inv, StoreInv, Settled
<1> QED
  BY <1>1, <1>2, <1>3

LEMMA HoldsIs ==
    ASSUME Inv, NEW f \in Files
    PROVE  Holds(f) = Stored(f)
BY HoldsStored

LEMMA HoldsStoredNext ==
    Inv' => \A f \in Files : Holds(f)' = Stored(f)'
<1>1. (Inv => \A f \in Files : Holds(f) = Stored(f))'
  BY HoldsStored, PTL
<1> QED
  BY <1>1

LEMMA HoldsIsNext ==
    ASSUME Inv', NEW f \in Files
    PROVE  Holds(f)' = Stored(f)'
BY HoldsStoredNext

LEMMA OnlyPutter ==
    ASSUME Inv, NEW c \in Clients, Step(c), NEW f \in Files, f = File(c), File(c)' = f,
           pc[c] \notin {"idle", "load", "reply"}
    PROVE  /\ Putters(f) = IF pc[c] = "row" THEN {c} ELSE {}
           /\ Putters(f)' = IF pc'[c] = "row" THEN {c} ELSE {}
<1>1. \A d \in Clients : d # c => ~(pc[d] = "row" /\ File(d) = f)
  BY ChangesAlone DEF Inv, StoreInv
<1>2. \A d \in Clients : d # c => pc'[d] = pc[d] /\ File(d)' = File(d)
  BY OthersKeep DEF Inv, BodyOK, File
<1> QED
  BY <1>1, <1>2 DEF Putters

LEMMA SamePutters ==
    ASSUME Inv, NEW c \in Clients, Step(c), NEW g \in Files,
           pc[c] = "row" => File(c) # g, pc'[c] = "row" => File(c)' # g,
           rows'[g] = rows[g], g \in torn' <=> g \in torn
    PROVE  Stored(g)' = Stored(g)
<1>1. \A d \in Clients : d # c => pc'[d] = pc[d] /\ job'[d] = job[d] /\ File(d)' = File(d)
  BY OthersKeep DEF Inv, BodyOK, File
<1>2. Putters(g)' = Putters(g) /\ c \notin Putters(g)
  BY <1>1 DEF Putters
<1>3. ASSUME Putters(g) # {}
      PROVE  job'[CHOOSE d \in Putters(g) : TRUE] = job[CHOOSE d \in Putters(g) : TRUE]
  <2>1. PICK e \in Putters(g) : e = CHOOSE d \in Putters(g) : TRUE
    BY <1>3
  <2>2. e \in Clients /\ e # c
    BY <1>2, <2>1 DEF Putters
  <2> QED
    BY <1>1, <2>1, <2>2
<1> QED
  BY <1>2, <1>3 DEF Stored

\* A step of c changes nothing about files it is not about ...
LEMMA StoredElsewhere ==
    ASSUME Inv, NEW c \in Clients, Step(c), NEW g \in Files, g # File(c), File(c)' = File(c),
           rows'[g] = rows[g], g \in torn' <=> g \in torn
    PROVE  Stored(g)' = Stored(g)
BY SamePutters

\* ... and about none if it is no part of a save and writes no row.
LEMMA StoredUnmoved ==
    ASSUME Inv, NEW c \in Clients, Step(c), NEW g \in Files,
           rows' = rows, torn' = torn, pc[c] # "row", pc'[c] # "row"
    PROVE  Stored(g)' = Stored(g)
BY SamePutters

-----------------------------------------------------------------------------
(* The steps of the abstract store, from what happens to each file.        *)

LEMMA Stutters ==
    ASSUME \A g \in Files : Called(g)' = Called(g) /\ Holds(g)' = Holds(g)
    PROVE  UNCHANGED Store!vars
BY DEF Store!vars

LEMMA Loses ==
    ASSUME NEW F \in SUBSET Files,
           \A g \in Files : /\ Called(g)' = Called(g)
                            /\ Holds(g)' = IF g \in F THEN Lost ELSE Holds(g)
    PROVE  Store!Lose(F)
BY DEF Store!Lose

LEMMA LosesOne ==
    ASSUME NEW f \in Files, Holds(f)' = Lost,
           \A g \in Files : Called(g)' = Called(g) /\ (g # f => Holds(g)' = Holds(g))
    PROVE  Store!Lose({f})
BY Loses

LEMMA Puts ==
    ASSUME NEW f \in Files, Holds(f)' \in DocumentsOf(f), Called(f) # Gone,
           \A g \in Files : Called(g)' = Called(g) /\ (g # f => Holds(g)' = Holds(g))
    PROVE  Store!Put(f)
<1>1. [g \in Files |-> Holds(g)]' = [[g \in Files |-> Holds(g)] EXCEPT ![f] = Holds(f)']
  OBVIOUS
<1>2. UNCHANGED [g \in Files |-> Called(g)]
  OBVIOUS
<1> QED
  BY <1>1, <1>2 DEF Store!Put

LEMMA ReadingRefines ==
    ASSUME Inv, Inv', Orderly, NEW c \in Clients,
           \/ Arrive(c) \/ Load(c) \/ Receive(c) \/ Suggest(c) \/ Requery(c) \/ Deliver(c)
    PROVE  UNCHANGED Store!vars
<1>1. Step(c) /\ TypeOK /\ BodyOK'
  BY DEF Step, Inv, BodyOK
<1>2. UNCHANGED <<rows, torn>> /\ pc[c] # "row"
  BY DEF Arrive, Load, Receive, Suggest, Requery, Deliver
<1>3. pc'[c] # "row"
  <2>1. CASE Arrive(c)
    <3>1. PICK j \in Jobs(requests + 1) :
             \/ Reply(c, "notFound", Empty) \/ Reply(c, "conflict", Empty)
             \/ Goto(c, First[j.op])
      BY <2>1 DEF Arrive
    <3>2. requests + 1 \in 0 .. MaxRequests
      BY <2>1, <1>1, DbFilesAssumption DEF Arrive, TypeOK
    <3>3. j.op \in Operations
      BY <3>2, JobTypes DEF Job
    <3> QED
      BY <1>1, <3>1, <3>3 DEF Reply, Goto, First, Operations, TypeOK
  <2>2. CASE ~Arrive(c)
    BY <1>1, <2>2 DEF Load, Receive, Suggest, Requery, Deliver, Goto, Reply, Disposed, TypeOK
  <2> QED
    BY <2>1, <2>2
<1>4. ASSUME NEW g \in Files PROVE Stored(g)' = Stored(g)
  BY <1>1, <1>2, <1>3, StoredUnmoved
<1>5. \A g \in Files : Called(g)' = Called(g) /\ Holds(g)' = Holds(g)
  BY <1>2, <1>4, HoldsIs, HoldsIsNext DEF Called
<1> QED
  BY <1>5, Stutters

LEMMA PutRefines ==
    ASSUME Inv, Inv', Orderly, NEW c \in Clients, Write(c) \/ UpdateRow(c)
    PROVE  (\E f \in Files : Store!Put(f) \/ Store!Lose({f})) \/ UNCHANGED Store!vars
<1>1. Step(c) /\ TypeOK /\ ThreadInv(c) /\ BodyInv(c)
  BY DEF Step, Inv, BodyOK, StoreInv
<1>2. PICK f \in Files : f = File(c)
  BY <1>1, BodyTypes
<1>3. rows[f] = seen[c] /\ seen[c].active /\ seen[c] \in Row
  BY <1>1, <1>2 DEF Write, UpdateRow, ThreadInv, TypeOK
<1>4. job[c].body \in DocumentsOf(f) /\ job' = job /\ File(c)' = f
  BY <1>1, <1>2 DEF BodyInv, Write, UpdateRow, File
<1>5. Called(f) # Gone
  BY <1>3, DbFilesAssumption DEF Called, Row
<1>6. /\ \A g \in Files : Holds(g) = Stored(g) /\ Holds(g)' = Stored(g)'
      /\ Putters(f) = IF pc[c] = "row" THEN {c} ELSE {}
      /\ Putters(f)' = IF pc'[c] = "row" THEN {c} ELSE {}
  <2>1. pc[c] # "load" /\ pc[c] # "reply" /\ pc[c] # "idle"
    BY DEF Write, UpdateRow
  <2> QED
    BY <1>1, <1>2, <1>4, <2>1, HoldsIs, HoldsIsNext, OnlyPutter
<1>7. CASE Write(c)
  <2>1. pc[c] = "write" /\ rows' = rows
    BY <1>7 DEF Write
  <2>2. \/ pc'[c] = "row" /\ torn' = torn
        \/ pc'[c] = "reply" /\ torn' = torn \cup {f}
        \/ pc'[c] = "reply" /\ torn' = torn
    BY <1>1, <1>2, <1>7 DEF Write, Goto, Reply, Disposed, TypeOK
  <2>3. \A g \in Files : Called(g)' = Called(g) /\ (g # f => Holds(g)' = Holds(g))
    <3>1. ASSUME NEW g \in Files, g # f PROVE g \in torn' <=> g \in torn
      BY <2>2, <3>1
    <3>2. ASSUME NEW g \in Files, g # f PROVE Stored(g)' = Stored(g)
      BY <1>1, <1>2, <1>4, <2>1, <3>1, <3>2, StoredElsewhere
    <3> QED
      BY <1>6, <2>1, <3>2 DEF Called
  <2>4. CASE pc'[c] = "row" /\ f \notin torn'
    <3>1. Holds(f)' = job[c].body
      BY <1>3, <1>4, <1>6, <2>1, <2>4 DEF Stored
    <3> QED
      BY <1>4, <1>5, <2>3, <3>1, Puts
  <2>5. CASE f \in torn'
    BY <1>6, <2>3, <2>5, LosesOne DEF Stored
  <2>6. CASE pc'[c] # "row" /\ f \notin torn'
    <3>1. Holds(f)' = Holds(f)
      BY <1>6, <2>1, <2>2, <2>6 DEF Stored
    <3> QED
      BY <2>3, <3>1, Stutters
  <2> QED
    BY <2>4, <2>5, <2>6
<1>8. CASE UpdateRow(c)
  <2>1. pc'[c] # "row"
    BY <1>1, <1>8 DEF UpdateRow, Reply, Disposed, TypeOK
  <2>2. /\ \A g \in Files : g # f => rows'[g] = rows[g] /\ (g \in torn' <=> g \in torn)
        /\ rows'[f].name = seen[c].name /\ rows'[f].active
        /\ f \notin torn' => rows'[f].data = job[c].body
    BY <1>1, <1>2, <1>3, <1>8 DEF UpdateRow, SavedRow, TypeOK, Row
  <2>3. \A g \in Files : Called(g)' = Called(g) /\ (g # f => Holds(g)' = Holds(g))
    <3>1. ASSUME NEW g \in Files, g # f PROVE Stored(g)' = Stored(g)
      BY <1>1, <1>2, <1>4, <2>2, <3>1, StoredElsewhere
    <3> QED
      BY <1>3, <1>6, <2>2, <3>1 DEF Called
  <2>4. CASE f \notin torn'
    <3>1. Holds(f)' = job[c].body
      BY <1>6, <2>1, <2>2, <2>4 DEF Stored
    <3> QED
      BY <1>4, <1>5, <2>3, <3>1, Puts
  <2>5. CASE f \in torn'
    BY <1>6, <2>3, <2>5, LosesOne DEF Stored
  <2> QED
    BY <2>4, <2>5
<1> QED
  BY <1>7, <1>8

LEMMA RenameRefines ==
    ASSUME Inv, Inv', Orderly, NEW c \in Clients, RenameRow(c) \/ Move(c)
    PROVE  (\E f \in Files : Store!Rename(f) \/ Store!Lose({f})) \/ UNCHANGED Store!vars
<1>1. Step(c) /\ TypeOK /\ ThreadInv(c)
  BY DEF Step, Inv, BodyOK, StoreInv
<1>2. PICK f \in Files, n \in Names : f = File(c) /\ n = Name(c)
  BY <1>1, BodyTypes
<1>3. pc[c] # "row" /\ pc'[c] # "row" /\ seen[c] \in Row
  BY <1>1 DEF RenameRow, Move, Goto, Reply, TypeOK
<1>4. /\ \A g \in Files : Holds(g) = Stored(g) /\ Holds(g)' = Stored(g)'
      /\ Putters(f) = {} /\ Putters(f)' = {}
      /\ File(c)' = f
  <2>1. pc[c] \notin {"load", "reply", "idle"} /\ File(c)' = f
    BY <1>2 DEF RenameRow, Move, File
  <2>2. /\ Putters(f) = IF pc[c] = "row" THEN {c} ELSE {}
        /\ Putters(f)' = IF pc'[c] = "row" THEN {c} ELSE {}
    BY <1>1, <1>2, <2>1, OnlyPutter
  <2> QED
    BY <1>3, <2>1, <2>2, HoldsIs, HoldsIsNext
<1>5. CASE RenameRow(c)
  <2>1. rows[f] = seen[c] /\ seen[c].active /\ ~Taken(n) /\ torn' = torn
    BY <1>1, <1>2, <1>5, PhaseOf DEF RenameRow, ThreadInv, Inv
  <2>2. CASE rows' = rows
    <3>1. \A g \in Files : Called(g)' = Called(g) /\ Holds(g)' = Holds(g)
      <4>1. ASSUME NEW g \in Files PROVE Stored(g)' = Stored(g)
        BY <1>1, <1>3, <2>1, <2>2, StoredUnmoved, <1>4
      <4> QED
        BY <1>4, <2>2, <4>1 DEF Called
    <3> QED
      BY <3>1, Stutters
  <2>3. CASE rows' = [rows EXCEPT ![f] = RenamedRow(c)]
    <3>1. /\ \A g \in Files : g # f => rows'[g] = rows[g]
          /\ rows'[f].name = n /\ rows'[f].active
          /\ rows'[f].data = rows[f].data
      BY <1>1, <1>2, <1>3, <2>1, <2>3 DEF RenamedRow, TypeOK, Row
    <3>2. rows[f].active /\ rows'[f].active
      BY <2>1, <3>1
    <3>3. ASSUME NEW g \in Files PROVE Stored(g)' = Stored(g)
      <4>1. CASE g # f
        BY <1>1, <1>2, <1>4, <2>1, <3>1, <4>1, StoredElsewhere
      <4>2. CASE g = f
        BY <1>4, <2>1, <3>1, <3>2, <4>2 DEF Stored
      <4> QED
        BY <4>1, <4>2
    <3>4. \A g \in Files : Holds(g)' = Holds(g) /\ (g # f => Called(g)' = Called(g))
      BY <1>4, <3>1, <3>3 DEF Called
    <3>5. Called(f)' = n /\ Called(f) # Gone
      BY <1>3, <2>1, <3>1, DbFilesAssumption DEF Called, Row
    <3>6. \A g \in Files : Called(g) # n
      BY <1>2, <2>1, DbFilesAssumption DEF Called, Taken
    <3>7. [g \in Files |-> Called(g)]' = [[g \in Files |-> Called(g)] EXCEPT ![f] = n]
      BY <3>4, <3>5
    <3>8. UNCHANGED [g \in Files |-> Holds(g)]
      BY <3>4
    <3>9. Store!Free(n)
      BY <3>6 DEF Store!Free
    <3> QED
      BY <3>5, <3>7, <3>8, <3>9 DEF Store!Rename
  <2> QED
    BY <1>2, <1>5, <2>2, <2>3 DEF RenameRow
<1>6. CASE Move(c)
  <2>1. rows' = rows /\ (torn' = torn \/ torn' = torn \cup {f})
    BY <1>2, <1>6 DEF Move
  <2>2. \A g \in Files : Called(g)' = Called(g) /\ (g # f => Holds(g)' = Holds(g))
    <3>1. ASSUME NEW g \in Files, g # f PROVE Stored(g)' = Stored(g)
      <4>1. g \in torn' <=> g \in torn
        BY <2>1, <3>1
      <4> QED
        BY <1>1, <1>2, <1>4, <2>1, <3>1, <4>1, StoredElsewhere
    <3> QED
      BY <1>4, <2>1, <3>1 DEF Called
  <2>3. CASE f \in torn'
    BY <1>4, <2>2, <2>3, LosesOne DEF Stored
  <2>4. CASE f \notin torn'
    <3>1. Holds(f)' = Holds(f)
      BY <1>3, <1>4, <2>1, <2>4 DEF Stored
    <3> QED
      BY <2>2, <3>1, Stutters
  <2> QED
    BY <2>3, <2>4
<1> QED
  BY <1>5, <1>6

LEMMA DeleteRefines ==
    ASSUME Inv, Inv', Orderly, NEW c \in Clients, DeleteRow(c) \/ Unlink(c)
    PROVE  (\E f \in Files : Store!Delete(f)) \/ UNCHANGED Store!vars
<1>1. Step(c) /\ TypeOK /\ torn' = torn
  BY DEF Step, Inv, BodyOK, DeleteRow, Unlink
<1>2. PICK f \in Files : f = File(c)
  BY <1>1, BodyTypes
<1>3. pc[c] # "row" /\ pc'[c] # "row"
  BY <1>1 DEF DeleteRow, Unlink, Goto, Reply, TypeOK
<1>4. /\ \A g \in Files : Holds(g) = Stored(g) /\ Holds(g)' = Stored(g)'
      /\ File(c)' = f
  BY <1>2, HoldsIs, HoldsIsNext DEF DeleteRow, Unlink, File
<1>5. CASE rows' = rows
  <2>1. \A g \in Files : Called(g)' = Called(g) /\ Holds(g)' = Holds(g)
    <3>1. ASSUME NEW g \in Files PROVE Stored(g)' = Stored(g)
      BY <1>1, <1>3, <1>5, StoredUnmoved
    <3> QED
      BY <1>4, <1>5, <3>1 DEF Called
  <2> QED
    BY <2>1, Stutters
<1>6. CASE rows' = [rows EXCEPT ![f].active = FALSE]
  <2>1. ~rows'[f].active /\ \A g \in Files : g # f => rows'[g] = rows[g]
    BY <1>1, <1>6 DEF TypeOK, Row
  <2>2. /\ \A g \in Files : g # f => Called(g)' = Called(g) /\ Holds(g)' = Holds(g)
        /\ Called(f)' = Gone /\ Holds(f)' = Lost
    <3>1. ASSUME NEW g \in Files, g # f PROVE Stored(g)' = Stored(g)
      BY <1>1, <1>2, <1>4, <2>1, <3>1, StoredElsewhere
    <3>2. Stored(f)' = Lost /\ Called(f)' = Gone
      BY <2>1 DEF Stored, Called
    <3>3. \A g \in Files : g # f => Called(g)' = Called(g)
      BY <2>1 DEF Called
    <3> QED
      BY <1>4, <3>1, <3>2, <3>3
  <2>3. /\ [g \in Files |-> Called(g)]' = [[g \in Files |-> Called(g)] EXCEPT ![f] = Gone]
        /\ [g \in Files |-> Holds(g)]' = [[g \in Files |-> Holds(g)] EXCEPT ![f] = Lost]
    BY <2>2
  <2> QED
    BY <2>3 DEF Store!Delete
<1> QED
  BY <1>2, <1>5, <1>6 DEF DeleteRow, Unlink

\* A crash costs the files on which a save or a rename was half done.
LEMMA CrashRefines ==
    ASSUME Inv, Inv', Crash
    PROVE  \E F \in SUBSET Files : Store!Lose(F)
<1>1. TypeOK /\ rows' = rows /\ torn' = torn \cup HalfWay
  BY DEF Inv, BodyOK, Crash
<1>2. HalfWay \subseteq Files
  BY <1>1, BodyTypes DEF HalfWay
<1>3. ASSUME NEW g \in Files
      PROVE  Holds(g)' = IF g \in HalfWay THEN Lost ELSE Holds(g)
  <2>1. Holds(g) = Stored(g) /\ Holds(g)' = Stored(g)'
    BY HoldsIs, HoldsIsNext
  <2>2. Putters(g)' = {}
    BY DEF Crash, Putters
  <2>3. g \notin HalfWay => Putters(g) = {}
    BY DEF HalfWay, Putters
  <2> QED
    BY <1>1, <2>1, <2>2, <2>3 DEF Stored
<1> QED
  BY <1>1, <1>2, <1>3, Loses DEF Called

LEMMA NextRefines ==
    ASSUME Inv, Inv', Orderly, [Next]_vars
    PROVE  [Store!Next]_(Store!vars)
<1>1. CASE \E c \in Clients : Step(c)
  <2>1. PICK c \in Clients : Step(c)
    BY <1>1
  <2>2. (\E f \in Files : Store!Put(f) \/ Store!Rename(f) \/ Store!Delete(f) \/ Store!Lose({f}))
           \/ UNCHANGED Store!vars
    BY <2>1, ReadingRefines, PutRefines, RenameRefines, DeleteRefines DEF Step
  <2> QED
    BY <2>2 DEF Store!Next
<1>2. CASE Crash
  BY <1>2, CrashRefines DEF Store!Next
<1>3. CASE UNCHANGED vars
  <2>1. \A g \in Files : Called(g)' = Called(g) /\ Holds(g)' = Holds(g)
    BY <1>3 DEF vars, thread, Called, Holds, File
  <2> QED
    BY <2>1, Stutters
<1> QED
  BY <1>1, <1>2, <1>3 DEF Next

LEMMA InitRefines == Init => Store!Init
<1> SUFFICES ASSUME Init PROVE Store!Init
  OBVIOUS
<1>1. Inv /\ \A c \in Clients : pc[c] = "idle"
  BY InitInv, InitBody DEF Init, Inv
<1>2. \A f \in Files : rows[f].active
  BY DEF Init
<1>3. \A f \in Files : Called(f) = rows[f].name /\ rows[f].name \in Names
  BY <1>1, <1>2 DEF Called, Inv, BodyOK, TypeOK, Row
<1>4. \A f \in Files : Holds(f) \in DocumentsOf(f) \cup {Lost}
  <2> TAKE f \in Files
  <2>1. Settled(f)
    BY <1>1 DEF Inv, StoreInv
  <2>2. {c \in Clients : pc[c] = "move" /\ File(c) = f} = {}
    BY <1>1
  <2>3. Holds(f) = IF f \in torn THEN Lost ELSE disk[rows[f].name]
    BY <1>2, <2>2 DEF Holds
  <2> QED
    BY <1>1, <1>2, <2>1, <2>3 DEF Settled
<1>5. \A f, g \in Files : Called(f) = Called(g) => f = g
  BY <1>1, <1>2, <1>3 DEF Inv, StoreInv, UniqueNames
<1>6. \A f \in Files : Holds(f) \in (UNION {DocumentsOf(g) : g \in Files}) \cup {Lost}
  BY <1>4
<1>7. {[f \in Files |-> DocumentsOf(f)][g] : g \in Files} = {DocumentsOf(g) : g \in Files}
  OBVIOUS
<1> QED
  BY <1>3, <1>4, <1>5, <1>6, <1>7 DEF Store!Init

\* FileService implements DocumentStore, whatever step fails.
THEOREM StoreImplemented ==
    ASSUME Orderly
    PROVE  Spec => ImplementsStore
<1>1. Inv /\ [Next]_vars => Inv'
  BY StepInv
<1>2. Inv /\ Inv' /\ [Next]_vars => [Store!Next]_(Store!vars)
  BY NextRefines
<1>3. Init => Inv /\ Store!Init
  BY InitInv, InitBody, InitRefines DEF Inv
<1> QED
  BY <1>1, <1>2, <1>3, PTL DEF Spec, ImplementsStore, Store!Spec

\* While no two requests in flight conflict, what a reader is told of a file's version
\* and size fits what it is given, unless an operation on the file stopped half-way.
THEOREM ServedTruly ==
    ASSUME Orderly
    PROVE  Spec => []ServedAsDescribed
<1>1. Init => Inv /\ ServedAsDescribed
  BY InitInv, InitBody DEF Init, Inv, ServedAsDescribed
<1>2. Inv /\ ServedAsDescribed /\ [Next]_vars => Inv' /\ ServedAsDescribed'
  <2> SUFFICES ASSUME Inv, ServedAsDescribed, [Next]_vars PROVE ServedAsDescribed'
    BY StepInv
  <2>1. ASSUME NEW c \in Clients, Step(c) PROVE ServedAsDescribed'
    <3>1. TypeOK /\ BodyOK /\ Apart /\ ThreadInv(c) /\ BodyInv(c)
      BY DEF Inv, BodyOK, StoreInv
    <3>2. ASSUME NEW d \in Clients, d # c, pc'[d] = "reply", job'[d].op = "GetFile",
                 answer'[d].status = "ok", File(d)' \notin torn'
          PROVE  answer'[d].body = seen'[d].data
      <4>1. /\ pc[d] = "reply" /\ job[d] = job'[d] /\ answer[d] = answer'[d]
            /\ seen[d] = seen'[d]
        BY <2>1, <3>1, <3>2, OthersKeep
      <4>2. File(d) \notin torn
        <5>1. CASE UpdateRow(c)
          <6>1. File(d) # File(c)
            BY <3>1, <3>2, <4>1, <5>1, ChangesAlone DEF UpdateRow
          <6> QED
            BY <3>2, <4>1, <5>1, <6>1 DEF UpdateRow, File
        <5>2. CASE ~UpdateRow(c)
          <6>1. torn \subseteq torn'
            BY <2>1, <5>2 DEF Step, Arrive, Load, Receive, Write, Suggest, Requery,
               RenameRow, Move, DeleteRow, Unlink, Deliver
          <6> QED
            BY <3>2, <4>1, <6>1 DEF File
        <5> QED
          BY <5>1, <5>2
      <4> QED
        BY <3>2, <4>1, <4>2 DEF ServedAsDescribed
    <3>3. CASE Load(c)
      <4>1. /\ File(c) \in Files /\ rows[File(c)] = seen[c] /\ seen[c].active
            /\ UNCHANGED <<torn, job, seen>>
            /\ answer'[c].body = ReadAllBytes(seen[c].name)
        BY <3>1, <3>3, BodyTypes DEF Load, ThreadInv, Reply, TypeOK
      <4>2. File(c) \notin torn => disk[seen[c].name] = seen[c].data
        BY <3>3, <4>1, SettledHere DEF Load
      <4>3. seen[c].data # Missing
        <5>1. seen[c].data \in DocumentsOf(File(c))
          BY <3>3, <4>1, SettledHere DEF Load
        <5> QED
          BY <5>1, DbFilesAssumption DEF DocumentsOf
      <4> QED
        BY <3>2, <4>1, <4>2, <4>3 DEF ServedAsDescribed, ReadAllBytes, File
    <3>4. CASE ~Load(c)
      <4>1. pc'[c] = "reply" /\ job'[c].op = "GetFile" => answer'[c].status # "ok"
        <5>1. CASE Arrive(c)
          <6>1. PICK j \in Jobs(requests + 1) :
                   \/ Reply(c, "notFound", Empty) \/ Reply(c, "conflict", Empty)
                   \/ Goto(c, First[j.op])
            BY <5>1 DEF Arrive
          <6>2. requests + 1 \in 0 .. MaxRequests
            BY <5>1, <3>1, DbFilesAssumption DEF Arrive, TypeOK
          <6>3. First[j.op] # "reply"
            BY <6>2, JobTypes DEF Job, First, Operations
          <6> QED
            BY <3>1, <6>1, <6>3 DEF Reply, Goto, TypeOK
        <5>2. CASE Receive(c) \/ Write(c) \/ UpdateRow(c)
          <6>1. job[c].op = "PutFile" /\ job'[c].op = job[c].op
            BY <3>1, <5>2, PhaseOf DEF Receive, Write, UpdateRow, TypeOK, Job
          <6> QED
            BY <6>1
        <5>3. CASE Suggest(c) \/ Requery(c) \/ RenameRow(c) \/ Move(c) \/ DeleteRow(c) \/ Unlink(c)
          <6>1. job' = job /\ job[c].op # "GetFile"
            BY <3>1, <5>3, PhaseOf DEF Suggest, Requery, RenameRow, Move, DeleteRow, Unlink
          <6> QED
            BY <6>1
        <5>4. CASE Deliver(c)
          BY <3>1, <5>4 DEF Deliver, TypeOK
        <5> QED
          BY <2>1, <3>4, <5>1, <5>2, <5>3, <5>4 DEF Step
      <4> QED
        BY <3>2, <4>1 DEF ServedAsDescribed
    <3> QED
      BY <3>3, <3>4
  <2>2. CASE Crash
    BY <2>2 DEF Crash, ServedAsDescribed
  <2>3. CASE UNCHANGED vars
    BY <2>3 DEF vars, thread, ServedAsDescribed, File
  <2> QED
    BY <2>1, <2>2, <2>3 DEF Next
<1> QED
  BY <1>1, <1>2, PTL DEF Spec

\* While no two requests in flight conflict, a PutFile without a lock writes over
\* content that is empty, unless an operation on the file stopped half-way.
THEOREM EmptyFilesOnly ==
    ASSUME Orderly
    PROVE  Spec => []UnlockedPutFindsEmpty
<1>1. TypeOK /\ StoreInv => UnlockedPutFindsEmpty
  <2> SUFFICES ASSUME TypeOK, StoreInv, NEW c \in Clients,
                      pc[c] = "write", ~job[c].locked, File(c) \notin torn
               PROVE  disk[seen[c].name] = Empty
    BY DEF UnlockedPutFindsEmpty
  <2>1. /\ File(c) \in Files /\ rows[File(c)] = seen[c] /\ seen[c].active
        /\ seen[c].data = Empty
    BY BodyTypes DEF StoreInv, ThreadInv
  <2>2. Inv
    BY DEF Inv, BodyOK, StoreInv
  <2> QED
    BY <2>1, <2>2, SettledHere
<1> QED
  BY <1>1, TypeCorrect, StoreInvariant, PTL
=============================================================================
