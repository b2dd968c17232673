------------------------- MODULE MemoryLocksProofs --------------------------
(***************************************************************************)
(* Theorems about MemoryLocks, for all values of its constants.            *)
(***************************************************************************)
EXTENDS MemoryLocks, TLAPS

\* The moves that handlers share keep the types of the variables they assign.
ThreadType ==
    /\ pc \in [Clients -> Label]
    /\ frame \in [Clients -> Frame]
    /\ answer \in [Clients -> Response]

LEMMA EntryTypes == NoEntry \in Entry /\ NoFrame \in Frame /\ NoResponse \in Response
BY MemoryLocksAssumption DEF NoEntry, Entry, NoFrame, Frame, NoResponse, Response, Time

LEMMA GotoType ==
    ASSUME ThreadType, NEW c \in Clients, NEW label \in Label, Goto(c, label)
    PROVE  ThreadType'
BY DEF ThreadType, Goto

LEMMA EnterType ==
    ASSUME ThreadType, NEW c \in Clients, NEW label \in Label, NEW f \in Frame,
           Enter(c, label, f)
    PROVE  ThreadType'
BY DEF ThreadType, Enter

LEMMA CallType ==
    ASSUME ThreadType, NEW c \in Clients, NEW label \in Label,
           NEW method \in {"TryGetLock", "AddLock", "RefreshLock"},
           Call(c, method, label)
    PROVE  ThreadType'
<1>1. [frame[c] EXCEPT !.call = method] \in Frame
  BY DEF ThreadType, Frame
<1> QED
  BY <1>1, EnterType DEF Call

LEMMA ReplyType ==
    ASSUME ThreadType, NEW c \in Clients,
           NEW status \in {"ok", "conflict", "notFound", "error"},
           NEW header \in LockIds \cup {NoLock, Reason},
           Reply(c, status, header)
    PROVE  ThreadType'
<1>1. [status |-> status, header |-> header] \in Response
  BY DEF Response
<1>2. "reply" \in Label
  BY DEF Label
<1> QED
  BY <1>1, <1>2, EntryTypes DEF ThreadType, Reply

LEMMA NotRefreshedType ==
    ASSUME ThreadType, NEW c \in Clients, NotRefreshed(c)
    PROVE  ThreadType'
BY ReplyType DEF NotRefreshed, LockMismatch

LEMMA GrantedType ==
    ASSUME ThreadType, NEW c \in Clients, Granted(c)
    PROVE  ThreadType'
BY ReplyType, EnterType, EntryTypes DEF Granted, Label

LEMMA ReturnedType ==
    ASSUME ThreadType, NEW c \in Clients, NEW entry \in Entry, Returned(c, entry)
    PROVE  ThreadType'
<1>1. /\ [NoFrame EXCEPT !.seen = entry] \in Frame
      /\ [frame[c] EXCEPT !.seen = entry] \in Frame
  BY EntryTypes DEF ThreadType, Frame
<1>2. {"handle", "stamp"} \subseteq Label
  BY DEF Label
<1> QED
  BY <1>1, <1>2, EnterType, NotRefreshedType DEF Returned

LEMMA ComparedType ==
    ASSUME ThreadType, NEW c \in Clients, NEW id, NEW ACTION Matched,
           Matched => ThreadType', Compared(c, id, Matched)
    PROVE  ThreadType'
<1>1. Seen(c).lockId \in LockIds \cup {NoLock}
  BY DEF Seen, ThreadType, Frame, Entry
<1>2. CASE ComparisonThrows(Seen(c).lockId, id)
  BY <1>2, ReplyType DEF Compared
<1>3. CASE ~ComparisonThrows(Seen(c).lockId, id) /\ AreLocksCompatible(Seen(c).lockId, id)
  BY <1>3 DEF Compared
<1>4. CASE ~ComparisonThrows(Seen(c).lockId, id) /\ ~AreLocksCompatible(Seen(c).lockId, id)
  BY <1>1, <1>4, ReplyType DEF Compared, LockMismatch
<1> QED
  BY <1>2, <1>3, <1>4


LEMMA ArriveType ==
    ASSUME TypeOK, NEW c \in Clients, Arrive(c)
    PROVE  TypeOK'
<1> USE LockIdsAssumption, MemoryLocksAssumption
<1>1. PICK op \in Ops, f \in Files : \E h \in Headers(c, op) :
         /\ req' = [req EXCEPT ![c] = [op |-> op, file |-> f, old |-> h[1],
                                       new |-> h[2], since |-> now]]
         /\ Fetch(c, op, f, h[2])
         /\ lease' = IF op = "Unlock"
                     THEN [lease EXCEPT ![c][f] = NotHeld] ELSE lease
  BY DEF Arrive
<1>2. PICK h \in Headers(c, op) :
         /\ req' = [req EXCEPT ![c] = [op |-> op, file |-> f, old |-> h[1],
                                       new |-> h[2], since |-> now]]
         /\ Fetch(c, op, f, h[2])
         /\ lease' = IF op = "Unlock"
                     THEN [lease EXCEPT ![c][f] = NotHeld] ELSE lease
  BY <1>1
<1>3. h[1] \in LockIds \cup {NoLock} /\ h[2] \in LockIds \cup {NoLock}
  BY DEF Headers, IdsOf
<1>4. op \in Operations
  OBVIOUS
<1>5. [op |-> op, file |-> f, old |-> h[1], new |-> h[2], since |-> now] \in Request
  BY <1>3, <1>4 DEF Request, TypeOK
<1>6. req' \in [Clients -> Request]
  BY <1>2, <1>5 DEF TypeOK
<1>7. lease' \in [Clients -> [Files -> Time \cup {NotHeld}]]
  BY <1>2 DEF TypeOK
<1>8. ThreadType'
  <2>1. ThreadType
    BY DEF TypeOK, ThreadType
  <2>2. CASE content[f] = "gone"
    BY <1>2, <2>1, <2>2, ReplyType DEF Fetch
  <2>3. CASE content[f] # "gone" /\ op # "PutFile"
    BY <1>2, <2>1, <2>3, CallType DEF Fetch, Label
  <2>4. CASE content[f] # "gone" /\ op = "PutFile" /\ h[2] # NoLock
    BY <1>2, <2>1, <2>4, GotoType DEF Fetch, Label
  <2>5. CASE content[f] = "empty" /\ op = "PutFile" /\ h[2] = NoLock
    BY <1>2, <2>1, <2>5, GotoType DEF Fetch, Label
  <2>6. CASE content[f] \notin {"gone", "empty"} /\ op = "PutFile" /\ h[2] = NoLock
    BY <1>2, <2>1, <2>6, ReplyType DEF Fetch
  <2> QED
    BY <2>2, <2>3, <2>4, <2>5, <2>6
<1> QED
  BY <1>6, <1>7, <1>8 DEF TypeOK, ThreadType, Arrive, storage

LEMMA ProviderType ==
    ASSUME TypeOK, NEW c \in Clients,
           \/ Refetch(c) \/ TryGetValue(c) \/ CheckExpired(c) \/ Evict(c)
           \/ Stamp(c) \/ TryAdd(c) \/ TryUpdate(c) \/ RemoveLock(c)
    PROVE  TypeOK'
<1>1. /\ ThreadType /\ NoEntry \in Entry /\ NoFrame \in Frame
      /\ Label = Label \cup {"read", "check", "evict", "store"}
  BY EntryTypes DEF TypeOK, ThreadType, Label
<1>2. frame[c].seen \in Entry
  BY DEF TypeOK, Frame
<1>3. NewEntry(c) \in Entry
  BY DEF NewEntry, Entry, TypeOK, Request, Frame
<1>4. ThreadType' /\ locks' \in [Files -> Entry]
  <2>1. CASE Refetch(c)
    BY <1>1, <2>1, ReplyType, CallType DEF Refetch, TypeOK
  <2>2. CASE TryGetValue(c)
    <3>1. CASE Present(locks[req[c].file])
      <4>1. [frame[c] EXCEPT !.seen = locks[req[c].file]] \in Frame
        BY DEF TypeOK, Frame, Request
      <4> QED
        BY <1>1, <2>2, <3>1, <4>1, EnterType DEF TryGetValue, TypeOK
    <3>2. CASE ~Present(locks[req[c].file])
      BY <1>1, <2>2, <3>2, ReturnedType DEF TryGetValue, TypeOK
    <3> QED
      BY <3>1, <3>2
  <2>3. CASE CheckExpired(c)
    BY <1>1, <1>2, <2>3, GotoType, ReturnedType DEF CheckExpired, TypeOK
  <2>4. CASE Evict(c)
    BY <1>1, <2>4, ReturnedType DEF Evict, TypeOK
  <2>5. CASE Stamp(c)
    <3>1. [frame[c] EXCEPT !.date = now] \in Frame
      BY DEF TypeOK, Frame
    <3> QED
      BY <1>1, <2>5, <3>1, EnterType DEF Stamp, TypeOK
  <2>6. CASE TryAdd(c)
    BY <1>1, <1>3, <2>6, ReplyType, GrantedType DEF TryAdd, Vacant, LockMismatch, TypeOK
  <2>7. CASE TryUpdate(c)
    BY <1>1, <1>3, <2>7, NotRefreshedType, GrantedType DEF TryUpdate, AsSeen, TypeOK
  <2>8. CASE RemoveLock(c)
    BY <1>1, <2>8, ReplyType DEF RemoveLock, LockMismatch, TypeOK
  <2> QED
    BY <2>1, <2>2, <2>3, <2>4, <2>5, <2>6, <2>7, <2>8
<1>5. UNCHANGED <<storage, req, lease, now>>
  BY DEF Refetch, TryGetValue, CheckExpired, Evict, Stamp, TryAdd, Vacant, TryUpdate, AsSeen, RemoveLock
<1> QED
  BY <1>4, <1>5 DEF TypeOK, ThreadType, storage

LEMMA HandlerType ==
    ASSUME TypeOK, NEW c \in Clients,
           \/ HandleGetLock(c) \/ HandleLockOrPut(c) \/ HandleRelock(c)
           \/ HandleUnlock(c) \/ HandleRefreshLock(c)
           \/ HandleRenameFile(c) \/ HandleDeleteFile(c)
    PROVE  TypeOK'
<1>1. /\ ThreadType
      /\ Label = Label \cup {"read", "stamp", "remove", "rename", "delete"}
      /\ Seen(c).lockId \in LockIds \cup {NoLock}
  BY DEF TypeOK, ThreadType, Label, Seen, Frame, Entry
<1>2. CallRefreshLock(c) => ThreadType'
  BY <1>1, CallType DEF CallRefreshLock
<1>3. Goto(c, "remove") \/ Goto(c, "rename") \/ Goto(c, "delete") => ThreadType'
  BY <1>1, GotoType
<1>4. ASSUME NEW header \in LockIds \cup {NoLock}, LockMismatch(c, header)
      PROVE  ThreadType'
  BY <1>1, <1>4, ReplyType DEF LockMismatch
<1>5. LockOrRefresh(c) => ThreadType'
  BY <1>1, <1>2, ComparedType DEF LockOrRefresh
<1>6. ThreadType'
  <2>1. CASE HandleGetLock(c)
    BY <1>1, <2>1, ReplyType DEF HandleGetLock
  <2>2. CASE HandleLockOrPut(c)
    BY <1>1, <1>4, <1>5, <2>2, CallType DEF HandleLockOrPut
  <2>3. CASE HandleRelock(c)
    <3>1. (IF req[c].new = NoLock THEN LockMismatch(c, NoLock) ELSE CallRefreshLock(c))
            => ThreadType'
      BY <1>2, <1>4
    <3> QED
      BY <1>1, <1>4, <2>3, <3>1, ComparedType DEF HandleRelock
  <2>4. CASE HandleUnlock(c)
    BY <1>1, <1>3, <1>4, <2>4, ComparedType DEF HandleUnlock
  <2>5. CASE HandleRefreshLock(c)
    BY <1>4, <1>5, <2>5 DEF HandleRefreshLock
  <2>6. CASE HandleRenameFile(c)
    BY <1>1, <1>3, <1>4, <2>6 DEF HandleRenameFile
  <2>7. CASE HandleDeleteFile(c)
    BY <1>1, <1>3, <1>4, <2>7 DEF HandleDeleteFile
  <2> QED
    BY <2>1, <2>2, <2>3, <2>4, <2>5, <2>6, <2>7
<1>7. UNCHANGED <<locks, storage, req, lease, now>>
  BY DEF HandleGetLock, HandleLockOrPut, HandleRelock, HandleUnlock, HandleRefreshLock,
         HandleRenameFile, HandleDeleteFile, Handling
<1> QED
  BY <1>6, <1>7 DEF TypeOK, ThreadType, storage

LEMMA StorageType ==
    ASSUME TypeOK, NEW c \in Clients, WriteFile(c) \/ RenameFile(c) \/ DeleteFile(c)
    PROVE  TypeOK'
<1>1. ThreadType
  BY DEF TypeOK, ThreadType
<1>2. ThreadType'
  BY <1>1, ReplyType DEF WriteFile, RenameFile, DeleteFile
<1>3. /\ content' \in [Files -> Clients \cup {"empty", "gone"}]
      /\ names' \in [Files -> Names \cup {Unnamed}]
  <2>1. CASE WriteFile(c)
    <3>1. PICK left \in Clients \cup {"empty", "gone"} :
            content' = [content EXCEPT ![req[c].file] = left]
      BY <2>1 DEF TypeOK, Request, WriteFile
    <3> QED
      BY <2>1, <3>1 DEF TypeOK, WriteFile
  <2> QED
    BY SMTT(30), <2>1 DEF TypeOK, RenameFile, DeleteFile
<1>4. UNCHANGED <<locks, req, lease, now>>
  BY DEF WriteFile, RenameFile, DeleteFile
<1> QED
  BY <1>2, <1>3, <1>4 DEF TypeOK, ThreadType

LEMMA DeliverType ==
    ASSUME TypeOK, NEW c \in Clients, Deliver(c)
    PROVE  TypeOK'
<1>1. NoRequest \in Request
  BY MemoryLocksAssumption DEF NoRequest, Request, Time
<1>2. req[c].since \in Time
  BY DEF TypeOK, Request
<1>3. lease' \in [Clients -> [Files -> Time \cup {NotHeld}]]
  BY <1>2 DEF Deliver, TypeOK
<1>4. /\ pc' \in [Clients -> Label]
      /\ req' \in [Clients -> Request]
      /\ answer' \in [Clients -> Response]
  BY <1>1, EntryTypes DEF Deliver, TypeOK, Label
<1> QED
  BY <1>3, <1>4 DEF Deliver, TypeOK, storage

LEMMA NextType ==
    ASSUME TypeOK, [Next]_vars
    PROVE  TypeOK'
<1>1. CASE UNCHANGED vars
  BY <1>1 DEF TypeOK, vars, storage
<1>2. CASE Tick
  BY <1>2, MemoryLocksAssumption DEF Tick, TypeOK, Time, storage
<1>3. ASSUME NEW c \in Clients, Step(c) PROVE TypeOK'
  BY <1>3, ArriveType, ProviderType, HandlerType, StorageType, DeliverType DEF Step
<1> QED
  BY <1>1, <1>2, <1>3 DEF Next

\* The dictionary, the threads, the leases and the clock keep their types.
THEOREM TypeCorrect == Spec => []TypeOK
<1>1. Init => TypeOK
  BY EntryTypes, MemoryLocksAssumption
  DEF Init, TypeOK, NoRequest, Request, Label, Time
<1> QED
  BY <1>1, NextType, PTL DEF Spec

-----------------------------------------------------------------------------
\* What the locks protect: how each action moves the state, and what survives
\* every interleaving.

\* What a step of client c's thread leaves alone.
OthersKept(c) ==
    \A d \in Clients \ {c} :
        /\ pc'[d] = pc[d] /\ frame'[d] = frame[d] /\ answer'[d] = answer[d]
        /\ req'[d] = req[d] /\ lease'[d] = lease[d]

ThreadKept(c) ==
    \A d \in Clients \ {c} : pc'[d] = pc[d] /\ frame'[d] = frame[d] /\ answer'[d] = answer[d]

LEMMA MoveKeeps ==
    ASSUME ThreadType, NEW c \in Clients,
           \/ \E label : Goto(c, label)
           \/ \E label, f : Enter(c, label, f)
           \/ \E status, header : Reply(c, status, header)
    PROVE  ThreadKept(c)
BY DEF ThreadType, ThreadKept, Goto, Enter, Reply

LEMMA CallKeeps ==
    ASSUME ThreadType, NEW c \in Clients,
           \/ \E method, label : Call(c, method, label)
           \/ \E header : LockMismatch(c, header)
           \/ \E entry : Returned(c, entry)
           \/ Granted(c)
           \/ NotRefreshed(c)
    PROVE  ThreadKept(c)
BY MoveKeeps DEF Call, LockMismatch, Returned, Granted, NotRefreshed

LEMMA ComparedKeeps ==
    ASSUME ThreadType, NEW c \in Clients, NEW id, NEW ACTION Matched,
           Matched => ThreadKept(c), Compared(c, id, Matched)
    PROVE  ThreadKept(c)
<1>1. CASE ComparisonThrows(Seen(c).lockId, id)
  BY <1>1, MoveKeeps DEF Compared
<1>2. CASE ~ComparisonThrows(Seen(c).lockId, id) /\ AreLocksCompatible(Seen(c).lockId, id)
  BY <1>2 DEF Compared
<1>3. CASE ~ComparisonThrows(Seen(c).lockId, id) /\ ~AreLocksCompatible(Seen(c).lockId, id)
  BY <1>3, CallKeeps DEF Compared
<1> QED
  BY <1>1, <1>2, <1>3

LEMMA ArriveKeeps ==
    ASSUME TypeOK, NEW c \in Clients, Arrive(c)
    PROVE  OthersKept(c)
<1>1. PICK op \in Ops, f \in Files : \E h \in Headers(c, op) :
         /\ req' = [req EXCEPT ![c] = [op |-> op, file |-> f, old |-> h[1],
                                       new |-> h[2], since |-> now]]
         /\ Fetch(c, op, f, h[2])
         /\ lease' = IF op = "Unlock"
                     THEN [lease EXCEPT ![c][f] = NotHeld] ELSE lease
  BY DEF Arrive
<1>2. PICK h \in Headers(c, op) :
         /\ req' = [req EXCEPT ![c] = [op |-> op, file |-> f, old |-> h[1],
                                       new |-> h[2], since |-> now]]
         /\ Fetch(c, op, f, h[2])
         /\ lease' = IF op = "Unlock"
                     THEN [lease EXCEPT ![c][f] = NotHeld] ELSE lease
  BY <1>1
<1>3. ThreadType
  BY DEF TypeOK, ThreadType
<1>4. ThreadKept(c)
  <2>1. CASE content[f] = "gone"
    BY <1>2, <1>3, <2>1, MoveKeeps DEF Fetch
  <2>2. CASE content[f] # "gone" /\ op # "PutFile"
    BY <1>2, <1>3, <2>2, CallKeeps DEF Fetch
  <2>3. CASE content[f] # "gone" /\ op = "PutFile" /\ h[2] # NoLock
    BY <1>2, <1>3, <2>3, MoveKeeps DEF Fetch
  <2>4. CASE content[f] = "empty" /\ op = "PutFile" /\ h[2] = NoLock
    BY <1>2, <1>3, <2>4, MoveKeeps DEF Fetch
  <2>5. CASE content[f] \notin {"gone", "empty"} /\ op = "PutFile" /\ h[2] = NoLock
    BY <1>2, <1>3, <2>5, MoveKeeps DEF Fetch
  <2> QED
    BY <2>1, <2>2, <2>3, <2>4, <2>5
<1> QED
  BY <1>2, <1>4 DEF OthersKept, ThreadKept, TypeOK

LEMMA StepKeeps ==
    ASSUME TypeOK, NEW c \in Clients, Step(c)
    PROVE  OthersKept(c)
<1>1. ThreadType
  BY DEF TypeOK, ThreadType
<1>2. CASE Arrive(c)
  BY <1>2, ArriveKeeps
<1>3. CASE Deliver(c)
  BY <1>3 DEF Deliver, OthersKept, TypeOK
<1>4. CASE \/ Refetch(c) \/ TryGetValue(c) \/ CheckExpired(c) \/ Evict(c)
           \/ Stamp(c) \/ TryAdd(c) \/ TryUpdate(c) \/ RemoveLock(c)
           \/ WriteFile(c) \/ RenameFile(c) \/ DeleteFile(c)
  <2>1. ThreadKept(c)
    BY <1>1, <1>4, MoveKeeps, CallKeeps
    DEF Refetch, TryGetValue, CheckExpired, Evict, Stamp, TryAdd, Vacant, TryUpdate, AsSeen, RemoveLock,
        WriteFile, RenameFile, DeleteFile
  <2>2. UNCHANGED <<req, lease>>
    BY <1>4
    DEF Refetch, TryGetValue, CheckExpired, Evict, Stamp, TryAdd, Vacant, TryUpdate, AsSeen, RemoveLock,
        WriteFile, RenameFile, DeleteFile
  <2> QED
    BY <2>1, <2>2 DEF OthersKept, ThreadKept
<1>5. CASE \/ HandleGetLock(c) \/ HandleLockOrPut(c) \/ HandleRelock(c)
           \/ HandleUnlock(c) \/ HandleRefreshLock(c)
           \/ HandleRenameFile(c) \/ HandleDeleteFile(c)
  <2>1. LockOrRefresh(c) => ThreadKept(c)
    BY <1>1, CallKeeps, ComparedKeeps DEF LockOrRefresh, CallRefreshLock
  <2>2. HandleRelock(c) => ThreadKept(c)
    <3>1. (IF req[c].new = NoLock THEN LockMismatch(c, NoLock) ELSE CallRefreshLock(c))
            => ThreadKept(c)
      BY <1>1, CallKeeps DEF CallRefreshLock
    <3> QED
      BY <1>1, <3>1, CallKeeps, ComparedKeeps DEF HandleRelock
  <2>3. HandleUnlock(c) => ThreadKept(c)
    <3>1. Goto(c, "remove") => ThreadKept(c)
      BY <1>1, MoveKeeps
    <3> QED
      BY <1>1, <3>1, CallKeeps, ComparedKeeps DEF HandleUnlock
  <2>4. ThreadKept(c)
    BY <1>1, <1>5, <2>1, <2>2, <2>3, MoveKeeps, CallKeeps
    DEF HandleGetLock, HandleLockOrPut, HandleRefreshLock, HandleRenameFile, HandleDeleteFile
  <2>5. UNCHANGED <<req, lease>>
    BY <1>5
    DEF HandleGetLock, HandleLockOrPut, HandleRelock, HandleUnlock, HandleRefreshLock,
        HandleRenameFile, HandleDeleteFile, Handling
  <2> QED
    BY <2>4, <2>5 DEF OthersKept, ThreadKept
<1> QED
  BY <1>2, <1>3, <1>4, <1>5 DEF Step

-----------------------------------------------------------------------------
(* Refreshes and the clock, for every interleaving.                        *)

\* Nothing bears a date in the future, and a refresh is stamped after it looked.
DatesOK(c) ==
    /\ frame[c].seen.dateCreated <= now
    /\ frame[c].date <= now
    /\ pc[c] = "store" => frame[c].seen.dateCreated <= frame[c].date

DateInv ==
    /\ \A f \in Files : locks[f].dateCreated <= now
    /\ \A c \in Clients : DatesOK(c)

\* What a step of client c's thread may do to the dictionary.
LEMMA LocksMove ==
    ASSUME NEW c \in Clients, Step(c)
    PROVE  \/ UNCHANGED locks
           \/ /\ pc[c] \in {"evict", "remove"}
              /\ locks' = [locks EXCEPT ![req[c].file] = NoEntry]
           \/ /\ pc[c] = "store" /\ frame[c].call = "AddLock"
              /\ ~Present(locks[req[c].file])
              /\ locks' = [locks EXCEPT ![req[c].file] = NewEntry(c)]
           \/ /\ pc[c] = "store" /\ frame[c].call = "RefreshLock"
              /\ locks[req[c].file] = frame[c].seen
              /\ locks' = [locks EXCEPT ![req[c].file] = NewEntry(c)]
<1>1. CASE Evict(c) \/ RemoveLock(c) \/ TryAdd(c) \/ TryUpdate(c)
  BY <1>1 DEF Evict, RemoveLock, TryAdd, Vacant, TryUpdate, AsSeen
<1>2. CASE ~(Evict(c) \/ RemoveLock(c) \/ TryAdd(c) \/ TryUpdate(c))
  BY <1>2
  DEF Step, Arrive, Refetch, TryGetValue, CheckExpired, Stamp, HandleGetLock,
      HandleLockOrPut, HandleRelock, HandleUnlock, HandleRefreshLock, HandleRenameFile,
      HandleDeleteFile, Handling, WriteFile, RenameFile, DeleteFile, Deliver
<1> QED
  BY <1>1, <1>2

LEMMA StepKeepsTime ==
    ASSUME NEW c \in Clients, Step(c)
    PROVE  now' = now
BY DEF Step, Arrive, Refetch, TryGetValue, CheckExpired, Evict, Stamp, TryAdd, Vacant, TryUpdate, AsSeen,
       RemoveLock, HandleGetLock, HandleLockOrPut, HandleRelock, HandleUnlock,
       HandleRefreshLock, HandleRenameFile, HandleDeleteFile, Handling, WriteFile,
       RenameFile, DeleteFile, Deliver

\* The moves that handlers share carry on the dates they find.
LEMMA MoveDates ==
    ASSUME TypeOK, now' = now, NEW c \in Clients, DatesOK(c),
           \/ \E label : label # "store" /\ Goto(c, label)
           \/ \E label : \E f \in Frame :
                 /\ label # "store" /\ Enter(c, label, f)
                 /\ f.seen.dateCreated <= now /\ f.date <= now
           \/ \E status, header : Reply(c, status, header)
    PROVE  DatesOK(c)'
<1>1. 0 <= now
  BY DEF TypeOK, Time
<1>2. CASE \E label : label # "store" /\ Goto(c, label)
  BY <1>2 DEF Goto, DatesOK, TypeOK
<1>3. CASE \E label : \E f \in Frame :
             /\ label # "store" /\ Enter(c, label, f)
             /\ f.seen.dateCreated <= now /\ f.date <= now
  BY <1>3 DEF Enter, DatesOK, TypeOK
<1>4. CASE \E status, header : Reply(c, status, header)
  <2>1. frame'[c] = NoFrame /\ pc'[c] = "reply"
    BY <1>4 DEF Reply, TypeOK
  <2> QED
    BY <1>1, <2>1 DEF DatesOK, NoFrame, NoEntry
<1> QED
  BY <1>2, <1>3, <1>4

LEMMA CallDates ==
    ASSUME TypeOK, now' = now, NEW c \in Clients, DatesOK(c),
           \/ \E method \in {"TryGetLock", "AddLock", "RefreshLock"} : \E label :
                 label # "store" /\ Call(c, method, label)
           \/ \E header : LockMismatch(c, header)
           \/ \E entry \in Entry : entry.dateCreated <= now /\ Returned(c, entry)
           \/ Granted(c)
           \/ NotRefreshed(c)
    PROVE  DatesOK(c)'
<1>1. /\ NoFrame \in Frame /\ frame[c] \in Frame
      /\ NoFrame.seen.dateCreated <= now /\ NoFrame.date <= now
  BY EntryTypes DEF TypeOK, Time, NoFrame, NoEntry
<1>2. CASE \E method \in {"TryGetLock", "AddLock", "RefreshLock"} : \E label :
             label # "store" /\ Call(c, method, label)
  <2>1. PICK method \in {"TryGetLock", "AddLock", "RefreshLock"} : \E label :
             label # "store" /\ Call(c, method, label)
    BY <1>2
  <2>2. /\ [frame[c] EXCEPT !.call = method] \in Frame
        /\ [frame[c] EXCEPT !.call = method].seen.dateCreated <= now
        /\ [frame[c] EXCEPT !.call = method].date <= now
    BY <1>1 DEF Frame, DatesOK
  <2> QED
    BY <2>1, <2>2, MoveDates DEF Call
<1>3. CASE (\E header : LockMismatch(c, header)) \/ NotRefreshed(c)
  BY <1>3, MoveDates DEF LockMismatch, NotRefreshed
<1>4. CASE \E entry \in Entry : entry.dateCreated <= now /\ Returned(c, entry)
  <2>1. PICK entry \in Entry : entry.dateCreated <= now /\ Returned(c, entry)
    BY <1>4
  <2>2. /\ [NoFrame EXCEPT !.seen = entry] \in Frame
        /\ [NoFrame EXCEPT !.seen = entry].seen = entry
        /\ [NoFrame EXCEPT !.seen = entry].date = NoFrame.date
        /\ [frame[c] EXCEPT !.seen = entry] \in Frame
        /\ [frame[c] EXCEPT !.seen = entry].seen = entry
        /\ [frame[c] EXCEPT !.seen = entry].date = frame[c].date
    BY <1>1 DEF Frame
  <2> QED
    BY <1>1, <2>1, <2>2, <1>3, MoveDates DEF Returned, DatesOK
<1>5. CASE Granted(c)
  BY <1>1, <1>5, MoveDates DEF Granted
<1> QED
  BY <1>2, <1>3, <1>4, <1>5

LEMMA ArriveDates ==
    ASSUME TypeOK, NEW c \in Clients, DatesOK(c), Arrive(c)
    PROVE  DatesOK(c)'
<1>1. PICK op \in Ops, f \in Files : \E h \in Headers(c, op) : Fetch(c, op, f, h[2])
  BY DEF Arrive
<1>2. PICK h \in Headers(c, op) : Fetch(c, op, f, h[2])
  BY <1>1
<1>3. now' = now
  BY DEF Arrive
<1>4. CASE content[f] = "gone"
  BY <1>2, <1>3, <1>4, MoveDates DEF Fetch
<1>5. CASE content[f] # "gone" /\ op # "PutFile"
  BY <1>2, <1>3, <1>5, CallDates DEF Fetch
<1>6. CASE content[f] # "gone" /\ op = "PutFile" /\ h[2] # NoLock
  BY <1>2, <1>3, <1>6, MoveDates DEF Fetch
<1>7. CASE content[f] = "empty" /\ op = "PutFile" /\ h[2] = NoLock
  BY <1>2, <1>3, <1>7, MoveDates DEF Fetch
<1>8. CASE content[f] \notin {"gone", "empty"} /\ op = "PutFile" /\ h[2] = NoLock
  BY <1>2, <1>3, <1>8, MoveDates DEF Fetch
<1> QED
  BY <1>4, <1>5, <1>6, <1>7, <1>8

LEMMA ProviderDates ==
    ASSUME TypeOK, DateInv, NEW c \in Clients,
           \/ Refetch(c) \/ TryGetValue(c) \/ CheckExpired(c) \/ Evict(c)
           \/ Stamp(c) \/ TryAdd(c) \/ TryUpdate(c) \/ RemoveLock(c)
    PROVE  DatesOK(c)'
<1>1. DatesOK(c) /\ now' = now
  BY DEF DateInv, Refetch, TryGetValue, CheckExpired, Evict, Stamp, TryAdd, Vacant, TryUpdate, AsSeen, RemoveLock
<1>2. /\ req[c].file \in Files /\ locks[req[c].file] \in Entry
      /\ locks[req[c].file].dateCreated <= now
      /\ frame[c] \in Frame /\ frame[c].seen \in Entry
      /\ frame[c].seen.dateCreated <= now
  BY <1>1 DEF TypeOK, Request, Frame, DateInv, DatesOK
<1>3. NoEntry \in Entry /\ NoEntry.dateCreated <= now
  BY EntryTypes DEF NoEntry, TypeOK, Time
<1>4. CASE Refetch(c)
  BY <1>1, <1>4, MoveDates, CallDates DEF Refetch
<1>5. CASE TryGetValue(c)
  <2>1. /\ [frame[c] EXCEPT !.seen = locks[req[c].file]] \in Frame
        /\ [frame[c] EXCEPT !.seen = locks[req[c].file]].seen = locks[req[c].file]
        /\ [frame[c] EXCEPT !.seen = locks[req[c].file]].date = frame[c].date
    BY <1>2 DEF Frame
  <2> QED
    BY <1>1, <1>2, <1>3, <1>5, <2>1, MoveDates, CallDates DEF TryGetValue, DatesOK
<1>6. CASE CheckExpired(c)
  BY <1>1, <1>2, <1>6, MoveDates, CallDates DEF CheckExpired
<1>7. CASE Evict(c)
  BY <1>1, <1>3, <1>7, CallDates DEF Evict
<1>8. CASE Stamp(c)
  <2>1. frame'[c] = [frame[c] EXCEPT !.date = now]
    BY <1>8 DEF Stamp, Enter, TypeOK
  <2>2. frame'[c].seen = frame[c].seen /\ frame'[c].date = now
    BY <1>2, <2>1 DEF Frame
  <2> QED
    BY <1>1, <1>2, <2>2 DEF DatesOK, TypeOK, Time
<1>9. CASE TryAdd(c)
  BY <1>1, <1>9, CallDates DEF TryAdd, Vacant
<1>10. CASE TryUpdate(c)
  BY <1>1, <1>10, CallDates DEF TryUpdate, AsSeen
<1>11. CASE RemoveLock(c)
  BY <1>1, <1>11, MoveDates, CallDates DEF RemoveLock
<1> QED
  BY <1>4, <1>5, <1>6, <1>7, <1>8, <1>9, <1>10, <1>11

LEMMA ComparedDates ==
    ASSUME TypeOK, now' = now, NEW c \in Clients, DatesOK(c), NEW id, NEW ACTION Matched,
           Matched => DatesOK(c)', Compared(c, id, Matched)
    PROVE  DatesOK(c)'
<1>1. CASE ComparisonThrows(Seen(c).lockId, id)
  BY <1>1, MoveDates DEF Compared
<1>2. CASE ~ComparisonThrows(Seen(c).lockId, id) /\ AreLocksCompatible(Seen(c).lockId, id)
  BY <1>2 DEF Compared
<1>3. CASE ~ComparisonThrows(Seen(c).lockId, id) /\ ~AreLocksCompatible(Seen(c).lockId, id)
  BY <1>3, CallDates DEF Compared
<1> QED
  BY <1>1, <1>2, <1>3

LEMMA HandlerDates ==
    ASSUME TypeOK, DateInv, NEW c \in Clients,
           \/ HandleGetLock(c) \/ HandleLockOrPut(c) \/ HandleRelock(c)
           \/ HandleUnlock(c) \/ HandleRefreshLock(c)
           \/ HandleRenameFile(c) \/ HandleDeleteFile(c)
    PROVE  DatesOK(c)'
<1>1. DatesOK(c) /\ now' = now
  BY DEF DateInv, HandleGetLock, HandleLockOrPut, HandleRelock, HandleUnlock,
         HandleRefreshLock, HandleRenameFile, HandleDeleteFile, Handling
<1>2. CallRefreshLock(c) => DatesOK(c)'
  BY <1>1, CallDates DEF CallRefreshLock
<1>3. LockOrRefresh(c) => DatesOK(c)'
  BY <1>1, <1>2, ComparedDates DEF LockOrRefresh
<1>4. Goto(c, "remove") \/ Goto(c, "rename") \/ Goto(c, "delete") => DatesOK(c)'
  BY <1>1, MoveDates
<1>5. CASE HandleGetLock(c)
  BY <1>1, <1>5, MoveDates DEF HandleGetLock
<1>6. CASE HandleLockOrPut(c)
  BY <1>1, <1>3, <1>6, CallDates DEF HandleLockOrPut
<1>7. CASE HandleRelock(c)
  <2>1. (IF req[c].new = NoLock THEN LockMismatch(c, NoLock) ELSE CallRefreshLock(c))
          => DatesOK(c)'
    BY <1>1, <1>2, CallDates
  <2> QED
    BY <1>1, <1>7, <2>1, CallDates, ComparedDates DEF HandleRelock
<1>8. CASE HandleUnlock(c)
  BY <1>1, <1>4, <1>8, CallDates, ComparedDates DEF HandleUnlock
<1>9. CASE HandleRefreshLock(c)
  BY <1>1, <1>3, <1>9, CallDates DEF HandleRefreshLock
<1>10. CASE HandleRenameFile(c) \/ HandleDeleteFile(c)
  BY <1>1, <1>4, <1>10, CallDates DEF HandleRenameFile, HandleDeleteFile
<1> QED
  BY <1>5, <1>6, <1>7, <1>8, <1>9, <1>10

LEMMA StepDates ==
    ASSUME TypeOK, DateInv, NEW c \in Clients, Step(c)
    PROVE  DatesOK(c)'
<1>1. DatesOK(c) /\ now' = now
  BY StepKeepsTime DEF DateInv
<1>2. CASE Arrive(c)
  BY <1>1, <1>2, ArriveDates
<1>3. CASE WriteFile(c) \/ RenameFile(c) \/ DeleteFile(c)
  BY <1>1, <1>3, MoveDates DEF WriteFile, RenameFile, DeleteFile
<1>4. CASE Deliver(c)
  BY <1>1, <1>4 DEF Deliver, DatesOK, TypeOK
<1> QED
  BY <1>2, <1>3, <1>4, ProviderDates, HandlerDates DEF Step

LEMMA NextDates ==
    ASSUME TypeOK, DateInv, [Next]_vars
    PROVE  DateInv'
<1>1. CASE UNCHANGED vars
  BY <1>1 DEF DateInv, DatesOK, vars
<1>2. CASE Tick
  <2>1. /\ now \in Int /\ now' = now + 1
        /\ \A f \in Files : locks[f].dateCreated \in Int
        /\ \A c \in Clients : frame[c].seen.dateCreated \in Int /\ frame[c].date \in Int
    BY <1>2 DEF Tick, TypeOK, Time, Entry, Frame
  <2> QED
    BY <1>2, <2>1 DEF Tick, DateInv, DatesOK
<1>3. ASSUME NEW c \in Clients, Step(c) PROVE DateInv'
  <2>1. \A d \in Clients : DatesOK(d)'
    BY <1>3, StepDates, StepKeeps, StepKeepsTime DEF OthersKept, DateInv, DatesOK
  <2>2. \A f \in Files : locks'[f].dateCreated <= now'
    <3>1. NoEntry.dateCreated <= now /\ NewEntry(c).dateCreated <= now /\ now' = now
      BY <1>3, StepKeepsTime DEF NoEntry, NewEntry, TypeOK, Time, DateInv, DatesOK
    <3> QED
      BY <1>3, <3>1, LocksMove DEF TypeOK, DateInv
  <2> QED
    BY <2>1, <2>2 DEF DateInv
<1> QED
  BY <1>1, <1>2, <1>3 DEF Next

LEMMA DatesCorrect == Spec => []DateInv
<1>1. Init => DateInv
  BY DEF Init, DateInv, DatesOK, NoEntry, NoFrame
<1>2. TypeOK /\ DateInv /\ [Next]_vars => DateInv'
  BY NextDates
<1> QED
  BY <1>1, <1>2, TypeCorrect, PTL DEF Spec

\* However many refreshes of a lock overlap, whatever their order: none brings
\* the lock's expiry forward (RefreshLock's compare-and-swap, with a stamp read
\* after the entry it compares with).
THEOREM RenewalIsMonotone == Spec => RenewalNeverShortens
<1>1. ASSUME TypeOK, DateInv, [Next]_vars, NEW f \in Files,
             Present(locks[f]), Present(locks'[f])
      PROVE  locks'[f].dateCreated >= locks[f].dateCreated
  <2>1. locks[f].dateCreated \in Int
    BY <1>1 DEF TypeOK, Entry, Time
  <2>2. CASE UNCHANGED locks
    BY <2>1, <2>2
  <2>3. ASSUME NEW c \in Clients, Step(c), locks' # locks
        PROVE  locks'[f].dateCreated >= locks[f].dateCreated
    <3>1. /\ req[c].file \in Files
          /\ pc[c] = "store" => frame[c].seen.dateCreated <= frame[c].date
          /\ frame[c].date \in Int
          /\ frame[c].seen.dateCreated \in Int
      BY <1>1 DEF TypeOK, Request, DateInv, DatesOK, Frame, Entry, Time
    <3>2. ~Present(NoEntry) /\ NewEntry(c).dateCreated = frame[c].date
      BY DEF Present, NoEntry, NewEntry
    <3> QED
      BY <1>1, <2>1, <2>3, <3>1, <3>2, LocksMove DEF TypeOK
  <2> QED
    BY <1>1, <2>2, <2>3 DEF Next, Tick, vars
<1>2. TypeOK /\ DateInv /\ [Next]_vars =>
        [\A f \in Files : Present(locks[f]) /\ Present(locks'[f]) =>
           locks'[f].dateCreated >= locks[f].dateCreated]_vars
  BY <1>1
<1> QED
  BY <1>2, TypeCorrect, DatesCorrect, PTL DEF Spec, RenewalNeverShortens

-----------------------------------------------------------------------------
(* Where each action takes the thread that performs it.                    *)

Refused(c) == pc'[c] = "reply" /\ answer'[c].status # "ok"

At(c, label, method, entry) ==
    pc'[c] = label /\ frame'[c].call = method /\ frame'[c].seen = entry

\* The lock c saw is compatible with an identifier of its own.
OwnSeen(c) == Present(Seen(c)) /\ SessionOf[Seen(c).lockId] = c

LEMMA MoveOutcome ==
    ASSUME ThreadType, NEW c \in Clients
    PROVE  /\ \A label : Goto(c, label) => pc'[c] = label /\ frame'[c] = frame[c]
           /\ \A label, f : Enter(c, label, f) => pc'[c] = label /\ frame'[c] = f
           /\ \A status, header : Reply(c, status, header) =>
                pc'[c] = "reply" /\ answer'[c].status = status
           /\ \A method \in {"TryGetLock", "AddLock", "RefreshLock"} : \A label :
                Call(c, method, label) => At(c, label, method, Seen(c))
BY DEF ThreadType, Goto, Enter, Reply, Call, At, Seen, Frame

LEMMA CallOutcome ==
    ASSUME ThreadType, NEW c \in Clients
    PROVE  /\ \A header : LockMismatch(c, header) => Refused(c)
           /\ NotRefreshed(c) => Refused(c)
           /\ Granted(c) => IF req[c].op = "PutFile" THEN pc'[c] = "write" ELSE pc'[c] = "reply"
           /\ \A entry \in Entry : Returned(c, entry) =>
                \/ frame[c].call = "TryGetLock" /\ At(c, "handle", "none", entry)
                \/ /\ frame[c].call # "TryGetLock" /\ Present(entry)
                   /\ At(c, "stamp", frame[c].call, entry)
                \/ Refused(c)
<1>1. \A header : LockMismatch(c, header) => Refused(c)
  BY MoveOutcome DEF LockMismatch, Refused
<1>2. NotRefreshed(c) => Refused(c)
  BY <1>1 DEF NotRefreshed
<1>3. Granted(c) => IF req[c].op = "PutFile" THEN pc'[c] = "write" ELSE pc'[c] = "reply"
  BY MoveOutcome DEF Granted
<1>4. ASSUME NEW entry \in Entry, Returned(c, entry)
      PROVE  \/ frame[c].call = "TryGetLock" /\ At(c, "handle", "none", entry)
             \/ /\ frame[c].call # "TryGetLock" /\ Present(entry)
                /\ At(c, "stamp", frame[c].call, entry)
             \/ Refused(c)
  <2>1. frame[c] \in Frame /\ NoFrame \in Frame /\ NoFrame.call = "none"
    BY EntryTypes DEF ThreadType, NoFrame
  <2>2. /\ [NoFrame EXCEPT !.seen = entry].call = "none"
        /\ [NoFrame EXCEPT !.seen = entry].seen = entry
        /\ [frame[c] EXCEPT !.seen = entry].call = frame[c].call
        /\ [frame[c] EXCEPT !.seen = entry].seen = entry
    BY <2>1 DEF Frame
  <2>3. \A label, f : Enter(c, label, f) => pc'[c] = label /\ frame'[c] = f
    BY MoveOutcome
  <2>4. CASE frame[c].call = "TryGetLock"
    <3>1. Enter(c, "handle", [NoFrame EXCEPT !.seen = entry])
      BY <1>4, <2>4 DEF Returned
    <3>2. pc'[c] = "handle" /\ frame'[c] = [NoFrame EXCEPT !.seen = entry]
      BY <2>3, <3>1
    <3> QED
      BY <2>2, <2>4, <3>2 DEF At
  <2>5. CASE frame[c].call # "TryGetLock" /\ Present(entry)
    <3>1. Enter(c, "stamp", [frame[c] EXCEPT !.seen = entry])
      BY <1>4, <2>5 DEF Returned
    <3>2. pc'[c] = "stamp" /\ frame'[c] = [frame[c] EXCEPT !.seen = entry]
      BY <2>3, <3>1
    <3> QED
      BY <2>2, <2>5, <3>2 DEF At
  <2>6. CASE frame[c].call # "TryGetLock" /\ ~Present(entry)
    BY <1>2, <1>4, <2>6 DEF Returned
  <2> QED
    BY <2>4, <2>5, <2>6
<1> QED
  BY <1>1, <1>2, <1>3, <1>4

LEMMA ArriveOutcome ==
    ASSUME TypeOK, NEW c \in Clients, Arrive(c)
    PROVE  /\ pc[c] = "idle"
           /\ Isolated => ~Busy(req'[c].file)
           /\ UNCHANGED <<locks, now>>
           /\ req'[c].new \in IdsOf(c) \cup {NoLock}
           /\ req'[c].old \in IdsOf(c) \cup {NoLock}
           /\ req'[c].since = now
           /\ req'[c].op = "Unlock" => lease'[c] = [lease[c] EXCEPT ![req'[c].file] = NotHeld]
           /\ req'[c].op # "Unlock" => lease'[c] = lease[c]
           /\ \/ Refused(c)
              \/ pc'[c] = "read" /\ frame'[c].call = "TryGetLock"
              \/ pc'[c] = "refetch"
              \/ pc'[c] = "write" /\ req'[c].new = NoLock
<1>1. PICK op \in Ops, f \in Files : \E h \in Headers(c, op) :
         /\ Isolated => ~Busy(f)
         /\ req' = [req EXCEPT ![c] = [op |-> op, file |-> f, old |-> h[1],
                                       new |-> h[2], since |-> now]]
         /\ Fetch(c, op, f, h[2])
         /\ lease' = IF op = "Unlock"
                     THEN [lease EXCEPT ![c][f] = NotHeld] ELSE lease
  BY DEF Arrive
<1>2. PICK h \in Headers(c, op) :
         /\ Isolated => ~Busy(f)
         /\ req' = [req EXCEPT ![c] = [op |-> op, file |-> f, old |-> h[1],
                                       new |-> h[2], since |-> now]]
         /\ Fetch(c, op, f, h[2])
         /\ lease' = IF op = "Unlock"
                     THEN [lease EXCEPT ![c][f] = NotHeld] ELSE lease
  BY <1>1
<1>3. h[1] \in IdsOf(c) \cup {NoLock} /\ h[2] \in IdsOf(c) \cup {NoLock}
  BY DEF Headers
<1>4. req'[c] = [op |-> op, file |-> f, old |-> h[1], new |-> h[2], since |-> now]
  BY <1>2 DEF TypeOK
<1>5. lease'[c] = IF op = "Unlock" THEN [lease[c] EXCEPT ![f] = NotHeld] ELSE lease[c]
  BY <1>2 DEF TypeOK
<1>6. \/ Refused(c)
      \/ pc'[c] = "read" /\ frame'[c].call = "TryGetLock"
      \/ pc'[c] = "refetch"
      \/ pc'[c] = "write" /\ h[2] = NoLock
  <2>1. ThreadType
    BY DEF TypeOK, ThreadType
  <2>2. CASE content[f] = "gone"
    BY <1>2, <2>1, <2>2, MoveOutcome DEF Fetch, Refused
  <2>3. CASE content[f] # "gone" /\ op # "PutFile"
    BY <1>2, <2>1, <2>3, MoveOutcome DEF Fetch, At
  <2>4. CASE content[f] # "gone" /\ op = "PutFile" /\ h[2] # NoLock
    BY <1>2, <2>1, <2>4, MoveOutcome DEF Fetch
  <2>5. CASE content[f] = "empty" /\ op = "PutFile" /\ h[2] = NoLock
    BY <1>2, <2>1, <2>5, MoveOutcome DEF Fetch
  <2>6. CASE content[f] \notin {"gone", "empty"} /\ op = "PutFile" /\ h[2] = NoLock
    BY <1>2, <2>1, <2>6, MoveOutcome DEF Fetch, Refused
  <2> QED
    BY <2>2, <2>3, <2>4, <2>5, <2>6
<1>7. Isolated => ~Busy(req'[c].file)
  <2>1. req'[c].file = f
    BY <1>4
  <2> QED
    BY <1>2, <2>1
<1> QED
  BY <1>3, <1>4, <1>5, <1>6, <1>7 DEF Arrive

LEMMA ProviderOutcome ==
    ASSUME TypeOK, NEW c \in Clients
    PROVE  /\ Refetch(c) => Refused(c) \/ (pc'[c] = "read" /\ frame'[c].call = "TryGetLock")
           /\ TryGetValue(c) =>
                \/ /\ Present(locks[req[c].file])
                   /\ At(c, "check", frame[c].call, locks[req[c].file])
                \/ frame[c].call = "TryGetLock" /\ At(c, "handle", "none", NoEntry)
                \/ Refused(c)
           /\ CheckExpired(c) =>
                \/ Expired(Seen(c)) /\ At(c, "evict", frame[c].call, Seen(c))
                \/ /\ ~Expired(Seen(c)) /\ frame[c].call = "TryGetLock"
                   /\ At(c, "handle", "none", Seen(c))
                \/ frame[c].call # "TryGetLock" /\ At(c, "stamp", frame[c].call, Seen(c))
                \/ Refused(c)
           /\ Evict(c) => At(c, "handle", "none", NoEntry) \/ Refused(c)
           /\ Stamp(c) => At(c, "store", frame[c].call, Seen(c)) /\ frame'[c].date = now
           /\ TryAdd(c) \/ TryUpdate(c) =>
                \/ Refused(c) /\ UNCHANGED locks
                \/ /\ pc'[c] = IF req[c].op = "PutFile" THEN "write" ELSE "reply"
                   /\ locks' = [locks EXCEPT ![req[c].file] = NewEntry(c)]
           /\ RemoveLock(c) => pc'[c] = "reply"
<1>1. ThreadType
  BY DEF TypeOK, ThreadType
<1>2. /\ frame[c] \in Frame /\ Seen(c) \in Entry /\ NoEntry \in Entry /\ ~Present(NoEntry)
      /\ locks[req[c].file] \in Entry
  BY EntryTypes DEF TypeOK, Seen, Frame, Request, Present, NoEntry
<1>3. Refetch(c) => Refused(c) \/ (pc'[c] = "read" /\ frame'[c].call = "TryGetLock")
  BY <1>1, MoveOutcome DEF Refetch, Refused, At
<1>4. ASSUME TryGetValue(c)
      PROVE  \/ /\ Present(locks[req[c].file])
                /\ At(c, "check", frame[c].call, locks[req[c].file])
             \/ frame[c].call = "TryGetLock" /\ At(c, "handle", "none", NoEntry)
             \/ Refused(c)
  <2>1. CASE Present(locks[req[c].file])
    <3>1. Enter(c, "check", [frame[c] EXCEPT !.seen = locks[req[c].file]])
      BY <1>4, <2>1 DEF TryGetValue
    <3>2. pc'[c] = "check" /\ frame'[c] = [frame[c] EXCEPT !.seen = locks[req[c].file]]
      BY <1>1, <3>1, MoveOutcome
    <3> QED
      BY <1>2, <2>1, <3>2 DEF At, Frame
  <2>2. CASE ~Present(locks[req[c].file])
    BY <1>1, <1>2, <1>4, <2>2, CallOutcome DEF TryGetValue
  <2> QED
    BY <2>1, <2>2
<1>5. ASSUME CheckExpired(c)
      PROVE  \/ Expired(Seen(c)) /\ At(c, "evict", frame[c].call, Seen(c))
             \/ /\ ~Expired(Seen(c)) /\ frame[c].call = "TryGetLock"
                /\ At(c, "handle", "none", Seen(c))
             \/ frame[c].call # "TryGetLock" /\ At(c, "stamp", frame[c].call, Seen(c))
             \/ Refused(c)
  <2>1. CASE Expired(Seen(c))
    <3>1. Goto(c, "evict")
      BY <1>5, <2>1 DEF CheckExpired, Seen
    <3>2. pc'[c] = "evict" /\ frame'[c] = frame[c]
      BY <1>1, <3>1, MoveOutcome
    <3> QED
      BY <2>1, <3>2 DEF At, Seen
  <2>2. CASE ~Expired(Seen(c))
    <3>1. Returned(c, Seen(c))
      BY <1>5, <2>2 DEF CheckExpired, Seen
    <3> QED
      BY <1>1, <1>2, <2>2, <3>1, CallOutcome
  <2> QED
    BY <2>1, <2>2
<1>6. Evict(c) => At(c, "handle", "none", NoEntry) \/ Refused(c)
  BY <1>1, <1>2, CallOutcome DEF Evict
<1>7. ASSUME Stamp(c)
      PROVE  At(c, "store", frame[c].call, Seen(c)) /\ frame'[c].date = now
  <2>1. Enter(c, "store", [frame[c] EXCEPT !.date = now])
    BY <1>7 DEF Stamp
  <2>2. pc'[c] = "store" /\ frame'[c] = [frame[c] EXCEPT !.date = now]
    BY <1>1, <2>1, MoveOutcome
  <2> QED
    BY <1>2, <2>2 DEF At, Seen, Frame
<1>8. TryAdd(c) \/ TryUpdate(c) =>
        \/ Refused(c) /\ UNCHANGED locks
        \/ /\ pc'[c] = IF req[c].op = "PutFile" THEN "write" ELSE "reply"
           /\ locks' = [locks EXCEPT ![req[c].file] = NewEntry(c)]
  BY <1>1, CallOutcome DEF TryAdd, Vacant, TryUpdate, AsSeen
<1>9. RemoveLock(c) => pc'[c] = "reply"
  BY <1>1, MoveOutcome, CallOutcome DEF RemoveLock, Refused
<1> QED
  BY <1>3, <1>4, <1>5, <1>6, <1>7, <1>8, <1>9

\* Where a handler goes once it has the lock it read; it touches nothing else.
HandlerGoesOn(c) ==
    \/ Refused(c)
    \/ req[c].op = "GetLock" /\ pc'[c] = "reply"
    \/ OwnSeen(c) /\ req[c].new # NoLock /\ At(c, "read", "RefreshLock", Seen(c))
    \/ /\ req[c].op \in {"Lock", "PutFile"} /\ req[c].new # NoLock
       /\ ~Present(Seen(c)) /\ At(c, "stamp", "AddLock", Seen(c))
    \/ OwnSeen(c) /\ req[c].op = "Unlock" /\ pc'[c] = "remove"
    \/ req[c].op = "RenameFile" /\ pc'[c] = "rename"
    \/ req[c].op = "DeleteFile" /\ pc'[c] = "delete"

LEMMA ComparedOutcome ==
    ASSUME TypeOK, NEW c \in Clients, NEW id \in IdsOf(c) \cup {NoLock},
           NEW ACTION Matched, Compared(c, id, Matched)
    PROVE  \/ Refused(c)
           \/ OwnSeen(c) /\ id # NoLock /\ Matched
<1>1. ThreadType
  BY DEF TypeOK, ThreadType
<1>2. CASE ComparisonThrows(Seen(c).lockId, id)
  BY <1>1, <1>2, MoveOutcome DEF Compared, Refused
<1>3. CASE ~ComparisonThrows(Seen(c).lockId, id) /\ AreLocksCompatible(Seen(c).lockId, id)
  BY <1>3 DEF Compared, AreLocksCompatible, ExtractSessionId, OwnSeen, Present, IdsOf
<1>4. CASE ~ComparisonThrows(Seen(c).lockId, id) /\ ~AreLocksCompatible(Seen(c).lockId, id)
  BY <1>1, <1>4, CallOutcome DEF Compared
<1> QED
  BY <1>2, <1>3, <1>4

LEMMA HandlerOutcome ==
    ASSUME TypeOK, NEW c \in Clients, RequestInv(c),
           \/ HandleGetLock(c) \/ HandleLockOrPut(c) \/ HandleRelock(c)
           \/ HandleUnlock(c) \/ HandleRefreshLock(c)
           \/ HandleRenameFile(c) \/ HandleDeleteFile(c)
    PROVE  HandlerGoesOn(c)
<1>1. ThreadType
  BY DEF TypeOK, ThreadType
<1>2. req[c].new \in IdsOf(c) \cup {NoLock} /\ req[c].old \in IdsOf(c) \cup {NoLock}
  BY DEF RequestInv
<1>3. CallRefreshLock(c) => At(c, "read", "RefreshLock", Seen(c))
  BY <1>1, MoveOutcome DEF CallRefreshLock
<1>4. LockOrRefresh(c) => HandlerGoesOn(c)
  BY <1>2, <1>3, ComparedOutcome DEF LockOrRefresh, HandlerGoesOn
<1>5. CASE HandleGetLock(c)
  BY <1>1, <1>5, MoveOutcome DEF HandleGetLock, Handling, HandlerGoesOn
<1>6. CASE HandleLockOrPut(c)
  BY <1>1, <1>4, <1>6, MoveOutcome, CallOutcome DEF HandleLockOrPut, Handling, HandlerGoesOn
<1>7. CASE HandleRelock(c)
  <2>1. Present(Seen(c)) =>
          Refused(c) \/ (OwnSeen(c) /\ IF req[c].new = NoLock
                                       THEN LockMismatch(c, NoLock) ELSE CallRefreshLock(c))
    BY <1>2, <1>7, ComparedOutcome DEF HandleRelock
  <2> QED
    BY <1>1, <1>3, <1>7, <2>1, CallOutcome DEF HandleRelock, HandlerGoesOn
<1>8. CASE HandleUnlock(c)
  <2>1. Present(Seen(c)) => Refused(c) \/ (OwnSeen(c) /\ Goto(c, "remove"))
    BY <1>2, <1>8, ComparedOutcome DEF HandleUnlock
  <2> QED
    BY <1>1, <1>8, <2>1, MoveOutcome, CallOutcome DEF HandleUnlock, Handling, HandlerGoesOn
<1>9. CASE HandleRefreshLock(c)
  BY <1>1, <1>4, <1>9, CallOutcome DEF HandleRefreshLock, HandlerGoesOn
<1>10. CASE HandleRenameFile(c) \/ HandleDeleteFile(c)
  BY <1>1, <1>10, MoveOutcome, CallOutcome
  DEF HandleRenameFile, HandleDeleteFile, Handling, HandlerGoesOn
<1> QED
  BY <1>5, <1>6, <1>7, <1>8, <1>9, <1>10

LEMMA StorageOutcome ==
    ASSUME TypeOK, NEW c \in Clients, WriteFile(c) \/ RenameFile(c) \/ DeleteFile(c)
    PROVE  pc'[c] = "reply"
<1>1. ThreadType
  BY DEF TypeOK, ThreadType
<1> QED
  BY <1>1, MoveOutcome DEF WriteFile, RenameFile, DeleteFile

-----------------------------------------------------------------------------
(* Requests keep their shape, for every interleaving.                      *)

LEMMA RequestKept ==
    ASSUME NEW c \in Clients, Step(c), ~Arrive(c), ~Deliver(c)
    PROVE  UNCHANGED <<req, lease, now>>
BY DEF Step, Refetch, TryGetValue, CheckExpired, Evict, Stamp, TryAdd, Vacant, TryUpdate, AsSeen,
       RemoveLock, HandleGetLock, HandleLockOrPut, HandleRelock, HandleUnlock,
       HandleRefreshLock, HandleRenameFile, HandleDeleteFile, Handling, WriteFile,
       RenameFile, DeleteFile

LEMMA StepRequest ==
    ASSUME TypeOK, NEW c \in Clients, RequestInv(c), Step(c)
    PROVE  RequestInv(c)'
<1>1. /\ now \in Nat /\ req[c].since \in Int /\ frame[c].seen.dateCreated \in Int
      /\ Lifetime \in Nat /\ now' = now
  BY MemoryLocksAssumption, StepKeepsTime DEF TypeOK, Time, Request, Frame, Entry
<1>2. ~Present(NoEntry) /\ Seen(c) = frame[c].seen
  BY DEF Present, NoEntry, Seen
<1>3. CASE Arrive(c)
  <2>1. /\ req'[c].new \in IdsOf(c) \cup {NoLock} /\ req'[c].old \in IdsOf(c) \cup {NoLock}
        /\ req'[c].since = now
        /\ \/ pc'[c] \in {"reply", "refetch", "write"}
           \/ pc'[c] = "read" /\ frame'[c].call = "TryGetLock"
    BY <1>3, ArriveOutcome DEF Refused
  <2> QED
    BY <1>1, <2>1 DEF RequestInv, Refreshing
<1>4. CASE Deliver(c)
  <2>1. pc'[c] = "idle" /\ req'[c] = NoRequest
    BY <1>4 DEF Deliver, TypeOK
  <2> QED
    BY <1>1, <2>1 DEF RequestInv, Refreshing, NoRequest
<1>5. ASSUME req' = req,
             \/ Refused(c) \/ pc'[c] = "reply" \/ pc'[c] = "write"
             \/ pc'[c] = "remove" /\ req[c].op = "Unlock"
             \/ pc'[c] = "rename" /\ req[c].op = "RenameFile"
             \/ pc'[c] = "delete" /\ req[c].op = "DeleteFile"
             \/ pc'[c] = "read" /\ frame'[c].call = "TryGetLock"
             \/ At(c, "handle", "none", NoEntry)
      PROVE  RequestInv(c)'
  BY <1>1, <1>2, <1>5 DEF RequestInv, Refreshing, Refused, At
<1>6. CASE \/ Refetch(c) \/ Evict(c) \/ TryAdd(c) \/ TryUpdate(c) \/ RemoveLock(c)
           \/ WriteFile(c) \/ RenameFile(c) \/ DeleteFile(c)
  <2>1. req' = req
    BY <1>6 DEF Refetch, Evict, TryAdd, Vacant, TryUpdate, AsSeen, RemoveLock, WriteFile, RenameFile, DeleteFile
  <2> QED
    BY <1>5, <1>6, <2>1, ProviderOutcome, StorageOutcome
<1>7. CASE TryGetValue(c)
  <2>1. req' = req /\ pc[c] = "read"
    BY <1>7 DEF TryGetValue
  <2>2. CASE Present(locks[req[c].file]) /\ At(c, "check", frame[c].call, locks[req[c].file])
    BY <1>1, <2>1, <2>2 DEF RequestInv, Refreshing, At
  <2> QED
    BY <1>5, <1>7, <2>1, <2>2, ProviderOutcome
<1>8. CASE CheckExpired(c)
  <2>1. req' = req /\ pc[c] = "check"
    BY <1>8 DEF CheckExpired
  <2>2. CASE At(c, "evict", frame[c].call, Seen(c))
    BY <1>1, <1>2, <2>1, <2>2 DEF RequestInv, Refreshing, At
  <2>3. CASE ~Expired(Seen(c)) /\ At(c, "handle", "none", Seen(c))
    BY <1>1, <1>2, <2>1, <2>3 DEF RequestInv, Refreshing, At, Expired
  <2>4. CASE frame[c].call # "TryGetLock" /\ At(c, "stamp", frame[c].call, Seen(c))
    BY <1>1, <1>2, <2>1, <2>4 DEF RequestInv, Refreshing, At
  <2> QED
    BY <1>5, <1>8, <2>1, <2>2, <2>3, <2>4, ProviderOutcome
<1>9. CASE Stamp(c)
  <2>1. /\ req' = req /\ pc[c] = "stamp" /\ frame'[c].date = now
        /\ pc'[c] = "store" /\ frame'[c].call = frame[c].call
        /\ frame'[c].seen = frame[c].seen
    BY <1>9, ProviderOutcome DEF Stamp, At, Seen
  <2> QED
    BY <1>1, <2>1 DEF RequestInv, Refreshing
<1>10. CASE \/ HandleGetLock(c) \/ HandleLockOrPut(c) \/ HandleRelock(c)
            \/ HandleUnlock(c) \/ HandleRefreshLock(c)
            \/ HandleRenameFile(c) \/ HandleDeleteFile(c)
  <2>1. req' = req /\ HandlerGoesOn(c)
    BY <1>10, HandlerOutcome
    DEF HandleGetLock, HandleLockOrPut, HandleRelock, HandleUnlock, HandleRefreshLock,
        HandleRenameFile, HandleDeleteFile, Handling
  <2>2. CASE req[c].new # NoLock /\ At(c, "read", "RefreshLock", Seen(c))
    BY <1>1, <2>1, <2>2 DEF RequestInv, Refreshing, At
  <2>3. CASE /\ req[c].op \in {"Lock", "PutFile"} /\ req[c].new # NoLock
             /\ At(c, "stamp", "AddLock", Seen(c))
    BY <1>1, <2>1, <2>3 DEF RequestInv, Refreshing, At
  <2> QED
    BY <1>5, <2>1, <2>2, <2>3 DEF HandlerGoesOn
<1> QED
  BY <1>3, <1>4, <1>6, <1>7, <1>8, <1>9, <1>10 DEF Step

AllRequestsOK == \A c \in Clients : RequestInv(c)

LEMMA NextRequests ==
    ASSUME TypeOK, AllRequestsOK, [Next]_vars
    PROVE  AllRequestsOK'
<1>1. CASE UNCHANGED vars
  BY <1>1 DEF AllRequestsOK, RequestInv, Refreshing, vars
<1>2. CASE Tick
  <2>1. now \in Int /\ now' = now + 1 /\ \A c \in Clients : req[c].since \in Int
    BY <1>2 DEF Tick, TypeOK, Time, Request
  <2> QED
    BY <1>2, <2>1 DEF Tick, AllRequestsOK, RequestInv, Refreshing
<1>3. ASSUME NEW c \in Clients, Step(c) PROVE AllRequestsOK'
  BY <1>3, StepRequest, StepKeeps, StepKeepsTime
  DEF AllRequestsOK, OthersKept, RequestInv, Refreshing
<1> QED
  BY <1>1, <1>2, <1>3 DEF Next

LEMMA RequestsCorrect == Spec => []AllRequestsOK
<1>1. Init => AllRequestsOK
  <2> SUFFICES ASSUME Init, NEW c \in Clients PROVE RequestInv(c)
    BY DEF AllRequestsOK
  <2>1. req[c] = NoRequest /\ pc[c] = "idle" /\ now = 0
    BY DEF Init
  <2> QED
    BY <2>1 DEF RequestInv, Refreshing, NoRequest
<1>2. TypeOK /\ AllRequestsOK /\ [Next]_vars => AllRequestsOK'
  BY NextRequests
<1> QED
  BY <1>1, <1>2, TypeCorrect, PTL DEF Spec

\* TryGetLock hides expired locks: a lock that had expired before the request
\* came in never decides it, however long the threads are held up.
THEOREM ExpiryIsSeen == Spec => []ExpiredLockNeverDecides
<1>1. TypeOK /\ AllRequestsOK => ExpiredLockNeverDecides
  BY MemoryLocksAssumption
  DEF ExpiredLockNeverDecides, AllRequestsOK, RequestInv, TypeOK, Frame, Entry, Request, Time
<1> QED
  BY <1>1, TypeCorrect, RequestsCorrect, PTL

\* Neither RefreshLock nor unlock-and-relock puts back a lock that was removed
\* while the request was under way: TryUpdate finds no entry to replace.
THEOREM RemovedStaysRemoved == Spec => RefreshNeverResurrects
<1>1. ASSUME TypeOK, AllRequestsOK, [Next]_vars, NEW f \in Files,
             ~Present(locks[f]), Present(locks'[f])
      PROVE  \E c \in Clients : frame[c].call = "AddLock" /\ pc'[c] # pc[c]
  <2>1. PICK c \in Clients : Step(c) /\ locks' # locks
    BY <1>1 DEF Next, Tick, vars
  <2>2. ~Present(NoEntry) /\ req[c].file \in Files /\ RequestInv(c)
    BY <1>1 DEF Present, NoEntry, TypeOK, Request, AllRequestsOK
  <2>3. pc[c] = "store" /\ ~Present(locks[req[c].file])
    BY <1>1, <2>1, <2>2, LocksMove DEF TypeOK
  <2>4. frame[c].call = "AddLock"
    BY <1>1, <2>1, <2>2, <2>3, LocksMove DEF RequestInv, Refreshing, TypeOK
  <2>5. req[c].op \in {"Lock", "PutFile"}
    BY <2>2, <2>3, <2>4 DEF RequestInv
  <2>6. TryAdd(c)
    BY <2>1, <2>3, <2>4, <2>5 DEF Step, Arrive, Refetch, TryGetValue, CheckExpired, Evict, Stamp,
       TryUpdate, AsSeen, RemoveLock, HandleGetLock, HandleLockOrPut, HandleRelock, HandleUnlock,
       HandleRefreshLock, HandleRenameFile, HandleDeleteFile, Handling, WriteFile,
       RenameFile, DeleteFile, Deliver
  <2>7. pc'[c] # "store"
    BY <1>1, <2>6, ProviderOutcome DEF Refused
  <2> QED
    BY <2>3, <2>4, <2>7
<1>2. TypeOK /\ AllRequestsOK /\ [Next]_vars =>
        [\A f \in Files : ~Present(locks[f]) /\ Present(locks'[f]) =>
           \E c \in Clients : frame[c].call = "AddLock" /\ pc'[c] # pc[c]]_vars
  BY <1>1
<1> QED
  BY <1>2, TypeCorrect, RequestsCorrect, PTL DEF Spec, RefreshNeverResurrects
=============================================================================
