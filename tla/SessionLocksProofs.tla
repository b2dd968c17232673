------------------------- MODULE SessionLocksProofs -------------------------
(***************************************************************************)
(* Theorems about SessionLocks, for all values of its constants.           *)
(***************************************************************************)
EXTENDS SessionLocks, TLAPS

ThreadOK == thread \in [Threads -> Thread] /\ LocalsFit

LEMMA BecomeOK ==
    ASSUME ThreadOK, NEW t \in Threads, NEW r \in Thread, Fits(t, r), Become(t, r)
    PROVE  ThreadOK'
BY DEF ThreadOK, LocalsFit, Become

LEMMA IdleOK == Idle \in Thread /\ \A t \in Threads : Fits(t, Idle)
<1>1. (CHOOSE g \in Files : TRUE) \in Files
  BY SessionLocksAssumption
<1>2. Idle \in Thread
  BY <1>1, SessionLocksAssumption DEF Idle, Thread, Stamp, Time, Absent
<1> QED
  BY <1>2 DEF Idle, Fits

LEMMA AnswerOK ==
    ASSUME ThreadOK, NEW t \in Threads, Answer(t)
    PROVE  ThreadOK'
BY IdleOK, BecomeOK DEF Answer

LEMMA CallForOK ==
    ASSUME ThreadOK, NEW t \in Sessions,
           NEW method \in {"AddLock", "RefreshLock", "RemoveLock"},
           NEW label \in {"map", "get"}, CallFor(t, method, label)
    PROVE  ThreadOK'
<1>1. t \in Threads /\ t \notin Cleaners
  BY SessionLocksAssumption DEF Threads
<1>2. PICK r \in Thread : r = thread[t]
  BY <1>1 DEF ThreadOK
<1> DEFINE q == [r EXCEPT !.at = label, !.method = method,
                          !.table = NoTable, !.seen = Absent]
<1>3. q \in Thread
  BY ZenonT(60) DEF Thread, Stamp
<1>4. Fits(t, q)
  BY <1>1 DEF Thread, Fits
<1> QED
  BY <1>1, <1>2, <1>3, <1>4, BecomeOK DEF CallFor

LEMMA HandleOK ==
    ASSUME ThreadOK, NEW t \in Sessions, NEW s, Handle(t, s)
    PROVE  ThreadOK'
BY CallForOK, AnswerOK DEF Handle, Threads

\* The dictionaries and the clock, which threads share.
SharedOK ==
    /\ fileLocks \in [Files -> Tables \cup {NoTable}]
    /\ tables \in [Tables -> [Sessions -> Stamp]]
    /\ sessionToUser \in [Sessions -> Users \cup {NoUser}]
    /\ now \in Time

IInv == SharedOK /\ ThreadOK

LEMMA InitOK == Init => IInv
<1> SUFFICES ASSUME Init PROVE IInv
  OBVIOUS
<1>1. SharedOK
  BY SessionLocksAssumption DEF Init, SharedOK, Empty, Stamp, Absent, Time
<1>2. ThreadOK
  BY IdleOK DEF Init, ThreadOK, LocalsFit
<1> QED
  BY <1>1, <1>2 DEF IInv

LEMMA EntryOK ==
    ASSUME SharedOK, NEW t \in Threads, NEW s, NEW date \in Stamp,
           tables' = [tables EXCEPT ![thread[t].table][s] = date]
    PROVE  tables' \in [Tables -> [Sessions -> Stamp]]
BY DEF SharedOK

LEMMA RemoveOK ==
    ASSUME SharedOK, NEW t \in Threads, NEW s, Remove(t, s)
    PROVE  tables' \in [Tables -> [Sessions -> Stamp]]
BY EntryOK DEF Remove, Stamp

LEMMA EmptyOK == Empty \in [Sessions -> Stamp]
BY DEF Empty, Stamp

LEMMA ArriveOK ==
    ASSUME IInv, NEW s \in Sessions, Arrive(s)
    PROVE  IInv'
<1>1. s \in Threads /\ s \notin Cleaners
  BY SessionLocksAssumption DEF Threads
<1>2. PICK op \in OpsOf[s], f \in FilesOf[s] :
         Become(s, [Idle EXCEPT !.at = "get", !.method = "TryGetLock", !.op = op,
                                !.file = f, !.asked = f])
  BY DEF Arrive, Begin
<1>3. f \in Files /\ op \in {"GetLock", "Lock", "RefreshLock", "Unlock"}
  BY SessionLocksAssumption
<1>4. PICK r \in Thread : r = Idle
  BY IdleOK
<1> DEFINE q == [r EXCEPT !.at = "get", !.method = "TryGetLock", !.op = op,
                          !.file = f, !.asked = f]
<1>5. q \in Thread
  BY <1>3, ZenonT(60) DEF Thread
<1>6. Fits(s, q)
  BY <1>1 DEF Thread, Fits
<1>7. ThreadOK'
  BY <1>1, <1>2, <1>4, <1>5, <1>6, BecomeOK DEF IInv
<1> QED
  BY <1>7 DEF Arrive, Begin, IInv, SharedOK

LEMMA CleanupArrivesOK ==
    ASSUME IInv, NEW t \in Cleaners, ForceSaveAndCleanupUserSessions(t)
    PROVE  IInv'
<1>1. t \in Threads
  BY DEF Threads
<1>2. PICK u \in Users :
         Become(t, [Idle EXCEPT !.at = "visit", !.op = "Cleanup",
                                !.method = "CleanupStaleSessionsForUser",
                                !.user = u, !.todo = Files])
  BY DEF ForceSaveAndCleanupUserSessions, Begin
<1>3. PICK r \in Thread : r = Idle
  BY IdleOK
<1> DEFINE q == [r EXCEPT !.at = "visit", !.op = "Cleanup",
                          !.method = "CleanupStaleSessionsForUser",
                          !.user = u, !.todo = Files]
<1>4. q \in Thread
  BY DEF Thread
<1>5. Fits(t, q)
  BY DEF Thread, Fits
<1>6. ThreadOK'
  BY <1>1, <1>2, <1>3, <1>4, <1>5, BecomeOK DEF IInv
<1> QED
  BY <1>6 DEF ForceSaveAndCleanupUserSessions, Begin, IInv, SharedOK

-----------------------------------------------------------------------------
(* Every step of a thread at work keeps both parts.                        *)

\* Only sessions come to the points where TryGetLock and AddLock work.
LEMMA SessionAt ==
    ASSUME ThreadOK, NEW t \in Threads,
           \/ thread[t].at \notin {"idle", "visit", "match", "take", "unmap",
                                   "isEmpty", "drop"}
           \/ thread[t].method = "TryGetLock"
    PROVE  t \in Sessions
BY DEF ThreadOK, LocalsFit, Fits, Threads

\* A thread that goes on with its locals, to a point they fit.
LEMMA GoOK ==
    ASSUME ThreadOK, NEW t \in Threads, NEW label, Go(t, label),
           \/ label \in {"drop", "visit"}
           \/ label \in {"probe", "first", "isEmpty", "get", "unlist"} /\ t \in Sessions
           \/ label = "isEmpty",
           label \in {"isEmpty", "first", "probe", "drop"} => thread[t].table \in Tables,
           label = "probe" => thread[t].method \in {"AddLock", "RefreshLock"}
    PROVE  ThreadOK'
<1>1. PICK r \in Thread : r = thread[t] /\ Fits(t, r)
  BY DEF ThreadOK, LocalsFit
<1> DEFINE q == [r EXCEPT !.at = label]
<1>2. q \in Thread
  BY DEF Thread
<1>3. t \in Sessions => t \notin Cleaners
  BY SessionLocksAssumption
<1>4. Fits(t, q)
  BY <1>1, <1>3 DEF Thread, Fits
<1> QED
  BY <1>1, <1>2, <1>4, BecomeOK DEF Go

LEMMA GetTableOK ==
    ASSUME IInv, NEW t \in Threads, GetTable(t)
    PROVE  IInv'
<1>1. /\ ThreadOK /\ SharedOK /\ thread[t] \in Thread
      /\ sessionToUser' = sessionToUser /\ now' = now
  BY DEF GetTable, IInv, ThreadOK
<1>2. t \in Sessions /\ t \notin Cleaners
  BY <1>1, SessionAt, SessionLocksAssumption DEF GetTable, At
<1>3. PICK r \in Thread : r = thread[t]
  BY <1>1
<1> DEFINE d == fileLocks[thread[t].file]
<1>4. d \in Tables \cup {NoTable}
  BY <1>1 DEF SharedOK, Thread
<1>5. CASE d # NoTable
  <2>1. PICK label \in {"list", "probe", "clear"} :
           /\ label = AfterGet(t)
           /\ label = "probe" => thread[t].method = "RefreshLock"
    BY DEF AfterGet
  <2> DEFINE q == [r EXCEPT !.at = label, !.table = d]
  <2>2. /\ Become(t, [thread[t] EXCEPT !.at = AfterGet(t), !.table = d])
        /\ UNCHANGED <<fileLocks, tables>>
    BY <1>5 DEF GetTable
  <2> HIDE DEF d
  <2>3. /\ q \in Thread
        /\ q.at = label /\ q.table = d /\ q.method = r.method
    BY <1>4, ZenonT(60) DEF Thread
  <2> HIDE DEF q
  <2>4. Fits(t, q)
    BY <1>2, <1>3, <1>4, <1>5, <2>1, <2>3 DEF Fits
  <2>5. ThreadOK'
    BY <1>1, <1>3, <2>1, <2>2, <2>3, <2>4, BecomeOK DEF q
  <2> QED
    BY <1>1, <2>2, <2>5 DEF IInv, SharedOK
<1>6. CASE d = NoTable /\ thread[t].method = "AddLock"
  <2>1. PICK e \in Tables :
           /\ tables' = [tables EXCEPT ![e] = Empty]
           /\ fileLocks' = [fileLocks EXCEPT ![thread[t].file] = e]
           /\ Become(t, [thread[t] EXCEPT !.at = "list", !.table = e])
    BY <1>6 DEF GetTable, List
  <2> DEFINE q == [r EXCEPT !.at = "list", !.table = e]
  <2>2. q \in Thread /\ Fits(t, q)
    BY <1>2 DEF Thread, Fits
  <2>3. ThreadOK'
    BY <1>1, <1>3, <2>1, <2>2, BecomeOK
  <2> QED
    BY <1>1, <2>1, <2>3, EmptyOK DEF IInv, SharedOK
<1>7. CASE d = NoTable /\ thread[t].method # "AddLock"
  <2>1. ThreadOK'
    BY <1>1, <1>2, <1>7, HandleOK, AnswerOK DEF GetTable, NotFound
  <2> QED
    BY <1>1, <1>7, <2>1 DEF GetTable, IInv, SharedOK
<1> QED
  BY <1>5, <1>6, <1>7

LEMMA ListExpiredOK ==
    ASSUME IInv, NEW t \in Threads, ListExpired(t)
    PROVE  IInv'
<1>1. /\ ThreadOK /\ SharedOK
      /\ tables' = tables /\ fileLocks' = fileLocks
      /\ sessionToUser' = sessionToUser /\ now' = now
  BY DEF ListExpired, IInv
<1>2. t \in Sessions /\ t \notin Cleaners
  BY <1>1, SessionAt, SessionLocksAssumption DEF ListExpired, At
<1>3. PICK r \in Thread : r = thread[t] /\ Fits(t, r)
  BY <1>1 DEF ThreadOK, LocalsFit
<1> DEFINE D == {s \in Listed(thread[t].table) : Expired(tables[thread[t].table][s])}
           q == [r EXCEPT !.at = "purge", !.doomed = D]
<1>4. D \in SUBSET Sessions
  BY DEF Listed
<1>5. r.at = "list" /\ thread' = [thread EXCEPT ![t] = q]
  BY <1>3 DEF ListExpired, Become, At
<1> HIDE DEF D
<1>6. q \in Thread /\ Fits(t, q)
  BY <1>2, <1>3, <1>4, <1>5, ZenonT(60) DEF Thread, Fits
<1>7. ThreadOK'
  BY <1>1, <1>5, <1>6, BecomeOK DEF Become
<1> QED
  BY <1>1, <1>7 DEF IInv, SharedOK

LEMMA PurgeExpiredOK ==
    ASSUME IInv, NEW t \in Threads, PurgeExpired(t)
    PROVE  IInv'
<1>1. /\ ThreadOK /\ SharedOK /\ thread[t].at = "purge"
      /\ fileLocks' = fileLocks /\ sessionToUser' = sessionToUser /\ now' = now
  BY DEF PurgeExpired, IInv, At
<1>2. t \in Sessions /\ t \notin Cleaners
  BY <1>1, SessionAt, SessionLocksAssumption
<1>3. PICK r \in Thread : r = thread[t] /\ Fits(t, r)
  BY <1>1 DEF ThreadOK, LocalsFit
<1>4. thread[t].table \in Tables
  BY <1>1, <1>3 DEF Fits
<1>5. CASE thread[t].doomed = {}
  <2>1. ThreadOK'
    BY <1>1, <1>2, <1>4, <1>5, GoOK DEF PurgeExpired
  <2> QED
    BY <1>1, <1>5, <2>1 DEF PurgeExpired, IInv, SharedOK
<1>6. CASE thread[t].doomed # {}
  <2>1. PICK s \in thread[t].doomed :
           /\ Remove(t, s)
           /\ Become(t, [thread[t] EXCEPT !.doomed = @ \ {s}])
    BY <1>6 DEF PurgeExpired, Rest
  <2> DEFINE q == [r EXCEPT !.doomed = r.doomed \ {s}]
  <2>2. q \in Thread /\ Fits(t, q)
    BY <1>3 DEF Thread, Fits
  <2>3. ThreadOK'
    BY <1>1, <1>3, <2>1, <2>2, BecomeOK
  <2>4. tables' \in [Tables -> [Sessions -> Stamp]]
    BY <1>1, <2>1, RemoveOK
  <2> QED
    BY <1>1, <2>3, <2>4 DEF IInv, SharedOK
<1> QED
  BY <1>5, <1>6

LEMMA FirstActiveOK ==
    ASSUME IInv, NEW t \in Threads, FirstActive(t)
    PROVE  IInv'
<1>1. /\ ThreadOK /\ SharedOK /\ thread[t].at = "first"
      /\ tables' = tables /\ fileLocks' = fileLocks
      /\ sessionToUser' = sessionToUser /\ now' = now
  BY DEF FirstActive, IInv, At
<1>2. t \in Sessions
  BY <1>1, SessionAt
<1>3. thread[t].table \in Tables
  BY <1>1 DEF ThreadOK, LocalsFit, Fits
<1>4. (\E s : Handle(t, s)) \/ Go(t, "isEmpty")
  BY DEF FirstActive
<1>5. ThreadOK'
  BY <1>1, <1>2, <1>3, <1>4, HandleOK, GoOK
<1> QED
  BY <1>1, <1>5 DEF IInv, SharedOK

LEMMA TestEmptyOK ==
    ASSUME IInv, NEW t \in Threads, TestEmpty(t)
    PROVE  IInv'
<1>1. /\ ThreadOK /\ SharedOK /\ thread[t].at = "isEmpty"
      /\ tables' = tables /\ fileLocks' = fileLocks
      /\ sessionToUser' = sessionToUser /\ now' = now
  BY DEF TestEmpty, IInv, At
<1>2. \/ Go(t, "drop") \/ Go(t, "visit")
      \/ thread[t].method = "TryGetLock" /\ Handle(t, NoSession)
  BY DEF TestEmpty
<1>3. thread[t].table \in Tables
  BY <1>1 DEF ThreadOK, LocalsFit, Fits
<1>4. ThreadOK'
  BY <1>1, <1>2, <1>3, SessionAt, HandleOK, GoOK
<1> QED
  BY <1>1, <1>4 DEF IInv, SharedOK

LEMMA DropTableOK ==
    ASSUME IInv, NEW t \in Threads, DropTable(t)
    PROVE  IInv'
<1>1. /\ ThreadOK /\ SharedOK
      /\ tables' = tables /\ sessionToUser' = sessionToUser /\ now' = now
      /\ fileLocks' = [fileLocks EXCEPT ![thread[t].file] = NoTable]
  BY DEF DropTable, IInv
<1>2. \/ Go(t, "visit")
      \/ thread[t].method = "TryGetLock" /\ Handle(t, NoSession)
  BY DEF DropTable
<1>3. ThreadOK'
  BY <1>1, <1>2, SessionAt, HandleOK, GoOK
<1> QED
  BY <1>1, <1>3 DEF IInv, SharedOK

LEMMA MapSessionOK ==
    ASSUME IInv, NEW t \in Threads, MapSession(t)
    PROVE  IInv'
<1>1. /\ ThreadOK /\ SharedOK /\ thread[t].at = "map"
      /\ tables' = tables /\ fileLocks' = fileLocks /\ now' = now
  BY DEF MapSession, IInv, At
<1>2. t \in Sessions /\ t \notin Cleaners
  BY <1>1, SessionAt, SessionLocksAssumption
<1>3. KnownUser(t) \in Users \cup {NoUser}
  BY <1>2, SessionLocksAssumption DEF KnownUser
<1>4. CASE KnownUser(t) # NoUser
  <2>1. PICK r \in Thread, u \in Users : r = thread[t] /\ u = KnownUser(t)
    BY <1>1, <1>3, <1>4 DEF ThreadOK
  <2> DEFINE q == [r EXCEPT !.at = "visit", !.user = u,
                            !.method = "CleanupStaleSessionsForUser", !.todo = Files]
  <2>2. q \in Thread /\ Fits(t, q)
    BY <1>2, ZenonT(60) DEF Thread, Fits
  <2>3. /\ sessionToUser' = [sessionToUser EXCEPT ![t] = u]
        /\ Become(t, q)
    BY <1>4, <2>1 DEF MapSession
  <2>4. ThreadOK'
    BY <1>1, <2>2, <2>3, BecomeOK
  <2> QED
    BY <1>1, <2>3, <2>4 DEF IInv, SharedOK
<1>5. CASE KnownUser(t) = NoUser
  <2>1. Go(t, "get") /\ sessionToUser' = sessionToUser
    BY <1>5 DEF MapSession
  <2>2. ThreadOK'
    BY <1>1, <1>2, <2>1, GoOK
  <2> QED
    BY <1>1, <2>1, <2>2 DEF IInv, SharedOK
<1> QED
  BY <1>4, <1>5

LEMMA ProbeSessionOK ==
    ASSUME IInv, NEW t \in Threads, ProbeSession(t)
    PROVE  IInv'
<1>1. /\ ThreadOK /\ SharedOK /\ thread[t].at = "probe"
      /\ tables' = tables /\ fileLocks' = fileLocks
      /\ sessionToUser' = sessionToUser /\ now' = now
  BY DEF ProbeSession, IInv, At
<1>2. t \in Sessions /\ t \notin Cleaners
  BY <1>1, SessionAt, SessionLocksAssumption
<1>3. PICK r \in Thread : r = thread[t] /\ Fits(t, r)
  BY <1>1 DEF ThreadOK, LocalsFit
<1>4. r.table \in Tables /\ r.method \in {"AddLock", "RefreshLock"}
  BY <1>1, <1>3 DEF Fits
<1>5. PICK date \in Stamp : date = tables[thread[t].table][t]
  BY <1>1, <1>2, <1>3, <1>4 DEF SharedOK
<1>6. CASE thread[t].method = "AddLock"
  <2> DEFINE q == [r EXCEPT !.at = "stamp", !.seen = date]
  <2>1. q \in Thread /\ Fits(t, q)
    BY <1>2, <1>3, <1>4, <1>6, ZenonT(60) DEF Thread, Fits
  <2>2. Become(t, q)
    BY <1>3, <1>5, <1>6 DEF ProbeSession
  <2> QED
    BY <1>1, <2>1, <2>2, BecomeOK DEF IInv, SharedOK
<1>7. CASE thread[t].method # "AddLock" /\ date = Absent
  <2>1. Answer(t)
    BY <1>5, <1>7 DEF ProbeSession
  <2> QED
    BY <1>1, <2>1, AnswerOK DEF IInv, SharedOK
<1>8. CASE thread[t].method # "AddLock" /\ date # Absent
  <2> DEFINE q == [r EXCEPT !.at = "check", !.seen = date]
  <2>1. q \in Thread /\ Fits(t, q)
    BY <1>2, <1>3, <1>4, <1>8, ZenonT(60) DEF Thread, Fits
  <2>2. Become(t, q)
    BY <1>3, <1>5, <1>8 DEF ProbeSession
  <2> QED
    BY <1>1, <2>1, <2>2, BecomeOK DEF IInv, SharedOK
<1> QED
  BY <1>6, <1>7, <1>8

LEMMA CheckExpiredOK ==
    ASSUME IInv, NEW t \in Threads, CheckExpired(t)
    PROVE  IInv'
<1>1. /\ ThreadOK /\ SharedOK /\ thread[t].at = "check"
      /\ tables' = tables /\ fileLocks' = fileLocks
      /\ sessionToUser' = sessionToUser /\ now' = now
  BY DEF CheckExpired, IInv, At
<1>2. t \in Sessions /\ t \notin Cleaners
  BY <1>1, SessionAt, SessionLocksAssumption
<1>3. PICK r \in Thread : r = thread[t] /\ Fits(t, r)
  BY <1>1 DEF ThreadOK, LocalsFit
<1>4. PICK label \in {"forget", "stamp"} : Go(t, label)
  BY DEF CheckExpired
<1> DEFINE q == [r EXCEPT !.at = label]
<1>5. q \in Thread /\ Fits(t, q)
  BY <1>1, <1>2, <1>3 DEF Thread, Fits
<1> QED
  BY <1>1, <1>3, <1>4, <1>5, BecomeOK DEF Go, IInv, SharedOK

LEMMA ForgetExpiredOK ==
    ASSUME IInv, NEW t \in Threads, ForgetExpired(t)
    PROVE  IInv'
<1>1. ThreadOK'
  BY AnswerOK DEF ForgetExpired, IInv
<1>2. tables' \in [Tables -> [Sessions -> Stamp]]
  BY RemoveOK DEF ForgetExpired, IInv
<1> QED
  BY <1>1, <1>2 DEF ForgetExpired, IInv, SharedOK

LEMMA ReadClockOK ==
    ASSUME IInv, NEW t \in Threads, ReadClock(t)
    PROVE  IInv'
<1>1. /\ ThreadOK /\ SharedOK /\ thread[t].at = "stamp" /\ now \in Time
      /\ tables' = tables /\ fileLocks' = fileLocks
      /\ sessionToUser' = sessionToUser /\ now' = now
  BY DEF ReadClock, IInv, At, SharedOK
<1>2. t \in Sessions /\ t \notin Cleaners
  BY <1>1, SessionAt, SessionLocksAssumption
<1>3. PICK r \in Thread : r = thread[t] /\ Fits(t, r)
  BY <1>1 DEF ThreadOK, LocalsFit
<1> DEFINE q == [r EXCEPT !.at = "store", !.date = now]
<1>4. q \in Thread /\ Fits(t, q)
  BY <1>1, <1>2, <1>3 DEF Thread, Fits
<1>5. Become(t, q)
  BY <1>3 DEF ReadClock, UtcNow
<1> QED
  BY <1>1, <1>4, <1>5, BecomeOK DEF IInv, SharedOK

LEMMA StoreLockOK ==
    ASSUME IInv, NEW t \in Threads, StoreLock(t)
    PROVE  IInv'
<1>1. ThreadOK'
  BY AnswerOK DEF StoreLock, AsSeen, IInv
<1>2. thread[t].date \in Stamp
  BY DEF IInv, ThreadOK, Thread, Stamp
<1>3. tables' \in [Tables -> [Sessions -> Stamp]]
  <2>1. CASE tables[thread[t].table][t] = thread[t].seen
    BY <1>2, <2>1, EntryOK DEF StoreLock, AsSeen, IInv
  <2>2. CASE tables[thread[t].table][t] # thread[t].seen
    BY <2>2 DEF StoreLock, AsSeen, IInv, SharedOK
  <2> QED
    BY <2>1, <2>2
<1> QED
  BY <1>1, <1>3 DEF StoreLock, AsSeen, IInv, SharedOK

LEMMA RemoveLockOK ==
    ASSUME IInv, NEW t \in Threads, ClearTable(t) \/ UnlistTable(t)
    PROVE  IInv'
<1>1. CASE ClearTable(t)
  <2>1. t \in Sessions /\ Go(t, "unlist")
    BY <1>1, SessionAt DEF ClearTable, IInv, At
  <2>2. ThreadOK'
    BY <2>1, GoOK DEF IInv
  <2> QED
    BY <1>1, <2>2, EmptyOK DEF ClearTable, IInv, SharedOK
<1>2. CASE UnlistTable(t)
  <2>1. ThreadOK'
    BY <1>2, AnswerOK DEF UnlistTable, IInv
  <2> QED
    BY <1>2, <2>1 DEF UnlistTable, IInv, SharedOK
<1> QED
  BY <1>1, <1>2

LEMMA VisitFileOK ==
    ASSUME IInv, NEW t \in Threads, VisitFile(t)
    PROVE  IInv'
<1>1. /\ ThreadOK /\ SharedOK
      /\ tables' = tables /\ fileLocks' = fileLocks
      /\ sessionToUser' = sessionToUser /\ now' = now
  BY DEF VisitFile, IInv
<1>2. PICK r \in Thread : r = thread[t] /\ Fits(t, r)
  BY <1>1 DEF ThreadOK, LocalsFit
<1>3. r.at = "visit"
  BY <1>2 DEF VisitFile, At
<1>4. CASE thread[t].todo = {} /\ t \in Cleaners
  <2>1. Answer(t)
    BY <1>4 DEF VisitFile
  <2> QED
    BY <1>1, <2>1, AnswerOK DEF IInv, SharedOK
<1>5. CASE thread[t].todo = {} /\ t \notin Cleaners
  <2> DEFINE q == [r EXCEPT !.at = "get", !.method = "AddLock", !.user = NoUser,
                            !.table = NoTable, !.file = r.asked]
  <2>1. q \in Thread /\ Fits(t, q)
    BY <1>5, ZenonT(60) DEF Thread, Fits
  <2>2. Become(t, q)
    BY <1>2, <1>5 DEF VisitFile
  <2> QED
    BY <1>1, <2>1, <2>2, BecomeOK DEF IInv, SharedOK
<1>6. CASE thread[t].todo # {}
  <2>1. PICK f \in thread[t].todo :
          Become(t, [thread[t] EXCEPT !.todo = @ \ {f}, !.file = f,
                        !.table = fileLocks[f],
                        !.at = IF fileLocks[f] = NoTable THEN "visit" ELSE "match"])
    BY <1>6 DEF VisitFile
  <2>2. f \in Files
    BY <1>2 DEF Thread
  <2>3. PICK d \in Tables \cup {NoTable}, label \in {"visit", "match"} :
           /\ d = fileLocks[f] /\ (label = "match" => d \in Tables)
           /\ label = IF fileLocks[f] = NoTable THEN "visit" ELSE "match"
    BY <1>1, <2>2 DEF SharedOK
  <2> DEFINE q == [r EXCEPT !.todo = r.todo \ {f}, !.file = f, !.table = d, !.at = label]
  <2>4. /\ q \in Thread
        /\ q.at = label /\ q.table = d /\ q.method = r.method
    BY <2>2, ZenonT(60) DEF Thread
  <2>5. thread' = [thread EXCEPT ![t] = q]
    BY <1>2, <2>1, <2>3 DEF Become
  <2> HIDE DEF q
  <2>6. Fits(t, q)
    BY <1>2, <1>3, <2>3, <2>4 DEF Fits
  <2>7. ThreadOK'
    BY <1>1, <2>4, <2>5, <2>6, BecomeOK DEF Become
  <2> QED
    BY <1>1, <2>7 DEF IInv, SharedOK
<1> QED
  BY <1>4, <1>5, <1>6

LEMMA MatchSessionsOK ==
    ASSUME IInv, NEW t \in Threads, MatchSessions(t)
    PROVE  IInv'
<1>1. /\ ThreadOK /\ SharedOK
      /\ tables' = tables /\ fileLocks' = fileLocks
      /\ sessionToUser' = sessionToUser /\ now' = now
  BY DEF MatchSessions, IInv
<1>2. PICK r \in Thread : r = thread[t] /\ Fits(t, r)
  BY <1>1 DEF ThreadOK, LocalsFit
<1> DEFINE D == {s \in Listed(thread[t].table) :
                     OfUser(thread[t].table, s, thread[t].user)}
           q == [r EXCEPT !.at = "take", !.doomed = D]
<1>3. D \in SUBSET Sessions
  BY DEF Listed
<1>4. r.at = "match" /\ thread' = [thread EXCEPT ![t] = q]
  BY <1>2 DEF MatchSessions, Become, At
<1> HIDE DEF D
<1>5. q \in Thread /\ Fits(t, q)
  BY <1>2, <1>3, <1>4, ZenonT(60) DEF Thread, Fits
<1>6. ThreadOK'
  BY <1>1, <1>4, <1>5, BecomeOK DEF Become
<1> QED
  BY <1>1, <1>6 DEF IInv, SharedOK

LEMMA TakeSessionOK ==
    ASSUME IInv, NEW t \in Threads, TakeSession(t)
    PROVE  IInv'
<1>1. /\ ThreadOK /\ SharedOK
      /\ fileLocks' = fileLocks /\ sessionToUser' = sessionToUser /\ now' = now
  BY DEF TakeSession, IInv
<1>2. PICK r \in Thread : r = thread[t] /\ Fits(t, r)
  BY <1>1 DEF ThreadOK, LocalsFit
<1>3. r.at = "take" /\ r.table \in Tables
  BY <1>2 DEF TakeSession, At, Fits
<1>4. CASE thread[t].doomed = {}
  <2>1. Go(t, "isEmpty") /\ tables' = tables
    BY <1>4 DEF TakeSession
  <2>2. ThreadOK'
    BY <1>1, <1>2, <1>3, <2>1, GoOK
  <2> QED
    BY <1>1, <2>1, <2>2 DEF IInv, SharedOK
<1>5. CASE thread[t].doomed # {}
  <2>1. PICK s \in thread[t].doomed :
          /\ Remove(t, s)
          /\ Become(t, [thread[t] EXCEPT !.doomed = @ \ {s}, !.taken = s,
                !.at = IF s \in Listed(thread[t].table) THEN "unmap" ELSE "take"])
    BY <1>5 DEF TakeSession
  <2>2. s \in Sessions
    BY <1>2 DEF Thread
  <2>3. PICK label \in {"unmap", "take"} :
           label = IF s \in Listed(thread[t].table) THEN "unmap" ELSE "take"
    OBVIOUS
  <2> DEFINE q == [r EXCEPT !.doomed = r.doomed \ {s}, !.taken = s, !.at = label]
  <2>4. q \in Thread /\ Fits(t, q)
    BY <1>2, <1>3, <2>2, ZenonT(60) DEF Thread, Fits
  <2>5. thread' = [thread EXCEPT ![t] = q]
    BY <1>2, <2>1, <2>3 DEF Become
  <2>6. ThreadOK'
    BY <1>1, <2>4, <2>5, BecomeOK DEF Become
  <2>7. tables' \in [Tables -> [Sessions -> Stamp]]
    BY <1>1, <2>1, RemoveOK
  <2> QED
    BY <1>1, <2>6, <2>7 DEF IInv, SharedOK
<1> QED
  BY <1>4, <1>5

LEMMA UnmapSessionOK ==
    ASSUME IInv, NEW t \in Threads, UnmapSession(t)
    PROVE  IInv'
<1>1. /\ ThreadOK /\ SharedOK
      /\ tables' = tables /\ fileLocks' = fileLocks /\ now' = now
  BY DEF UnmapSession, IInv
<1>2. PICK r \in Thread : r = thread[t] /\ Fits(t, r)
  BY <1>1 DEF ThreadOK, LocalsFit
<1> DEFINE q == [r EXCEPT !.at = "take", !.taken = NoSession]
<1>3. r.at = "unmap" /\ Become(t, q)
  BY <1>2 DEF UnmapSession, At
<1>4. q \in Thread /\ Fits(t, q)
  BY <1>2, <1>3, ZenonT(60) DEF Thread, Fits
<1>5. ThreadOK'
  BY <1>1, <1>3, <1>4, BecomeOK
<1>6. sessionToUser' = [sessionToUser EXCEPT ![thread[t].taken] = NoUser]
  BY DEF UnmapSession
<1> QED
  BY <1>1, <1>5, <1>6 DEF IInv, SharedOK

LEMMA WorkOK ==
    ASSUME IInv, NEW t \in Threads, Work(t)
    PROVE  IInv'
BY GetTableOK, ListExpiredOK, PurgeExpiredOK, FirstActiveOK, TestEmptyOK,
   DropTableOK, MapSessionOK, ProbeSessionOK, CheckExpiredOK, ForgetExpiredOK,
   ReadClockOK, StoreLockOK, RemoveLockOK, VisitFileOK, MatchSessionsOK,
   TakeSessionOK, UnmapSessionOK
DEF Work

LEMMA NextOK == IInv /\ [Next]_vars => IInv'
<1> SUFFICES ASSUME IInv, [Next]_vars PROVE IInv'
  OBVIOUS
<1>1. CASE Tick
  <2>1. now' \in Time
    BY <1>1, SessionLocksAssumption DEF Tick, IInv, SharedOK, Time
  <2> QED
    BY <1>1, <2>1 DEF Tick, IInv, SharedOK, ThreadOK, LocalsFit
<1>2. CASE \E s \in Sessions : Arrive(s)
  BY <1>2, ArriveOK
<1>3. CASE \E t \in Cleaners : ForceSaveAndCleanupUserSessions(t)
  BY <1>3, CleanupArrivesOK
<1>4. CASE \E t \in Threads : Work(t)
  BY <1>4, WorkOK
<1>5. CASE UNCHANGED vars
  BY <1>5 DEF vars, IInv, SharedOK, ThreadOK, LocalsFit
<1> QED
  BY <1>1, <1>2, <1>3, <1>4, <1>5 DEF Next

\* Every variable keeps its type, and a thread is only where it has the table
\* and the locals for it: no step of the provider follows a missing table.
THEOREM SessionTypes == Spec => []TypeOK
<1>1. IInv => TypeOK
  BY DEF IInv, TypeOK, SharedOK, ThreadOK
<1> QED
  BY <1>1, InitOK, NextOK, PTL DEF Spec

-----------------------------------------------------------------------------
(* Who puts a session into a table.                                        *)

LEMMA OnlyAddLockAdds ==
    ASSUME IInv, NEW t \in Threads, Work(t),
           NEW d \in Tables, NEW s \in Sessions,
           tables[d][s] = Absent, tables'[d][s] # Absent
    PROVE  thread[s].method = "AddLock"
<1>1. /\ tables \in [Tables -> [Sessions -> Stamp]] /\ ThreadOK
      /\ thread[t] \in Thread /\ Fits(t, thread[t])
  BY DEF IInv, SharedOK, ThreadOK, LocalsFit
<1>2. CASE StoreLock(t)
  <2>1. /\ tables' = [tables EXCEPT ![thread[t].table][t] = thread[t].date]
        /\ tables[thread[t].table][t] = thread[t].seen
    BY <1>2 DEF StoreLock, AsSeen
  <2>2. d = thread[t].table /\ s = t
    BY <1>1, <2>1
  <2> QED
    BY <1>1, <1>2, <2>1, <2>2 DEF StoreLock, AsSeen, At, Fits
<1>3. CASE GetTable(t) \/ ClearTable(t)
  BY <1>1, <1>3, ZenonT(60) DEF GetTable, ClearTable, Empty
<1>4. CASE \E r : Remove(t, r)
  BY <1>1, <1>4 DEF Remove
<1> QED
  BY <1>2, <1>3, <1>4
  DEF Work, ListExpired, PurgeExpired, FirstActive, TestEmpty, DropTable, MapSession,
      ProbeSession, CheckExpired, ForgetExpired, ReadClock, UnlistTable, VisitFile,
      MatchSessions, TakeSession, UnmapSession

\* RefreshLock's TryUpdate against cleanups, unlocks and evictions of any number
\* of other sessions: a refresh never puts back a lock that one of them removed.
THEOREM RemovedSessionsStayOut == Spec => RefreshNeverResurrects
<1> DEFINE Stays ==
      \A d \in Tables, s \in Sessions :
         tables[d][s] = Absent /\ tables'[d][s] # Absent =>
            thread[s].method = "AddLock"
<1>1. IInv /\ [Next]_vars => [Stays]_vars
  <2> SUFFICES ASSUME IInv, Next,
                      NEW d \in Tables, NEW s \in Sessions,
                      tables[d][s] = Absent, tables'[d][s] # Absent
               PROVE  thread[s].method = "AddLock"
    OBVIOUS
  <2>1. CASE \E t \in Threads : Work(t)
    BY <2>1, OnlyAddLockAdds
  <2>2. CASE ~\E t \in Threads : Work(t)
    BY <2>2 DEF Next, Tick, Arrive, ForceSaveAndCleanupUserSessions, Begin
  <2> QED
    BY <2>1, <2>2
<1> QED
  BY <1>1, InitOK, NextOK, PTL DEF Spec, RefreshNeverResurrects
-----------------------------------------------------------------------------
(* No two requests that conflict: exclusion.                               *)

\* A step of t that loses sessions or keeps them: it dates none anew.  It leaves
\* its file without a table only if nobody is listed, or gives it its first one.
Loses(t) ==
    /\ now' >= now
    /\ \A d \in Tables, s \in Sessions : tables'[d][s] \in {Absent, tables[d][s]}
    /\ \A f \in Files :
         \/ fileLocks'[f] = fileLocks[f]
         \/ f = thread[t].file /\ ListedFor(f) = {} /\ fileLocks'[f] = NoTable
         \/ /\ f = thread[t].file /\ thread[t].method = "AddLock"
            /\ fileLocks[f] = NoTable
            /\ \E e \in Tables : /\ Unused(e) /\ fileLocks'[f] = e
                                 /\ tables'[e] = Empty

LEMMA LosesFacts ==
    ASSUME IInv, IInv', NEW t, Loses(t), NEW f \in Files
    PROVE  ListedFor(f)' \subseteq ListedFor(f) /\ ActiveIn(f)' \subseteq ActiveIn(f)
<1>1. /\ now \in Nat /\ now' \in Nat /\ now' >= now /\ Lifetime \in Nat
      /\ tables \in [Tables -> [Sessions -> Stamp]]
      /\ fileLocks \in [Files -> Tables \cup {NoTable}]
      /\ NoTable \notin Tables
  BY SessionLocksAssumption DEF IInv, SharedOK, Time, Loses
<1>2. CASE ListedFor(f)' = {}
  BY <1>2 DEF ActiveIn
<1>3. CASE ListedFor(f)' # {}
  <2>1. PICK d \in Tables \cup {NoTable} : d = fileLocks[f]
    BY <1>1
  <2>2. d = fileLocks'[f]
    BY <1>3, <2>1 DEF Loses, ListedFor, Listed, Empty
  <2>3. d \in Tables
    BY <1>3, <2>2 DEF ListedFor
  <2>4. \A s \in Sessions : tables'[d][s] = Absent \/ tables'[d][s] = tables[d][s]
    BY <2>3 DEF Loses
  <2>5. ListedFor(f)' \subseteq ListedFor(f)
    BY <1>1, <2>1, <2>2, <2>3, <2>4 DEF ListedFor, Listed
  <2>6. ASSUME NEW s \in ActiveIn(f)' PROVE s \in ActiveIn(f)
    <3>1. s \in ListedFor(f)' /\ s \in ListedFor(f) /\ s \in Sessions
      BY <2>5, <2>6 DEF ActiveIn, ListedFor, Listed
    <3>2. ~(tables'[d][s] + Lifetime < now')
      BY <2>2, <2>6 DEF ActiveIn, Expired
    <3>3. tables'[d][s] # Absent
      BY <1>1, <2>2, <2>3, <3>1 DEF ListedFor, Listed
    <3>4. PICK date \in Stamp : date = tables[d][s] /\ date = tables'[d][s]
      BY <1>1, <2>3, <2>4, <3>1, <3>3
    <3>5. date \in Int
      BY DEF Stamp, Time, Absent
    <3>6. ~(date + Lifetime < now)
      BY <1>1, <3>2, <3>4, <3>5
    <3> QED
      BY <2>1, <3>1, <3>4, <3>6 DEF ActiveIn, Expired
  <2> QED
    BY <2>5, <2>6
<1> QED
  BY <1>2, <1>3

LEMMA ActiveAreSessions == \A f : ActiveIn(f) \subseteq Sessions
BY DEF ActiveIn, ListedFor, Listed

\* Nothing but the threads changes.
LEMMA StillLoses ==
    ASSUME IInv, UNCHANGED <<fileLocks, tables, now>>, NEW t
    PROVE  Loses(t)
BY DEF IInv, SharedOK, Time, Loses

\* No step gives a table to a second file.
LEMMA TablesStayOwn ==
    ASSUME IInv, IInv', OwnTables, NEW t, Loses(t)
    PROVE  OwnTables'
<1> SUFFICES ASSUME NEW f \in Files, NEW g \in Files,
                    fileLocks'[f] = fileLocks'[g], fileLocks'[f] # NoTable
             PROVE  f = g
  BY DEF OwnTables
<1>1. CASE fileLocks'[f] = fileLocks[f] /\ fileLocks'[g] = fileLocks[g]
  BY <1>1 DEF OwnTables
<1>2. CASE fileLocks'[f] # fileLocks[f]
  BY <1>2 DEF Loses, Unused
<1>3. CASE fileLocks'[g] # fileLocks[g]
  BY <1>3 DEF Loses, Unused
<1> QED
  BY <1>1, <1>2, <1>3

LEMMA RemoveLoses ==
    ASSUME IInv, NEW t \in Threads, NEW s, Remove(t, s), UNCHANGED <<fileLocks, now>>
    PROVE  Loses(t)
<1>1. now \in Nat /\ tables \in [Tables -> [Sessions -> Stamp]]
  BY DEF IInv, SharedOK, Time
<1>2. \A d \in Tables, q \in Sessions : tables'[d][q] \in {Absent, tables[d][q]}
  BY <1>1 DEF Remove
<1> QED
  BY <1>1, <1>2 DEF Loses

LEMMA DropLoses ==
    ASSUME IInv, NEW t \in Threads, UNCHANGED <<tables, now>>,
           fileLocks' = [fileLocks EXCEPT ![thread[t].file] = NoTable],
           ListedFor(thread[t].file) = {}
    PROVE  Loses(t)
<1>1. now \in Nat /\ fileLocks \in [Files -> Tables \cup {NoTable}]
  BY DEF IInv, SharedOK, Time
<1>2. \A f \in Files : \/ fileLocks'[f] = fileLocks[f]
                       \/ f = thread[t].file /\ fileLocks'[f] = NoTable
  BY <1>1
<1> QED
  BY <1>1, <1>2 DEF Loses

\* The request a thread is at work on, and what holds of it.
LEMMA AtWork ==
    ASSUME IInv, ExclusionInv, NEW t \in Threads, ~At(t, "idle")
    PROVE  \E r \in Thread : r = thread[t] /\ Fits(t, r) /\ Carries(t, r)
BY DEF IInv, ThreadOK, LocalsFit, ExclusionInv

\* While a thread is in AddLock, no other one is at work on its file.
LEMMA AddsAlone ==
    ASSUME IInv, ExclusionInv, NEW t \in Threads, NEW u \in Threads,
           ~At(t, "idle"), ~At(u, "idle"),
           thread[t].method = "AddLock", thread[u].file = thread[t].file
    PROVE  u = t
<1>1. PICK r \in Thread : r = thread[t] /\ Carries(t, r)
  BY AtWork
<1>2. PICK q \in Thread : q = thread[u] /\ Carries(u, q)
  BY AtWork
<1>3. r.op = "Lock" /\ t \in Sessions /\ r.file = r.asked
  BY <1>1 DEF Carries, Serves, Knows, Threads
<1>4. CASE Sweeps(q.op)
  BY <1>1, <1>2, <1>3, <1>4 DEF ExclusionInv, Apart, Conflict, Sweeps
<1>5. CASE ~Sweeps(q.op)
  <2>1. u \in Sessions /\ q.file = q.asked /\ q.op # "Cleanup"
    BY <1>2, <1>5 DEF Sweeps, Carries, Serves, Knows, Threads
  <2>2. {r.op, q.op} # {"GetLock"}
    BY <1>3
  <2>3. Conflict(r, q)
    BY <1>1, <1>2, <1>3, <2>1, <2>2 DEF Conflict
  <2> QED
    BY <1>1, <1>2, <2>3 DEF ExclusionInv, Apart
<1> QED
  BY <1>4, <1>5

\* What a thread at work has found out stays true as it goes on in its method.
LEMMA KnowsOn ==
    ASSUME IInv, IInv', NEW t \in Threads, NEW v, Loses(v),
           NEW r \in Thread, NEW q \in Thread,
           Knows(t, r), q.asked = r.asked, q.method = r.method,
           q.file = r.file \/ r.method = "CleanupStaleSessionsForUser",
           q.at \in {"isEmpty", "drop"} /\ q.method = "TryGetLock"
              => r.at \in {"isEmpty", "drop"},
           q.at = "unlist" => r.at = "unlist" /\ q.file = r.file
    PROVE  Knows(t, q)'
<1>1. q.asked \in Files /\ q.file \in Files
  BY DEF Thread
<1>2. PICK f \in Files, g \in Files : f = q.asked /\ g = q.file
  BY <1>1
<1>3. /\ ActiveIn(f)' \subseteq ActiveIn(f) /\ ActiveIn(g)' \subseteq ActiveIn(g)
      /\ ListedFor(g)' \subseteq ListedFor(g)
  BY LosesFacts
<1>4. ActiveIn(q.asked)' \subseteq ActiveIn(q.asked)
  BY <1>2, <1>3
<1>5. /\ ActiveIn(q.file)' \subseteq ActiveIn(q.file)
      /\ ListedFor(q.file)' \subseteq ListedFor(q.file)
  BY <1>2, <1>3
<1> QED
  BY <1>4, <1>5 DEF Knows

\* What another request has found out outlasts a step that dates no session anew.
LEMMA OthersCarryOn ==
    ASSUME IInv, IInv', ExclusionInv, NEW t \in Threads, ~At(t, "idle"), Loses(t),
           NEW u \in Threads, u # t, ~At(u, "idle")
    PROVE  \E r \in Thread : r = thread[u] /\ Carries(u, r)'
<1>1. PICK r \in Thread : r = thread[u] /\ Fits(u, r) /\ Carries(u, r)
  BY AtWork
<1>2. PICK p \in Thread : p = thread[t] /\ Carries(t, p)
  BY AtWork
<1>3. PICK f \in Files : f = r.file
  BY DEF Thread
<1>4. ASSUME f = p.file PROVE r.method # "AddLock" /\ p.method # "AddLock"
  BY <1>1, <1>2, <1>3, <1>4, AddsAlone
<1>5. ASSUME r.at \in AtTable
      PROVE  Current(r)' /\ (r.at = "drop" => Listed(r.table)' = {})
  <2>1. r.table \in Tables /\ r.table # NoTable /\ Current(r)
    BY <1>1, <1>5, SessionLocksAssumption DEF Fits, AtTable, Carries
  <2>2. PICK d \in Tables : d = r.table
    BY <2>1
  <2>3. Listed(d)' \subseteq Listed(d)
    BY DEF Loses, Listed
  <2>4. \/ fileLocks'[f] = d
        \/ r.method # "AddLock" /\ fileLocks'[f] = NoTable /\ Listed(d)' = {}
    <3>1. CASE fileLocks'[f] = fileLocks[f]
      BY <1>3, <2>1, <2>2, <2>3, <3>1 DEF Current
    <3>2. CASE f = p.file /\ ListedFor(f) = {} /\ fileLocks'[f] = NoTable
      BY <1>3, <1>4, <2>1, <2>2, <2>3, <3>2 DEF Current, ListedFor
    <3>3. CASE f = p.file /\ p.method = "AddLock"
      BY <1>4, <3>3
    <3> QED
      BY <1>2, <3>1, <3>2, <3>3 DEF Loses
  <2>5. ASSUME NEW g \in Files, fileLocks'[g] = d PROVE g = f
    <3>1. fileLocks'[g] = fileLocks[g]
      BY <1>1, <2>1, <2>2, <2>5 DEF Loses, Unused
    <3> QED
      BY <1>3, <2>1, <2>2, <2>5, <3>1 DEF Current
  <2>6. Current(r)'
    BY <1>3, <2>2, <2>4, <2>5 DEF Current
  <2>7. r.at = "drop" => Listed(d)' = {}
    BY <1>1, <2>2, <2>3 DEF Carries
  <2> QED
    BY <2>2, <2>6, <2>7
<1>6. u \in Sessions => InMethod(r.at, r.method) /\ Knows(u, r)'
  BY <1>1, KnowsOn DEF Carries
<1>7. Carries(u, r)'
  <2>1. Serves(u, r)' /\ (u \in Sessions => InMethod(r.at, r.method)')
    BY <1>1, <1>6 DEF Carries, Serves, InMethod
  <2>2. r.at = "drop" => r.at \in AtTable
    BY DEF AtTable
  <2> QED
    BY <1>5, <1>6, <2>1, <2>2 DEF Carries, AtTable
<1> QED
  BY <1>1, <1>7

\* A step of one thread at work.
LEMMA OneKeeps ==
    ASSUME IInv, IInv', ExclusionInv, NEW t \in Threads, ~At(t, "idle"), Loses(t),
           NEW q \in Thread, thread' = [thread EXCEPT ![t] = q],
           \/ q.at = "idle"
           \/ /\ q.op = thread[t].op /\ q.asked = thread[t].asked
              /\ Carries(t, q)'
    PROVE  ExclusionInv'
<1>1. thread \in [Threads -> Thread]
  BY DEF IInv, ThreadOK
<1>2. thread'[t] = q /\ \A u \in Threads \ {t} : thread'[u] = thread[u]
  BY <1>1
<1>3. OwnTables' /\ OneActiveSession'
  BY TablesStayOwn, LosesFacts DEF OneActiveSession, ExclusionInv
<1>4. ASSUME NEW u \in Threads, ~At(u, "idle")'
      PROVE  /\ ~At(u, "idle")
             /\ thread'[u].op = thread[u].op /\ thread'[u].asked = thread[u].asked
  BY <1>2, <1>4 DEF At
<1>5. Apart'
  BY <1>4 DEF Apart, Conflict, ExclusionInv
<1>6. ASSUME NEW u \in Threads, ~At(u, "idle")' PROVE Carries(u, thread[u])'
  <2>1. CASE u = t
    BY <1>2, <1>6, <2>1 DEF At, Carries, Serves, Current, Knows
  <2>2. CASE u # t
    <3>1. PICK r \in Thread : r = thread[u] /\ Carries(u, r)'
      BY <1>4, <1>6, <2>2, OthersCarryOn
    <3>2. thread'[u] = r
      BY <1>2, <2>2, <3>1
    <3> QED
      BY <3>1, <3>2 DEF Carries, Serves, Current, Knows
  <2> QED
    BY <2>1, <2>2
<1> QED
  BY <1>3, <1>5, <1>6 DEF ExclusionInv

LEMMA AnswerKeeps ==
    ASSUME IInv, IInv', ExclusionInv, NEW t \in Threads, Loses(t),
           ~At(t, "idle"), Answer(t)
    PROVE  ExclusionInv'
<1>1. PICK q \in Thread : q = Idle /\ q.at = "idle"
  BY IdleOK DEF Idle
<1>2. thread' = [thread EXCEPT ![t] = q]
  BY <1>1 DEF Answer, Become
<1> QED
  BY <1>1, <1>2, OneKeeps

\* The handlers of the controller act on what TryGetLock found.
LEMMA HandleKeeps ==
    ASSUME IInv, IInv', ExclusionInv, NEW t \in Sessions, NEW s, Loses(t),
           ~At(t, "idle"), thread[t].method = "TryGetLock", Handle(t, s),
           ActiveIn(thread[t].file) \subseteq {s}
    PROVE  ExclusionInv'
<1>1. t \in Threads /\ t \notin Cleaners
  BY SessionLocksAssumption DEF Threads
<1>2. PICK r \in Thread : r = thread[t] /\ Carries(t, r)
  BY <1>1, AtWork
<1>3. PICK f \in Files : f = r.file /\ f = r.asked
  BY <1>2 DEF Carries, Knows, Thread
<1>4. ActiveIn(f)' \subseteq ActiveIn(f)
  BY <1>3, LosesFacts
<1>5. ASSUME NEW m \in {"AddLock", "RefreshLock", "RemoveLock"},
             NEW label \in {"map", "get"},
             label = "map" => m = "AddLock",
             m = "AddLock" => s = NoSession /\ r.op = "Lock",
             m = "RefreshLock" => s = t /\ r.op \in {"Lock", "RefreshLock"},
             m = "RemoveLock" => s = t /\ r.op = "Unlock",
             CallFor(t, m, label)
      PROVE  ExclusionInv'
  <2> DEFINE q == [r EXCEPT !.at = label, !.method = m,
                            !.table = NoTable, !.seen = Absent]
  <2>1. q \in Thread
    BY ZenonT(60) DEF Thread, Stamp
  <2>2. /\ q.at = label /\ q.method = m /\ q.file = f /\ q.asked = f
        /\ q.op = r.op
    BY <1>3 DEF Thread
  <2>3. thread' = [thread EXCEPT ![t] = q]
    BY <1>2, <1>5 DEF CallFor, Become
  <2> HIDE DEF q
  <2>4. ActiveIn(f)' \subseteq {t} /\ (m = "AddLock" => ActiveIn(f)' = {})
    BY <1>2, <1>3, <1>4, <1>5, ActiveAreSessions, SessionLocksAssumption
  <2>5. Knows(t, q)'
    <3>1. /\ q.method # "CleanupStaleSessionsForUser" /\ q.file = q.asked
          /\ q.at \notin {"isEmpty", "drop", "unlist"}
      BY <2>2
    <3>2. ActiveIn(q.file)' = ActiveIn(f)' /\ ActiveIn(q.asked)' = ActiveIn(f)'
      BY <2>2
    <3> QED
      BY <2>2, <2>4, <3>1, <3>2 DEF Knows
  <2>6. Serves(t, q)
    BY <1>1, <1>2, <1>5, <2>2 DEF Carries, Serves
  <2>7. Carries(t, q)'
    BY <1>5, <2>2, <2>5, <2>6 DEF Carries, AtTable, InMethod, Serves
  <2> QED
    BY <1>1, <1>2, <1>3, <2>1, <2>2, <2>3, <2>7, OneKeeps
<1> ~(Compatible(t, s) /\ Unlocked(t, s))
  BY SessionLocksAssumption DEF Compatible, Unlocked
<1>6. CASE thread[t].op = "Lock" /\ Unlocked(t, s)
  <2>1. CallFor(t, "AddLock", "map")
    BY <1>6 DEF Handle
  <2>2. s = NoSession /\ r.op = "Lock"
    BY <1>2, <1>6 DEF Unlocked
  <2> QED
    BY <1>5, <2>1, <2>2
<1>7. CASE thread[t].op \in {"Lock", "RefreshLock"} /\ Compatible(t, s)
  <2>1. CallFor(t, "RefreshLock", "get")
    BY <1>7 DEF Handle
  <2>2. s = t /\ r.op \in {"Lock", "RefreshLock"}
    BY <1>2, <1>7 DEF Compatible
  <2> QED
    BY <1>5, <2>1, <2>2
<1>8. CASE thread[t].op = "Unlock" /\ Compatible(t, s)
  <2>1. CallFor(t, "RemoveLock", "get")
    BY <1>8 DEF Handle
  <2>2. s = t /\ r.op = "Unlock"
    BY <1>2, <1>8 DEF Compatible
  <2> QED
    BY <1>5, <2>1, <2>2
<1>9. CASE Answer(t)
  BY <1>1, <1>9, AnswerKeeps
<1>10. \/ thread[t].op = "Lock" /\ Unlocked(t, s)
       \/ thread[t].op \in {"Lock", "RefreshLock"} /\ Compatible(t, s)
       \/ thread[t].op = "Unlock" /\ Compatible(t, s)
       \/ Answer(t)
  BY Zenon DEF Handle
<1> QED
  BY <1>6, <1>7, <1>8, <1>9, <1>10

\* A thread that goes on to a later point of the same method.
LEMMA OnKeeps ==
    ASSUME IInv, IInv', ExclusionInv, NEW t \in Threads, ~At(t, "idle"), Loses(t),
           NEW r \in Thread, r = thread[t], NEW q \in Thread,
           thread' = [thread EXCEPT ![t] = q],
           q.op = r.op, q.asked = r.asked, q.method = r.method,
           q.file = r.file \/ r.method = "CleanupStaleSessionsForUser",
           q.at \in {"isEmpty", "drop"} /\ q.method = "TryGetLock"
              => r.at \in {"isEmpty", "drop"},
           q.at # "unlist",
           q.at \in AtTable => Current(q)',
           q.at = "drop" => Listed(q.table)' = {},
           t \in Sessions => InMethod(q.at, q.method)
    PROVE  ExclusionInv'
<1>1. Carries(t, r)
  BY AtWork
<1>2. t \in Sessions => Knows(t, q)'
  BY <1>1, KnowsOn DEF Carries
<1>3. Carries(t, q)'
  BY <1>1, <1>2 DEF Carries, Serves, InMethod
<1> QED
  BY <1>3, OneKeeps

\* The table a thread works on is its file's as long as the dictionary stays.
LEMMA CurrentOn ==
    ASSUME IInv, IInv', ExclusionInv, NEW t \in Threads, ~At(t, "idle"), Loses(t),
           fileLocks' = fileLocks,
           NEW r \in Thread, r = thread[t], r.at \in AtTable, NEW q \in Thread,
           q.file = r.file, q.table = r.table, q.method = r.method
    PROVE  Current(q)'
<1>1. PICK p \in Thread : p = thread[t] /\ Fits(t, p) /\ Carries(t, p)
  BY AtWork
<1>2. r.table \in Tables /\ Current(r)
  BY <1>1 DEF Fits, AtTable, Carries
<1>3. PICK d \in Tables, f \in Files : d = r.table /\ f = r.file
  BY <1>2 DEF Thread
<1>4. Listed(d)' \subseteq Listed(d)
  BY DEF Loses, Listed
<1> QED
  BY <1>2, <1>3, <1>4 DEF Current

\* Go on with the locals as they are.
LEMMA GoKeeps ==
    ASSUME IInv, IInv', ExclusionInv, UNCHANGED <<fileLocks, tables, now>>,
           NEW t \in Threads, ~At(t, "idle"),
           NEW label \in {"first", "isEmpty", "drop", "visit", "get", "probe",
                          "check", "forget", "stamp"},
           Go(t, label),
           label = "isEmpty" => \/ thread[t].method # "TryGetLock"
                                \/ ActiveIn(thread[t].file) = {},
           label = "drop" => thread[t].at = "isEmpty" /\ Listed(thread[t].table) = {},
           label \in AtTable => thread[t].at \in AtTable,
           t \in Sessions => InMethod(label, thread[t].method)
    PROVE  ExclusionInv'
<1>1. PICK r \in Thread : r = thread[t] /\ Carries(t, r)
  BY AtWork
<1>2. Loses(t)
  BY StillLoses
<1> DEFINE q == [r EXCEPT !.at = label]
<1>3. /\ q \in Thread /\ q.at = label /\ q.method = r.method /\ q.op = r.op
      /\ q.asked = r.asked /\ q.file = r.file /\ q.table = r.table
  BY DEF Thread
<1>4. thread' = [thread EXCEPT ![t] = q]
  BY <1>1 DEF Go, Become
<1> HIDE DEF q
<1>5. q.at \in AtTable => Current(q)'
  BY <1>1, <1>2, <1>3, CurrentOn
<1>6. q.at = "drop" => Listed(q.table)' = {}
  BY <1>1, <1>3 DEF Listed
<1>7. CASE label # "isEmpty" \/ thread[t].method # "TryGetLock"
  BY <1>1, <1>2, <1>3, <1>4, <1>5, <1>6, <1>7, OnKeeps
<1>8. CASE label = "isEmpty" /\ thread[t].method = "TryGetLock"
  <2>1. PICK f \in Files : f = r.file
    BY DEF Thread
  <2>2. ActiveIn(f)' = {}
    BY <1>1, <1>2, <1>8, <2>1, LosesFacts
  <2>3. ActiveIn(q.file)' = {}
    BY <1>3, <2>1, <2>2
  <2>4. t \in Sessions => Knows(t, q)'
    BY <1>1, <1>3, <1>8, <2>3 DEF Knows, Carries
  <2>5. Carries(t, q)'
    BY <1>1, <1>3, <1>5, <1>6, <2>4 DEF Carries, Serves
  <2> QED
    BY <1>1, <1>2, <1>3, <1>4, <2>5, OneKeeps
<1> QED
  BY <1>7, <1>8

\* A request comes in that conflicts with none in flight.
LEMMA BeginKeeps ==
    ASSUME Isolated, IInv, IInv', ExclusionInv, NEW t \in Threads,
           NEW q \in Thread, Begin(t, q), Carries(t, q)
    PROVE  ExclusionInv'
<1>1. /\ thread \in [Threads -> Thread] /\ thread' = [thread EXCEPT ![t] = q]
      /\ UNCHANGED <<fileLocks, tables, sessionToUser, now>> /\ At(t, "idle")
  BY DEF IInv, ThreadOK, Begin, Become
<1>2. thread'[t] = q /\ \A u \in Threads \ {t} : thread'[u] = thread[u]
  BY <1>1
<1>3. ASSUME NEW u \in Threads \ {t}, ~At(u, "idle")
      PROVE  ~Conflict(q, thread[u]) /\ ~Conflict(thread[u], q)
  BY <1>3 DEF Begin, Free, Conflict
<1>4. Apart'
  <2> SUFFICES ASSUME NEW u \in Threads, NEW v \in Threads,
                      thread'[u].at # "idle", thread'[v].at # "idle",
                      Conflict(thread'[u], thread'[v])
               PROVE  u = v
    BY DEF Apart, At
  <2> QED
    BY <1>2, <1>3 DEF At, ExclusionInv, Apart
<1>5. OwnTables' /\ OneActiveSession'
  BY <1>1 DEF ExclusionInv, OwnTables, OneActiveSession, ActiveIn, ListedFor, Listed, Expired
<1>6. ASSUME NEW u \in Threads, ~At(u, "idle")' PROVE Carries(u, thread[u])'
  <2>1. PICK r \in Thread : r = thread'[u] /\ Carries(u, r)
    BY <1>2, <1>6, AtWork DEF At
  <2>2. Carries(u, r)'
    BY <1>1, <2>1 DEF Carries, Serves, Current, Knows, ActiveIn, ListedFor, Listed, Expired
  <2> QED
    BY <2>1, <2>2 DEF Carries, Serves, Current, Knows
<1> QED
  BY <1>4, <1>5, <1>6 DEF ExclusionInv

LEMMA ArriveKeeps ==
    ASSUME Isolated, IInv, IInv', ExclusionInv, NEW s \in Sessions, Arrive(s)
    PROVE  ExclusionInv'
<1>1. s \in Threads /\ s \notin Cleaners
  BY SessionLocksAssumption DEF Threads
<1>2. PICK op \in OpsOf[s], f \in FilesOf[s] :
         Begin(s, [Idle EXCEPT !.at = "get", !.method = "TryGetLock", !.op = op,
                               !.file = f, !.asked = f])
  BY DEF Arrive
<1>3. f \in Files /\ op \in {"GetLock", "Lock", "RefreshLock", "Unlock"}
  BY SessionLocksAssumption
<1>4. PICK r \in Thread : r = Idle
  BY IdleOK
<1> DEFINE q == [r EXCEPT !.at = "get", !.method = "TryGetLock", !.op = op,
                          !.file = f, !.asked = f]
<1>5. q \in Thread
  BY <1>3, ZenonT(60) DEF Thread
<1>6. /\ q.at = "get" /\ q.method = "TryGetLock" /\ q.file = f /\ q.asked = f
      /\ q.op = op
  BY DEF Thread
<1>7. Begin(s, q)
  BY <1>2, <1>4
<1> HIDE DEF q
<1>8. Carries(s, q)
  BY <1>1, <1>3, <1>6 DEF Carries, Serves, AtTable, InMethod, Knows
<1> QED
  BY <1>1, <1>5, <1>7, <1>8, BeginKeeps

LEMMA CleanupArrivesKeeps ==
    ASSUME Isolated, IInv, IInv', ExclusionInv,
           NEW t \in Cleaners, ForceSaveAndCleanupUserSessions(t)
    PROVE  ExclusionInv'
<1>1. t \in Threads /\ t \notin Sessions
  BY SessionLocksAssumption DEF Threads
<1>2. PICK u \in Users :
         Begin(t, [Idle EXCEPT !.at = "visit", !.op = "Cleanup",
                               !.method = "CleanupStaleSessionsForUser",
                               !.user = u, !.todo = Files])
  BY DEF ForceSaveAndCleanupUserSessions
<1>3. PICK r \in Thread : r = Idle
  BY IdleOK
<1> DEFINE q == [r EXCEPT !.at = "visit", !.op = "Cleanup",
                          !.method = "CleanupStaleSessionsForUser",
                          !.user = u, !.todo = Files]
<1>4. /\ q \in Thread /\ q.at = "visit" /\ q.op = "Cleanup"
      /\ q.method = "CleanupStaleSessionsForUser"
  BY DEF Thread
<1>5. Begin(t, q)
  BY <1>2, <1>3
<1> HIDE DEF q
<1>6. Carries(t, q)
  BY <1>1, <1>4 DEF Carries, Serves, AtTable
<1> QED
  BY <1>1, <1>4, <1>5, <1>6, BeginKeeps

\* A table fetched for a file is no other file's.
LEMMA FetchedIsCurrent ==
    ASSUME ExclusionInv, fileLocks' = fileLocks, NEW q \in Thread,
           fileLocks[q.file] = q.table, q.table # NoTable
    PROVE  Current(q)'
<1>1. PICK f \in Files, d \in Tables \cup {NoTable} : f = q.file /\ d = q.table
  BY DEF Thread
<1> QED
  BY <1>1 DEF Current, ExclusionInv, OwnTables

LEMMA GetTableKeeps ==
    ASSUME IInv, IInv', ExclusionInv, NEW t \in Threads, GetTable(t)
    PROVE  ExclusionInv'
<1>1. /\ ~At(t, "idle") /\ ThreadOK /\ now' = now
  BY DEF GetTable, At, IInv
<1>2. t \in Sessions
  BY <1>1, SessionAt DEF GetTable, At
<1>3. PICK r \in Thread : r = thread[t] /\ r.at = "get" /\ Carries(t, r)
  BY <1>1, AtWork DEF GetTable, At
<1>4. PICK f \in Files : f = r.file /\ (r.method # "CleanupStaleSessionsForUser" => f = r.asked)
  BY <1>2, <1>3 DEF Carries, Knows, Thread
<1>5. PICK d \in Tables \cup {NoTable} : d = fileLocks[f]
  BY DEF IInv, SharedOK
<1>6. CASE d # NoTable
  <2>1. PICK label \in {"list", "probe", "clear"} :
           /\ label = AfterGet(t)
           /\ label = "list" => r.method \in {"TryGetLock", "AddLock"}
           /\ label = "clear" => r.method = "RemoveLock"
    <3>1. r.method \in {"TryGetLock", "AddLock", "RefreshLock", "RemoveLock"}
      BY <1>2, <1>3 DEF Carries, InMethod
    <3> QED
      BY <1>3, <3>1 DEF AfterGet
  <2> DEFINE q == [r EXCEPT !.at = label, !.table = d]
  <2>2. /\ thread' = [thread EXCEPT ![t] = q]
        /\ UNCHANGED <<fileLocks, tables>>
    BY <1>3, <1>4, <1>5, <1>6, <2>1 DEF GetTable, Become
  <2>3. /\ q \in Thread
        /\ q.at = label /\ q.table = d /\ q.method = r.method
        /\ q.file = r.file /\ q.asked = r.asked /\ q.op = r.op
    BY <1>6, ZenonT(60) DEF Thread
  <2> HIDE DEF q
  <2>4. Loses(t)
    BY <1>1, <2>2, StillLoses
  <2>5. InMethod(q.at, q.method)
    BY <2>1, <2>3 DEF InMethod
  <2>6. Current(q)'
    BY <1>4, <1>5, <1>6, <2>2, <2>3, FetchedIsCurrent
  <2>7. q.at \notin {"isEmpty", "drop", "unlist"}
    BY <2>1, <2>3
  <2> QED
    BY <1>1, <1>3, <2>2, <2>3, <2>4, <2>5, <2>6, <2>7, OnKeeps
<1>7. CASE d = NoTable /\ r.method = "AddLock"
  <2>1. PICK e \in Tables :
           /\ Unused(e)
           /\ tables' = [tables EXCEPT ![e] = Empty]
           /\ fileLocks' = [fileLocks EXCEPT ![f] = e]
           /\ Become(t, [thread[t] EXCEPT !.at = "list", !.table = e])
    BY <1>3, <1>4, <1>5, <1>7 DEF GetTable, List
  <2> DEFINE q == [r EXCEPT !.at = "list", !.table = e]
  <2>2. /\ thread' = [thread EXCEPT ![t] = q]
        /\ q \in Thread
        /\ q.at = "list" /\ q.table = e /\ q.method = r.method
        /\ q.file = f /\ q.asked = f /\ q.op = r.op
    BY <1>3, <1>4, <1>7, <2>1 DEF Thread, Become
  <2> HIDE DEF q
  <2>3. /\ fileLocks \in [Files -> Tables \cup {NoTable}]
        /\ tables \in [Tables -> [Sessions -> Stamp]] /\ now \in Nat
        /\ fileLocks'[f] = e
        /\ tables'[e] = Empty
    BY <2>1 DEF IInv, SharedOK, Time
  <2>4. ListedFor(f)' = {} /\ ActiveIn(f)' = {}
    BY <2>3 DEF ListedFor, Listed, Empty, ActiveIn
  <2>5. ASSUME NEW g \in Files, g # f
        PROVE  fileLocks'[g] = fileLocks[g] /\ fileLocks[g] # e
    BY <2>1, <2>3, <2>5 DEF Unused
  <2>6. Loses(t)
    <3>1. \A b \in Tables, s \in Sessions : tables'[b][s] \in {Absent, tables[b][s]}
      BY <2>1, <2>3 DEF Empty
    <3>2. now' >= now
      BY <1>1, <2>3
    <3>3. f = thread[t].file /\ thread[t].method = "AddLock" /\ fileLocks[f] = NoTable
      BY <1>3, <1>4, <1>5, <1>7
    <3> QED
      BY <2>1, <2>3, <2>5, <3>1, <3>2, <3>3 DEF Loses
  <2>7. Current(q)'
    BY <2>2, <2>3, <2>5 DEF Current
  <2>8. Knows(t, q)'
    <3>1. ActiveIn(q.asked)' = {} /\ ActiveIn(q.file)' = {}
      BY <2>2, <2>4
    <3> QED
      BY <1>7, <2>2, <3>1 DEF Knows
  <2>9. Carries(t, q)'
    BY <1>3, <1>7, <2>2, <2>7, <2>8 DEF Carries, Serves, InMethod
  <2> QED
    BY <1>1, <1>3, <1>4, <1>7, <2>2, <2>6, <2>9, OneKeeps
<1>8. CASE d = NoTable /\ r.method # "AddLock"
  <2>1. NotFound(t) /\ UNCHANGED <<fileLocks, tables>>
    BY <1>3, <1>4, <1>5, <1>8 DEF GetTable
  <2>2. Loses(t)
    BY <1>1, <2>1, StillLoses
  <2>3. ActiveIn(f) = {}
    BY <1>5, <1>8 DEF ActiveIn, ListedFor
  <2>4. CASE r.method = "TryGetLock"
    BY <1>1, <1>2, <1>3, <1>4, <2>1, <2>2, <2>3, <2>4, HandleKeeps DEF NotFound
  <2>5. CASE r.method # "TryGetLock"
    BY <1>1, <1>3, <2>1, <2>2, <2>5, AnswerKeeps DEF NotFound
  <2> QED
    BY <2>4, <2>5
<1> QED
  BY <1>6, <1>7, <1>8

LEMMA ListExpiredKeeps ==
    ASSUME IInv, IInv', ExclusionInv, NEW t \in Threads, ListExpired(t)
    PROVE  ExclusionInv'
<1>1. ~At(t, "idle") /\ UNCHANGED <<fileLocks, tables, now>>
  BY DEF ListExpired, At
<1>2. PICK r \in Thread : r = thread[t] /\ r.at = "list" /\ Carries(t, r)
  BY <1>1, AtWork DEF ListExpired, At
<1> DEFINE D == {s \in Listed(thread[t].table) : Expired(tables[thread[t].table][s])}
           q == [r EXCEPT !.at = "purge", !.doomed = D]
<1>3. D \in SUBSET Sessions
  BY DEF Listed
<1>4. thread' = [thread EXCEPT ![t] = q]
  BY <1>2 DEF ListExpired, Become
<1> HIDE DEF D
<1>5. /\ q \in Thread /\ q.at = "purge" /\ q.method = r.method
      /\ q.file = r.file /\ q.asked = r.asked /\ q.table = r.table /\ q.op = r.op
  BY <1>3 DEF Thread
<1>6. PICK p \in Thread : p = q
  BY <1>5
<1> HIDE DEF q
<1>7. Loses(t)
  BY <1>1, StillLoses
<1>8. Current(p)'
  BY <1>1, <1>2, <1>5, <1>6, <1>7, CurrentOn DEF AtTable
<1>9. t \in Sessions => InMethod(p.at, p.method)
  BY <1>2, <1>5, <1>6 DEF Carries, InMethod
<1> QED
  BY <1>1, <1>2, <1>4, <1>5, <1>6, <1>7, <1>8, <1>9, OnKeeps

LEMMA PurgeExpiredKeeps ==
    ASSUME IInv, IInv', ExclusionInv, NEW t \in Threads, PurgeExpired(t)
    PROVE  ExclusionInv'
<1>1. ~At(t, "idle") /\ UNCHANGED <<fileLocks, now>> /\ thread[t].at = "purge"
  BY DEF PurgeExpired, At
<1>2. PICK r \in Thread : r = thread[t] /\ r.at = "purge" /\ Carries(t, r)
  BY <1>1, AtWork
<1>3. CASE r.doomed = {}
  <2>1. PICK label \in {"probe", "first"} :
          /\ Go(t, label) /\ tables' = tables
          /\ label = IF r.method = "AddLock" THEN "probe" ELSE "first"
    BY <1>2, <1>3 DEF PurgeExpired
  <2>2. t \in Sessions => InMethod(label, r.method)
    BY <1>2, <2>1 DEF Carries, InMethod
  <2> QED
    BY <1>1, <1>2, <2>1, <2>2, GoKeeps DEF AtTable
<1>4. CASE r.doomed # {}
  <2>1. PICK s \in r.doomed :
           /\ Remove(t, s)
           /\ Become(t, [thread[t] EXCEPT !.doomed = @ \ {s}])
    BY <1>2, <1>4 DEF PurgeExpired, Rest
  <2> DEFINE q == [r EXCEPT !.doomed = r.doomed \ {s}]
  <2>2. /\ q \in Thread /\ q.at = "purge" /\ q.method = r.method
        /\ q.file = r.file /\ q.asked = r.asked /\ q.table = r.table /\ q.op = r.op
    BY <1>2 DEF Thread
  <2>3. thread' = [thread EXCEPT ![t] = q]
    BY <1>2, <2>1 DEF Become
  <2> HIDE DEF q
  <2>4. Loses(t)
    BY <1>1, <2>1, RemoveLoses
  <2>5. Current(q)'
    BY <1>1, <1>2, <2>2, <2>4, CurrentOn DEF AtTable
  <2>6. t \in Sessions => InMethod(q.at, q.method)
    BY <1>2, <2>2 DEF Carries, InMethod
  <2> QED
    BY <1>1, <1>2, <2>2, <2>3, <2>4, <2>5, <2>6, OnKeeps
<1> QED
  BY <1>3, <1>4

LEMMA FirstActiveKeeps ==
    ASSUME IInv, IInv', ExclusionInv, NEW t \in Threads, FirstActive(t)
    PROVE  ExclusionInv'
<1>1. /\ ~At(t, "idle") /\ UNCHANGED <<fileLocks, tables, now>>
      /\ thread[t].at = "first" /\ ThreadOK
  BY DEF FirstActive, At, IInv
<1>2. PICK r \in Thread : r = thread[t] /\ Fits(t, r) /\ Carries(t, r)
  BY <1>1, AtWork
<1>3. t \in Sessions
  BY <1>1, SessionAt
<1>4. r.table \in Tables /\ r.method = "TryGetLock" /\ Current(r)
  BY <1>1, <1>2, <1>3 DEF Fits, Carries, InMethod, AtTable
<1>5. PICK f \in Files : f = r.file
  BY DEF Thread
<1> DEFINE active == {s \in Listed(r.table) : ~Expired(tables[r.table][s])}
<1>6. active = ActiveIn(f)
  BY <1>4, <1>5, SessionLocksAssumption DEF ActiveIn, ListedFor, Current
<1>7. \/ active # {} /\ \E s \in active : Handle(t, s)
      \/ active = {} /\ Go(t, "isEmpty")
  BY <1>2 DEF FirstActive
<1> HIDE DEF active
<1>8. Loses(t)
  BY <1>1, StillLoses
<1>9. CASE \E s \in active : Handle(t, s)
  <2>1. PICK s \in active : Handle(t, s)
    BY <1>9
  <2>2. ActiveIn(f) \subseteq {s}
    BY <1>6 DEF ExclusionInv, OneActiveSession
  <2> QED
    BY <1>1, <1>2, <1>3, <1>4, <1>5, <1>8, <2>1, <2>2, HandleKeeps
<1>10. CASE active = {} /\ Go(t, "isEmpty")
  <2>1. InMethod("isEmpty", r.method)
    BY <1>4 DEF InMethod
  <2> QED
    BY <1>1, <1>2, <1>5, <1>6, <1>10, <2>1, GoKeeps DEF AtTable
<1> QED
  BY <1>7, <1>9, <1>10

LEMMA TestEmptyKeeps ==
    ASSUME IInv, IInv', ExclusionInv, NEW t \in Threads, TestEmpty(t)
    PROVE  ExclusionInv'
<1>1. /\ ~At(t, "idle") /\ UNCHANGED <<fileLocks, tables, now>>
      /\ thread[t].at = "isEmpty" /\ ThreadOK
  BY DEF TestEmpty, At, IInv
<1>2. PICK r \in Thread : r = thread[t] /\ Carries(t, r)
  BY <1>1, AtWork
<1>3. Loses(t)
  BY <1>1, StillLoses
<1>4. CASE Go(t, "drop") /\ Listed(r.table) = {}
  <2>1. t \in Sessions => InMethod("drop", r.method)
    BY <1>1, <1>2 DEF InMethod, Carries
  <2> QED
    BY <1>1, <1>2, <1>4, <2>1, GoKeeps DEF AtTable
<1>5. CASE r.method = "TryGetLock" /\ Handle(t, NoSession)
  <2>1. t \in Sessions
    BY <1>1, <1>2, <1>5, SessionAt
  <2>2. ActiveIn(r.file) = {}
    BY <1>1, <1>2, <1>5, <2>1 DEF Carries, Knows
  <2> QED
    BY <1>1, <1>2, <1>3, <1>5, <2>1, <2>2, HandleKeeps
<1>6. CASE r.method # "TryGetLock" /\ Go(t, "visit")
  <2>1. t \in Sessions => InMethod("visit", r.method)
    BY <1>1, <1>2, <1>6 DEF InMethod, Carries
  <2> QED
    BY <1>1, <1>2, <1>6, <2>1, GoKeeps DEF AtTable
<1> QED
  BY <1>2, <1>4, <1>5, <1>6 DEF TestEmpty

LEMMA DropTableKeeps ==
    ASSUME IInv, IInv', ExclusionInv, NEW t \in Threads, DropTable(t)
    PROVE  ExclusionInv'
<1>1. /\ ~At(t, "idle") /\ UNCHANGED <<tables, now>>
      /\ thread[t].at = "drop" /\ ThreadOK
      /\ fileLocks' = [fileLocks EXCEPT ![thread[t].file] = NoTable]
  BY DEF DropTable, At, IInv
<1>2. PICK r \in Thread : r = thread[t] /\ Carries(t, r)
  BY <1>1, AtWork
<1>3. Loses(t)
  <2>1. Current(r) /\ Listed(r.table) = {}
    BY <1>1, <1>2 DEF Carries, AtTable
  <2>2. ListedFor(r.file) = {}
    BY <2>1 DEF Current, ListedFor
  <2> QED
    BY <1>1, <1>2, <2>2, DropLoses
<1>4. CASE r.method = "TryGetLock" /\ Handle(t, NoSession)
  <2>1. t \in Sessions
    BY <1>1, <1>2, <1>4, SessionAt
  <2>2. ActiveIn(r.file) = {}
    BY <1>1, <1>2, <1>4, <2>1 DEF Carries, Knows
  <2> QED
    BY <1>1, <1>2, <1>3, <1>4, <2>1, <2>2, HandleKeeps
<1>5. CASE r.method # "TryGetLock" /\ Go(t, "visit")
  <2> DEFINE q == [r EXCEPT !.at = "visit"]
  <2>1. /\ q \in Thread /\ q.at = "visit" /\ q.method = r.method
        /\ q.file = r.file /\ q.asked = r.asked /\ q.op = r.op
    BY DEF Thread
  <2>2. thread' = [thread EXCEPT ![t] = q]
    BY <1>2, <1>5 DEF Go, Become
  <2> HIDE DEF q
  <2>3. /\ q.at \notin AtTable /\ q.at \notin {"drop", "unlist"}
        /\ t \in Sessions => InMethod(q.at, q.method)
    BY <1>1, <1>2, <1>5, <2>1 DEF Carries, AtTable, InMethod
  <2> QED
    BY <1>1, <1>2, <1>3, <2>1, <2>2, <2>3, OnKeeps
<1> QED
  BY <1>2, <1>4, <1>5 DEF DropTable

LEMMA MapSessionKeeps ==
    ASSUME IInv, IInv', ExclusionInv, NEW t \in Threads, MapSession(t)
    PROVE  ExclusionInv'
<1>1. /\ ~At(t, "idle") /\ UNCHANGED <<fileLocks, tables, now>>
      /\ thread[t].at = "map" /\ ThreadOK
  BY DEF MapSession, At, IInv
<1>2. PICK r \in Thread : r = thread[t] /\ Carries(t, r)
  BY <1>1, AtWork
<1>3. Loses(t)
  BY <1>1, StillLoses
<1>4. t \in Sessions
  BY <1>1, SessionAt
<1>5. r.method = "AddLock"
  BY <1>1, <1>2, <1>4 DEF Carries, InMethod
<1>6. CASE KnownUser(t) # NoUser
  <2>1. PICK u \in Users : u = KnownUser(t)
    BY <1>4, <1>6, SessionLocksAssumption DEF KnownUser
  <2> DEFINE q == [r EXCEPT !.at = "visit", !.user = u,
                            !.method = "CleanupStaleSessionsForUser", !.todo = Files]
  <2>2. thread' = [thread EXCEPT ![t] = q]
    BY <1>2, <1>6, <2>1 DEF MapSession, Become
  <2>3. /\ q \in Thread /\ q.at = "visit"
        /\ q.method = "CleanupStaleSessionsForUser" /\ q.asked = r.asked
        /\ q.op = r.op
    BY DEF Thread
  <2> HIDE DEF q
  <2>4. PICK f \in Files : f = r.asked
    BY DEF Thread
  <2>5. ActiveIn(f) = {}
    BY <1>2, <1>4, <1>5, <2>4 DEF Carries, Knows
  <2>6. ActiveIn(f)' = {}
    BY <1>3, <2>5, LosesFacts
  <2>7. ActiveIn(q.asked)' = {}
    BY <2>3, <2>4, <2>6
  <2>8. Carries(t, q)'
    BY <1>2, <1>5, <2>3, <2>7 DEF Carries, Serves, Knows, AtTable, InMethod
  <2> QED
    BY <1>1, <1>2, <1>3, <2>2, <2>3, <2>8, OneKeeps
<1>7. CASE KnownUser(t) = NoUser
  <2>1. Go(t, "get")
    BY <1>7 DEF MapSession
  <2>2. InMethod("get", r.method)
    BY <1>2, <1>4, <1>5 DEF InMethod
  <2> QED
    BY <1>1, <1>2, <2>1, <2>2, GoKeeps DEF AtTable
<1> QED
  BY <1>6, <1>7

\* From a point where a thread has its table, with new values in locals that
\* exclusion does not look at.
LEMMA TableKeeps ==
    ASSUME IInv, IInv', ExclusionInv, UNCHANGED <<fileLocks, tables, now>>,
           NEW t \in Threads, thread[t].at \in AtTable,
           NEW q \in Thread, thread' = [thread EXCEPT ![t] = q],
           q.at \in {"check", "stamp", "store", "take"},
           q.at = "take" /\ t \in Sessions =>
              thread[t].method = "CleanupStaleSessionsForUser",
           q.op = thread[t].op, q.asked = thread[t].asked, q.method = thread[t].method,
           q.file = thread[t].file, q.table = thread[t].table
    PROVE  ExclusionInv'
<1>1. ~At(t, "idle")
  BY DEF At, AtTable
<1>2. PICK r \in Thread : r = thread[t] /\ Carries(t, r)
  BY <1>1, AtWork
<1>3. Loses(t)
  BY StillLoses
<1>4. Current(q)'
  BY <1>1, <1>2, <1>3, CurrentOn
<1>5. t \in Sessions => InMethod(q.at, q.method)
  BY <1>2 DEF Carries, InMethod
<1> QED
  BY <1>1, <1>2, <1>3, <1>4, <1>5, OnKeeps

LEMMA ProbeSessionKeeps ==
    ASSUME IInv, IInv', ExclusionInv, NEW t \in Threads, ProbeSession(t)
    PROVE  ExclusionInv'
<1>1. /\ ~At(t, "idle") /\ UNCHANGED <<fileLocks, tables, now>>
      /\ thread[t].at = "probe" /\ ThreadOK
  BY DEF ProbeSession, At, IInv
<1>2. PICK r \in Thread : r = thread[t] /\ Fits(t, r)
  BY <1>1, AtWork
<1>3. t \in Sessions
  BY <1>1, SessionAt
<1>4. PICK date \in Stamp : date = tables[thread[t].table][t]
  BY <1>1, <1>2, <1>3 DEF Fits, IInv, SharedOK
<1>5. ASSUME NEW label \in {"stamp", "check"},
             Become(t, [thread[t] EXCEPT !.at = label, !.seen = date])
      PROVE  ExclusionInv'
  <2> DEFINE q == [r EXCEPT !.at = label, !.seen = date]
  <2>1. /\ q \in Thread /\ q.at = label /\ q.method = r.method
        /\ q.file = r.file /\ q.asked = r.asked /\ q.table = r.table /\ q.op = r.op
    BY ZenonT(60) DEF Thread
  <2>2. thread' = [thread EXCEPT ![t] = q]
    BY <1>2, <1>5 DEF Become
  <2> HIDE DEF q
  <2> QED
    BY <1>1, <1>2, <2>1, <2>2, TableKeeps DEF AtTable
<1>6. CASE Answer(t)
  BY <1>1, <1>6, StillLoses, AnswerKeeps
<1> QED
  BY <1>4, <1>5, <1>6 DEF ProbeSession

LEMMA CheckExpiredKeeps ==
    ASSUME IInv, IInv', ExclusionInv, NEW t \in Threads, CheckExpired(t)
    PROVE  ExclusionInv'
<1>1. /\ ~At(t, "idle") /\ UNCHANGED <<fileLocks, tables, now>>
      /\ thread[t].at = "check"
  BY DEF CheckExpired, At
<1>2. PICK label \in {"forget", "stamp"} : Go(t, label)
  BY DEF CheckExpired
<1>3. InMethod(label, thread[t].method)
  BY DEF InMethod
<1> QED
  BY <1>1, <1>2, <1>3, GoKeeps DEF AtTable

LEMMA ForgetExpiredKeeps ==
    ASSUME IInv, IInv', ExclusionInv, NEW t \in Threads, ForgetExpired(t)
    PROVE  ExclusionInv'
BY RemoveLoses, AnswerKeeps DEF ForgetExpired, At

LEMMA ReadClockKeeps ==
    ASSUME IInv, IInv', ExclusionInv, NEW t \in Threads, ReadClock(t)
    PROVE  ExclusionInv'
<1>1. /\ ~At(t, "idle") /\ UNCHANGED <<fileLocks, tables, now>>
      /\ thread[t].at = "stamp" /\ now \in Time
  BY DEF ReadClock, At, IInv, SharedOK
<1>2. PICK r \in Thread : r = thread[t]
  BY <1>1, AtWork
<1> DEFINE q == [r EXCEPT !.at = "store", !.date = now]
<1>3. /\ q \in Thread /\ q.at = "store" /\ q.method = r.method
      /\ q.file = r.file /\ q.asked = r.asked /\ q.table = r.table /\ q.op = r.op
  BY <1>1 DEF Thread
<1>4. thread' = [thread EXCEPT ![t] = q]
  BY <1>2 DEF ReadClock, Become, UtcNow
<1>5. PICK p \in Thread : p = q
  BY <1>3
<1> HIDE DEF q
<1> QED
  BY <1>1, <1>2, <1>3, <1>4, <1>5, TableKeeps DEF AtTable

\* Who stores a lock, and where: into its own file's table, which nobody else of
\* the requests in flight goes by, in a file that nobody else has.
LEMMA StoresWhere ==
    ASSUME IInv, ExclusionInv, NEW t \in Threads, At(t, "store"), AsSeen(t)
    PROVE  \E r \in Thread, f \in Files, d \in Tables :
             /\ r = thread[t] /\ f = r.file /\ d = r.table
             /\ t \in Sessions /\ fileLocks[f] = d /\ ActiveIn(f) \subseteq {t}
             /\ r.method = "AddLock" \/ tables[d][t] # Absent
             /\ \A u \in Threads \ {t} :
                   ~At(u, "idle") => /\ u \in Sessions => thread[u].asked # f
                                     /\ Sweeps(thread[u].op) => r.op # "Lock"
<1>1. ~At(t, "idle") /\ ThreadOK /\ t \in Sessions
  BY SessionAt DEF At, IInv
<1>2. PICK r \in Thread : r = thread[t] /\ Fits(t, r) /\ Carries(t, r)
  BY <1>1, AtWork
<1>3. PICK f \in Files, d \in Tables : f = r.file /\ d = r.table
  BY <1>2 DEF Fits, Thread, At
<1>4. /\ r.method \in {"AddLock", "RefreshLock"} /\ Knows(t, r) /\ Current(r)
      /\ r.op \in {"Lock", "RefreshLock"}
  BY <1>1, <1>2 DEF Fits, Carries, Serves, AtTable, At
<1>5. ActiveIn(f) \subseteq {t} /\ f = r.asked
  BY <1>3, <1>4 DEF Knows
<1>6. r.method = "AddLock" \/ tables[d][t] # Absent
  BY <1>2, <1>3, <1>4 DEF Fits, At, AsSeen
<1>7. fileLocks[f] = d
  BY <1>1, <1>3, <1>4, <1>6 DEF Current, Listed
<1>8. ASSUME NEW u \in Threads \ {t}, ~At(u, "idle"), u \in Sessions,
             thread[u].asked = f
      PROVE  FALSE
  <2>1. PICK q \in Thread : q = thread[u] /\ Carries(u, q)
    BY <1>8, AtWork
  <2>2. q.op # "Cleanup" /\ r.op # "Cleanup" /\ {r.op, q.op} # {"GetLock"}
    BY <1>4, <1>8, <2>1 DEF Carries, Serves
  <2>3. Conflict(r, q)
    BY <1>5, <1>8, <2>1, <2>2 DEF Conflict
  <2> QED
    BY <1>1, <1>2, <1>8, <2>1, <2>3 DEF ExclusionInv, Apart
<1>9. ASSUME NEW u \in Threads \ {t}, ~At(u, "idle"), Sweeps(thread[u].op)
      PROVE  r.op # "Lock"
  BY <1>1, <1>2, <1>9 DEF ExclusionInv, Apart, Conflict, Sweeps
<1> QED
  BY <1>1, <1>2, <1>3, <1>5, <1>6, <1>7, <1>8, <1>9

\* AddLock and RefreshLock date a session anew: in a file that nobody else has.
LEMMA StoreLockKeeps ==
    ASSUME IInv, IInv', ExclusionInv, NEW t \in Threads, StoreLock(t)
    PROVE  ExclusionInv'
<1>1. /\ ~At(t, "idle") /\ UNCHANGED <<fileLocks, now>>
      /\ At(t, "store") /\ ThreadOK /\ Answer(t)
  BY DEF StoreLock, At, IInv
<1>2. CASE ~AsSeen(t)
  BY <1>1, <1>2, StillLoses, AnswerKeeps DEF StoreLock
<1>3. CASE AsSeen(t)
  <2>1. PICK r \in Thread, f \in Files, d \in Tables :
             /\ r = thread[t] /\ f = r.file /\ d = r.table
             /\ t \in Sessions /\ fileLocks[f] = d /\ ActiveIn(f) \subseteq {t}
             /\ r.method = "AddLock" \/ tables[d][t] # Absent
             /\ \A u \in Threads \ {t} :
                   ~At(u, "idle") => /\ u \in Sessions => thread[u].asked # f
                                     /\ Sweeps(thread[u].op) => r.op # "Lock"
    BY <1>1, <1>3, StoresWhere
  <2>2. d # NoTable
    BY SessionLocksAssumption
  <2>3. /\ tables \in [Tables -> [Sessions -> Stamp]]
        /\ tables' \in [Tables -> [Sessions -> Stamp]]
        /\ fileLocks \in [Files -> Tables \cup {NoTable}]
        /\ tables' = [tables EXCEPT ![d][t] = r.date]
    BY <1>3, <2>1 DEF StoreLock, IInv, SharedOK
  <2>4. \A s \in Sessions \ {t} : tables'[d][s] = tables[d][s]
    BY <2>3
  <2>5. \A e \in Tables \ {d} : tables'[e] = tables[e]
    BY <2>3
  <2>6. ActiveIn(f)' \subseteq {t}
    <3>1. ASSUME NEW s \in ActiveIn(f)', s # t PROVE FALSE
      <4>1. /\ s \in Sessions /\ tables'[d][s] = tables[d][s]
            /\ tables'[d][s] # Absent /\ ~(tables'[d][s] + Lifetime < now)
        BY <1>1, <2>1, <2>2, <2>4, <3>1 DEF ActiveIn, ListedFor, Listed, Expired
      <4>2. s \in ActiveIn(f)
        BY <2>1, <2>2, <4>1 DEF ActiveIn, ListedFor, Listed, Expired
      <4> QED
        BY <2>1, <3>1, <4>2
    <3> QED
      BY <3>1
  <2>7. ASSUME NEW g \in Files, g # f
        PROVE  ActiveIn(g)' = ActiveIn(g) /\ ListedFor(g)' = ListedFor(g)
    <3>1. fileLocks[g] = NoTable \/ fileLocks[g] \in Tables \ {d}
      BY <2>1, <2>2, <2>3, <2>7 DEF ExclusionInv, OwnTables
    <3>2. CASE fileLocks[g] = NoTable
      BY <1>1, <3>2 DEF ActiveIn, ListedFor
    <3>3. CASE fileLocks[g] # NoTable
      <4>1. tables'[fileLocks[g]] = tables[fileLocks[g]]
        BY <2>5, <3>1, <3>3
      <4> QED
        BY <1>1, <4>1 DEF ActiveIn, ListedFor, Listed, Expired
    <3> QED
      BY <3>2, <3>3
  <2>8. OneActiveSession'
    BY <2>6, <2>7 DEF OneActiveSession, ExclusionInv
  <2>9. OwnTables'
    BY <1>1 DEF OwnTables, ExclusionInv
  <2>10. /\ thread'[t].at = "idle" /\ \A u \in Threads \ {t} : thread'[u] = thread[u]
    BY <1>1 DEF Answer, Become, ThreadOK, Idle
  <2>11. Apart'
    BY <2>10 DEF Apart, At, ExclusionInv
  <2>12. ASSUME NEW u \in Threads, ~At(u, "idle")' PROVE Carries(u, thread[u])'
    <3>1. u # t /\ ~At(u, "idle") /\ thread'[u] = thread[u]
      BY <2>10, <2>12 DEF At
    <3>2. PICK q \in Thread : q = thread[u] /\ Fits(u, q) /\ Carries(u, q)
      BY <3>1, AtWork
    <3>3. PICK g \in Files, h \in Files : g = q.file /\ h = q.asked
      BY DEF Thread
    <3>4. ASSUME q.at \in AtTable
          PROVE  Current(q)' /\ (q.at = "drop" => Listed(q.table)' = {})
      <4>1. q.table \in Tables /\ Current(q)
        BY <3>2, <3>4 DEF Fits, AtTable, Carries
      <4>2. CASE q.table # d
        <5>1. Listed(q.table)' = Listed(q.table)
          BY <2>5, <4>1, <4>2 DEF Listed
        <5> QED
          BY <1>1, <3>2, <4>1, <5>1 DEF Current, Carries
      <4>3. CASE q.table = d
        <5>1. g = f
          BY <2>1, <3>3, <4>1, <4>3 DEF Current
        <5>2. fileLocks'[q.file] = q.table
          BY <1>1, <2>1, <3>3, <4>3, <5>1
        <5>3. Current(q)'
          BY <1>1, <4>1, <5>2 DEF Current
        <5>4. q.at # "drop"
          <6> SUFFICES ASSUME q.at = "drop" PROVE FALSE
            OBVIOUS
          <6>1. tables[d][t] = Absent
            BY <2>1, <3>2, <4>3 DEF Carries, Listed
          <6> QED
            BY <1>1, <2>1, <3>1, <3>2, <3>3, <5>1, <6>1, AddsAlone
        <5> QED
          BY <5>3, <5>4
      <4> QED
        BY <4>2, <4>3
    <3>5. ASSUME u \in Sessions PROVE InMethod(q.at, q.method) /\ Knows(u, q)'
      <4>1. InMethod(q.at, q.method) /\ Knows(u, q) /\ h # f
        BY <2>1, <3>1, <3>2, <3>3, <3>5 DEF Carries
      <4>2. ActiveIn(h)' = ActiveIn(h) /\ ListedFor(h)' = ListedFor(h)
        BY <2>7, <4>1
      <4>3. q.method # "CleanupStaleSessionsForUser" => q.file = h
        BY <3>3, <4>1 DEF Knows
      <4>4. q.at = "unlist" => q.file = h
        BY <4>1, <4>3 DEF InMethod
      <4> QED
        BY <3>3, <4>1, <4>2, <4>3, <4>4 DEF Knows
    <3>6. Carries(u, q)'
      <4>1. q.at = "drop" => q.at \in AtTable
        BY DEF AtTable
      <4>2. Serves(u, q)' /\ (u \in Sessions => InMethod(q.at, q.method)')
        BY <3>2, <3>5 DEF Carries, Serves, InMethod
      <4> QED
        BY <3>4, <3>5, <4>1, <4>2 DEF Carries, AtTable
    <3> QED
      BY <3>1, <3>2, <3>6 DEF Carries, Serves, Current, Knows
  <2> QED
    BY <2>8, <2>9, <2>11, <2>12 DEF ExclusionInv
<1> QED
  BY <1>2, <1>3

LEMMA ClearTableKeeps ==
    ASSUME IInv, IInv', ExclusionInv, NEW t \in Threads, ClearTable(t)
    PROVE  ExclusionInv'
<1>1. /\ ~At(t, "idle") /\ UNCHANGED <<fileLocks, now>>
      /\ thread[t].at = "clear" /\ ThreadOK /\ now \in Nat
      /\ tables' = [tables EXCEPT ![thread[t].table] = Empty]
      /\ tables \in [Tables -> [Sessions -> Stamp]]
      /\ fileLocks \in [Files -> Tables \cup {NoTable}]
  BY DEF ClearTable, At, IInv, SharedOK, Time
<1>2. PICK r \in Thread : r = thread[t] /\ Fits(t, r) /\ Carries(t, r)
  BY <1>1, AtWork
<1>3. t \in Sessions
  BY <1>1, SessionAt
<1>4. r.method = "RemoveLock" /\ r.table \in Tables /\ Current(r) /\ Knows(t, r)
  BY <1>1, <1>2, <1>3 DEF Carries, InMethod, Fits, AtTable
<1>5. Loses(t)
  <2>1. \A d \in Tables, s \in Sessions : tables'[d][s] \in {Absent, tables[d][s]}
    BY <1>1 DEF Empty
  <2> QED
    BY <1>1, <2>1 DEF Loses
<1> DEFINE q == [r EXCEPT !.at = "unlist"]
<1>6. /\ q \in Thread /\ q.at = "unlist" /\ q.method = r.method
      /\ q.file = r.file /\ q.asked = r.asked /\ q.op = r.op
  BY DEF Thread
<1>7. thread' = [thread EXCEPT ![t] = q]
  BY <1>2 DEF ClearTable, Go, Become
<1> HIDE DEF q
<1>8. PICK f \in Files, d \in Tables : f = r.file /\ f = r.asked /\ d = r.table
  BY <1>4 DEF Knows, Thread
<1>9. ListedFor(f)' = {}
  <2>1. fileLocks'[f] \in {d, NoTable} /\ tables'[d] = Empty
    BY <1>1, <1>2, <1>4, <1>8 DEF Current
  <2> QED
    BY <2>1 DEF ListedFor, Listed, Empty
<1>10. ActiveIn(f)' = {}
  BY <1>9 DEF ActiveIn
<1>11. Knows(t, q)'
  <2>1. ListedFor(q.file)' = {} /\ ActiveIn(q.file)' = {} /\ ActiveIn(q.asked)' = {}
    BY <1>6, <1>8, <1>9, <1>10
  <2> QED
    BY <1>4, <1>6, <1>8, <2>1 DEF Knows
<1>12. Carries(t, q)'
  <2>1. Serves(t, q)'
    BY <1>2, <1>6 DEF Carries, Serves
  <2>2. InMethod(q.at, q.method)'
    BY <1>4, <1>6 DEF InMethod
  <2> QED
    BY <1>6, <1>11, <2>1, <2>2 DEF Carries, AtTable
<1> QED
  BY <1>1, <1>2, <1>5, <1>6, <1>7, <1>12, OneKeeps

LEMMA UnlistTableKeeps ==
    ASSUME IInv, IInv', ExclusionInv, NEW t \in Threads, UnlistTable(t)
    PROVE  ExclusionInv'
<1>1. /\ ~At(t, "idle") /\ UNCHANGED <<tables, now>> /\ ThreadOK
      /\ thread[t].at = "unlist" /\ Answer(t)
      /\ fileLocks' = [fileLocks EXCEPT ![thread[t].file] = NoTable]
  BY DEF UnlistTable, At, IInv
<1>2. t \in Sessions
  BY <1>1, SessionAt
<1>3. ListedFor(thread[t].file) = {}
  BY <1>1, <1>2, AtWork DEF Carries, Knows
<1> QED
  BY <1>1, <1>3, DropLoses, AnswerKeeps

LEMMA VisitFileKeeps ==
    ASSUME IInv, IInv', ExclusionInv, NEW t \in Threads, VisitFile(t)
    PROVE  ExclusionInv'
<1>1. /\ ~At(t, "idle") /\ UNCHANGED <<fileLocks, tables, now>>
      /\ thread[t].at = "visit" /\ ThreadOK
  BY DEF VisitFile, At, IInv
<1>2. PICK r \in Thread : r = thread[t] /\ Carries(t, r)
  BY <1>1, AtWork
<1>3. Loses(t)
  BY <1>1, StillLoses
<1>4. CASE r.todo = {} /\ t \in Cleaners
  BY <1>1, <1>2, <1>3, <1>4, AnswerKeeps DEF VisitFile
<1>5. t \in Sessions => r.method = "CleanupStaleSessionsForUser" /\ Knows(t, r)
  BY <1>1, <1>2 DEF Carries, InMethod
<1>6. CASE r.todo = {} /\ t \notin Cleaners
  <2> DEFINE q == [r EXCEPT !.at = "get", !.method = "AddLock", !.user = NoUser,
                            !.table = NoTable, !.file = r.asked]
  <2>1. q \in Thread
    BY ZenonT(60) DEF Thread
  <2>2. /\ q.at = "get" /\ q.method = "AddLock"
        /\ q.file = r.asked /\ q.asked = r.asked /\ q.op = r.op
    BY DEF Thread
  <2>3. thread' = [thread EXCEPT ![t] = q]
    BY <1>2, <1>6 DEF VisitFile, Become
  <2> HIDE DEF q
  <2>4. PICK f \in Files : f = r.asked
    BY DEF Thread
  <2>5. ActiveIn(f) = {}
    BY <1>5, <1>6, <2>4 DEF Knows, Threads
  <2>6. ActiveIn(f)' = {}
    BY <1>3, <2>5, LosesFacts
  <2>7. ActiveIn(q.asked)' = {}
    BY <2>2, <2>4, <2>6
  <2>8. Carries(t, q)'
    <3>1. Serves(t, q)
      BY <1>2, <1>5, <1>6, <2>2 DEF Carries, Serves, Threads
    <3> QED
      BY <2>2, <2>7, <3>1 DEF Carries, Serves, Knows, AtTable, InMethod
  <2> QED
    BY <1>1, <1>2, <1>3, <2>1, <2>2, <2>3, <2>8, OneKeeps
<1>7. CASE r.todo # {}
  <2>1. PICK f \in r.todo :
          Become(t, [thread[t] EXCEPT !.todo = @ \ {f}, !.file = f,
                        !.table = fileLocks[f],
                        !.at = IF fileLocks[f] = NoTable THEN "visit" ELSE "match"])
    BY <1>2, <1>7 DEF VisitFile
  <2>2. f \in Files
    BY <1>2 DEF Thread
  <2>3. PICK d \in Tables \cup {NoTable}, label \in {"visit", "match"} :
           /\ d = fileLocks[f]
           /\ label = IF fileLocks[f] = NoTable THEN "visit" ELSE "match"
    BY <2>2 DEF IInv, SharedOK
  <2> DEFINE q == [r EXCEPT !.todo = r.todo \ {f}, !.file = f, !.table = d, !.at = label]
  <2>4. /\ q \in Thread
        /\ q.at = label /\ q.table = d /\ q.method = r.method
        /\ q.file = f /\ q.asked = r.asked /\ q.op = r.op
    BY <2>2, ZenonT(60) DEF Thread
  <2>5. thread' = [thread EXCEPT ![t] = q]
    BY <1>2, <2>1, <2>3 DEF Become
  <2> HIDE DEF q
  <2>6. q.at \in AtTable => Current(q)'
    BY <1>1, <2>3, <2>4, FetchedIsCurrent DEF AtTable
  <2>7. t \in Sessions => InMethod(q.at, q.method) /\ Knows(t, q)'
    BY <1>2, <1>3, <1>5, <2>4, KnowsOn DEF InMethod
  <2>8. Carries(t, q)'
    BY <1>2, <2>4, <2>6, <2>7 DEF Carries, Serves, InMethod
  <2> QED
    BY <1>1, <1>2, <1>3, <2>4, <2>5, <2>8, OneKeeps
<1> QED
  BY <1>4, <1>6, <1>7

LEMMA MatchSessionsKeeps ==
    ASSUME IInv, IInv', ExclusionInv, NEW t \in Threads, MatchSessions(t)
    PROVE  ExclusionInv'
<1>1. /\ ~At(t, "idle") /\ UNCHANGED <<fileLocks, tables, now>>
      /\ thread[t].at = "match"
  BY DEF MatchSessions, At
<1>2. PICK r \in Thread : r = thread[t] /\ Carries(t, r)
  BY <1>1, AtWork
<1> DEFINE D == {s \in Listed(thread[t].table) :
                     OfUser(thread[t].table, s, thread[t].user)}
           q == [r EXCEPT !.at = "take", !.doomed = D]
<1>3. D \in SUBSET Sessions
  BY DEF Listed
<1>4. thread' = [thread EXCEPT ![t] = q]
  BY <1>2 DEF MatchSessions, Become
<1> HIDE DEF D
<1>5. /\ q \in Thread /\ q.at = "take" /\ q.method = r.method
      /\ q.file = r.file /\ q.asked = r.asked /\ q.table = r.table /\ q.op = r.op
  BY <1>3 DEF Thread
<1>6. PICK p \in Thread : p = q
  BY <1>5
<1> HIDE DEF q
<1>7. t \in Sessions => r.method = "CleanupStaleSessionsForUser"
  BY <1>1, <1>2 DEF Carries, InMethod
<1> QED
  BY <1>1, <1>2, <1>4, <1>5, <1>6, <1>7, TableKeeps DEF AtTable

LEMMA TakeSessionKeeps ==
    ASSUME IInv, IInv', ExclusionInv, NEW t \in Threads, TakeSession(t)
    PROVE  ExclusionInv'
<1>1. /\ ~At(t, "idle") /\ UNCHANGED <<fileLocks, now>> /\ thread[t].at = "take"
  BY DEF TakeSession, At
<1>2. PICK r \in Thread : r = thread[t] /\ Carries(t, r)
  BY <1>1, AtWork
<1>3. t \in Sessions => r.method = "CleanupStaleSessionsForUser"
  BY <1>1, <1>2 DEF Carries, InMethod
<1>4. CASE r.doomed = {}
  <2>1. Go(t, "isEmpty") /\ tables' = tables
    BY <1>2, <1>4 DEF TakeSession
  <2>2. t \in Sessions => InMethod("isEmpty", r.method)
    BY <1>3 DEF InMethod
  <2>3. t \notin Sessions => r.method # "TryGetLock"
    BY <1>1, <1>2, AtWork DEF Fits, Threads
  <2> QED
    BY <1>1, <1>2, <1>3, <2>1, <2>2, <2>3, GoKeeps DEF AtTable
<1>5. CASE r.doomed # {}
  <2>1. PICK s \in r.doomed :
          /\ Remove(t, s)
          /\ Become(t, [thread[t] EXCEPT !.doomed = @ \ {s}, !.taken = s,
                !.at = IF s \in Listed(thread[t].table) THEN "unmap" ELSE "take"])
    BY <1>2, <1>5 DEF TakeSession
  <2>2. s \in Sessions
    BY <1>2 DEF Thread
  <2>3. PICK label \in {"unmap", "take"} :
           label = IF s \in Listed(thread[t].table) THEN "unmap" ELSE "take"
    OBVIOUS
  <2> DEFINE q == [r EXCEPT !.doomed = r.doomed \ {s}, !.taken = s, !.at = label]
  <2>4. q \in Thread
    BY <2>2, ZenonT(60) DEF Thread
  <2>5. /\ q.at = label /\ q.method = r.method
        /\ q.file = r.file /\ q.asked = r.asked /\ q.table = r.table /\ q.op = r.op
    BY DEF Thread
  <2>6. thread' = [thread EXCEPT ![t] = q]
    BY <1>2, <2>1, <2>3 DEF Become
  <2> HIDE DEF q
  <2>7. Loses(t)
    BY <1>1, <2>1, RemoveLoses
  <2>8. Current(q)'
    BY <1>1, <1>2, <2>4, <2>5, <2>7, CurrentOn DEF AtTable
  <2>9. t \in Sessions => InMethod(q.at, q.method)
    BY <1>3, <2>5 DEF InMethod
  <2> QED
    BY <1>1, <1>2, <2>4, <2>5, <2>6, <2>7, <2>8, <2>9, OnKeeps
<1> QED
  BY <1>4, <1>5

LEMMA UnmapSessionKeeps ==
    ASSUME IInv, IInv', ExclusionInv, NEW t \in Threads, UnmapSession(t)
    PROVE  ExclusionInv'
<1>1. /\ ~At(t, "idle") /\ UNCHANGED <<fileLocks, tables, now>>
      /\ thread[t].at = "unmap"
  BY DEF UnmapSession, At
<1>2. PICK r \in Thread : r = thread[t] /\ Carries(t, r)
  BY <1>1, AtWork
<1> DEFINE q == [r EXCEPT !.at = "take", !.taken = NoSession]
<1>3. q \in Thread
  BY ZenonT(60) DEF Thread
<1>4. /\ q.at = "take" /\ q.method = r.method
      /\ q.file = r.file /\ q.asked = r.asked /\ q.table = r.table /\ q.op = r.op
  BY DEF Thread
<1>5. thread' = [thread EXCEPT ![t] = q]
  BY <1>2 DEF UnmapSession, Become
<1>6. t \in Sessions => r.method = "CleanupStaleSessionsForUser"
  BY <1>1, <1>2 DEF Carries, InMethod
<1>7. PICK p \in Thread : p = q
  BY <1>3
<1> HIDE DEF q
<1> QED
  BY <1>1, <1>2, <1>3, <1>4, <1>5, <1>6, <1>7, TableKeeps DEF AtTable

LEMMA TickKeeps ==
    ASSUME IInv, IInv', ExclusionInv, Tick
    PROVE  ExclusionInv'
<1>1. ASSUME NEW t PROVE Loses(t)
  BY DEF Tick, Loses, IInv, SharedOK, Time
<1>2. OneActiveSession' /\ OwnTables'
  BY <1>1, LosesFacts DEF OneActiveSession, OwnTables, ExclusionInv, Tick
<1>3. ASSUME NEW t \in Threads, ~At(t, "idle") PROVE Carries(t, thread[t])'
  <2>1. PICK r \in Thread : r = thread[t] /\ r = thread'[t] /\ Carries(t, r)
    BY <1>3, AtWork DEF Tick
  <2>2. t \in Sessions => Knows(t, r)'
    BY <1>1, <2>1, KnowsOn DEF Carries
  <2>3. r.at \in AtTable => Current(r)'
    BY <2>1 DEF Carries, Current, Tick, Listed
  <2>4. Carries(t, r)'
    BY <2>1, <2>2, <2>3 DEF Carries, Serves, Tick, Listed
  <2> QED
    BY <2>1, <2>4 DEF Carries, Serves, Current, Knows
<1> QED
  BY <1>2, <1>3 DEF ExclusionInv, Apart, Tick, At

LEMMA WorkKeeps ==
    ASSUME IInv, IInv', ExclusionInv, NEW t \in Threads, Work(t)
    PROVE  ExclusionInv'
BY GetTableKeeps, ListExpiredKeeps, PurgeExpiredKeeps, FirstActiveKeeps,
   TestEmptyKeeps, DropTableKeeps, MapSessionKeeps, ProbeSessionKeeps,
   CheckExpiredKeeps, ForgetExpiredKeeps, ReadClockKeeps, StoreLockKeeps,
   ClearTableKeeps, UnlistTableKeeps, VisitFileKeeps, MatchSessionsKeeps,
   TakeSessionKeeps, UnmapSessionKeeps
DEF Work

LEMMA ExclusionInit == Init => ExclusionInv
<1> SUFFICES ASSUME Init PROVE ExclusionInv
  OBVIOUS
<1>1. \A f \in Files : fileLocks[f] = NoTable
  BY DEF Init
<1>2. \A t \in Threads : At(t, "idle")
  BY DEF Init, At, Idle
<1> QED
  BY <1>1, <1>2 DEF ExclusionInv, Apart, OwnTables, OneActiveSession, ActiveIn, ListedFor

LEMMA ExclusionNext ==
    ASSUME Isolated PROVE IInv /\ ExclusionInv /\ [Next]_vars => ExclusionInv'
<1> SUFFICES ASSUME IInv, ExclusionInv, [Next]_vars PROVE ExclusionInv'
  OBVIOUS
<1>1. IInv'
  BY NextOK
<1>2. CASE Tick
  BY <1>1, <1>2, TickKeeps
<1>3. CASE \E s \in Sessions : Arrive(s)
  BY <1>1, <1>3, ArriveKeeps
<1>4. CASE \E t \in Cleaners : ForceSaveAndCleanupUserSessions(t)
  BY <1>1, <1>4, CleanupArrivesKeeps
<1>5. CASE \E t \in Threads : Work(t)
  BY <1>1, <1>5, WorkKeeps
<1>6. CASE UNCHANGED vars
  BY <1>6 DEF vars, ExclusionInv, OwnTables, OneActiveSession, ActiveIn, ListedFor,
     Listed, Expired, At, Apart, Carries, Serves, Current, Knows
<1> QED
  BY <1>2, <1>3, <1>4, <1>5, <1>6 DEF Next

\* TryGetLock's scan, the handlers' decisions, the cleanup and AddLock together,
\* over requests that overlap unless they conflict: a table with room for many
\* sessions never holds two live locks, whoever the sessions belong to and whatever
\* files they open.
THEOREM ExclusiveSessions ==
    ASSUME Isolated PROVE Spec => []OneActiveSession
<1>1. ExclusionInv => OneActiveSession
  BY DEF ExclusionInv
<1> QED
  BY <1>1, InitOK, NextOK, ExclusionInit, ExclusionNext, PTL DEF Spec

\* AddLock gets its table after its own cleanup, which may have dropped the file's: while
\* no two requests conflict, the table it stores into is the one the dictionary holds.
THEOREM GrantsAreListed ==
    ASSUME Isolated PROVE Spec => []GrantedIsListed
<1>1. IInv /\ ExclusionInv => GrantedIsListed
  <2> SUFFICES ASSUME IInv, ExclusionInv, NEW s \in Sessions, At(s, "store"), AsSeen(s)
               PROVE  fileLocks[thread[s].file] = thread[s].table
    BY DEF GrantedIsListed, AsSeen
  <2>1. s \in Threads
    BY DEF Threads
  <2> QED
    BY <2>1, StoresWhere
<1> QED
  BY <1>1, InitOK, NextOK, ExclusionInit, ExclusionNext, PTL DEF Spec

-----------------------------------------------------------------------------
(* No two requests that conflict: what a cleanup leaves.                   *)

\* A step of a thread is a step of no other.
LEMMA OwnStep ==
    ASSUME IInv, NEW t \in Threads, Work(t)
    PROVE  ~At(t, "idle") /\ \A u \in Threads \ {t} : thread'[u] = thread[u]
<1>1. ~At(t, "idle")
  BY DEF Work, GetTable, ListExpired, PurgeExpired, FirstActive, TestEmpty, DropTable,
     MapSession, ProbeSession, CheckExpired, ForgetExpired, ReadClock, StoreLock,
     ClearTable, UnlistTable, VisitFile, MatchSessions, TakeSession, UnmapSession, At
<1>2. thread \in [Threads -> Thread]
  BY DEF IInv, ThreadOK
<1>3. ASSUME NEW r, Become(t, r)
      PROVE  \A u \in Threads \ {t} : thread'[u] = thread[u]
  BY <1>2, <1>3 DEF Become
<1>4. ASSUME NEW label, Go(t, label)
      PROVE  \A u \in Threads \ {t} : thread'[u] = thread[u]
  BY <1>3, <1>4 DEF Go
<1>5. ASSUME Answer(t)
      PROVE  \A u \in Threads \ {t} : thread'[u] = thread[u]
  BY <1>3, <1>5 DEF Answer
<1>6. ASSUME NEW method, NEW label, CallFor(t, method, label)
      PROVE  \A u \in Threads \ {t} : thread'[u] = thread[u]
  BY <1>3, <1>6 DEF CallFor
<1>7. ASSUME NEW s, Handle(t, s)
      PROVE  \A u \in Threads \ {t} : thread'[u] = thread[u]
  BY <1>5, <1>6, <1>7 DEF Handle
<1>8. CASE GetTable(t)
  BY <1>1, <1>3, <1>5, <1>7, <1>8 DEF GetTable, NotFound
<1>9. CASE ListExpired(t) \/ PurgeExpired(t)
  BY <1>1, <1>3, <1>4, <1>9 DEF ListExpired, PurgeExpired
<1>10. CASE FirstActive(t) \/ TestEmpty(t) \/ DropTable(t)
  BY <1>1, <1>4, <1>7, <1>10 DEF FirstActive, TestEmpty, DropTable
<1>11. CASE MapSession(t) \/ ProbeSession(t) \/ CheckExpired(t) \/ ForgetExpired(t)
  BY <1>1, <1>3, <1>4, <1>5, <1>11 DEF MapSession, ProbeSession, CheckExpired, ForgetExpired
<1>12. CASE ReadClock(t) \/ StoreLock(t) \/ ClearTable(t) \/ UnlistTable(t)
  BY <1>1, <1>3, <1>4, <1>5, <1>12 DEF ReadClock, StoreLock, ClearTable, UnlistTable
<1>13. CASE VisitFile(t) \/ MatchSessions(t)
  BY <1>1, <1>3, <1>5, <1>13 DEF VisitFile, MatchSessions
<1>14. CASE TakeSession(t) \/ UnmapSession(t)
  BY <1>1, <1>3, <1>4, <1>14 DEF TakeSession, UnmapSession
<1> QED
  BY <1>1, <1>8, <1>9, <1>10, <1>11, <1>12, <1>13, <1>14 DEF Work

\* Only the step that stores a lock adds a session to a file's.
LEMMA ListedShrinks ==
    ASSUME IInv, ExclusionInv, NEW t \in Threads, Work(t), ~StoreLock(t),
           NEW f \in Files
    PROVE  ListedFor(f)' \subseteq ListedFor(f)
<1>1. /\ fileLocks \in [Files -> Tables \cup {NoTable}]
      /\ tables \in [Tables -> [Sessions -> Stamp]]
      /\ IInv'
  BY WorkOK DEF IInv, SharedOK
<1>2. CASE GetTable(t) /\ UNCHANGED <<fileLocks, tables>>
  BY <1>2 DEF ListedFor, Listed
<1>3. CASE GetTable(t) /\ ~UNCHANGED <<fileLocks, tables>>
  <2>1. PICK e \in Tables :
           /\ Unused(e)
           /\ tables' = [tables EXCEPT ![e] = Empty]
           /\ fileLocks' = [fileLocks EXCEPT ![thread[t].file] = e]
    BY <1>3 DEF GetTable, List
  <2>2. PICK d : d = fileLocks[f] /\ d # e
    BY <2>1 DEF Unused
  <2>3. CASE fileLocks'[f] = e
    <3>1. tables'[e] = Empty
      BY <1>1, <2>1
    <3> QED
      BY <2>3, <3>1 DEF ListedFor, Listed, Empty
  <2>4. CASE fileLocks'[f] # e
    <3>1. fileLocks'[f] = d /\ (d # NoTable => tables'[d] = tables[d])
      BY <1>1, <2>1, <2>2, <2>4
    <3> QED
      BY <2>2, <3>1 DEF ListedFor, Listed
  <2> QED
    BY <2>3, <2>4
<1>4. CASE UNCHANGED <<fileLocks, tables>>
  BY <1>4 DEF ListedFor, Listed
<1>5. CASE (\E s : Remove(t, s)) /\ UNCHANGED <<fileLocks, now>>
  BY <1>1, <1>5, RemoveLoses, LosesFacts
<1>6. CASE DropTable(t) \/ UnlistTable(t)
  <2>1. tables' = tables /\ fileLocks'[f] \in {fileLocks[f], NoTable}
    BY <1>1, <1>6 DEF DropTable, UnlistTable
  <2> QED
    BY <2>1 DEF ListedFor, Listed
<1>7. CASE ClearTable(t)
  <2>1. \A d \in Tables, s \in Sessions : tables'[d][s] # Absent => tables[d][s] # Absent
    BY <1>1, <1>7 DEF ClearTable, Empty
  <2> QED
    BY <1>1, <1>7, <2>1 DEF ClearTable, ListedFor, Listed
<1>8. CASE PurgeExpired(t) \/ TakeSession(t)
  BY <1>4, <1>5, <1>8 DEF PurgeExpired, TakeSession
<1>9. CASE ForgetExpired(t)
  BY <1>5, <1>9 DEF ForgetExpired
<1> QED
  BY <1>2, <1>3, <1>4, <1>6, <1>7, <1>8, <1>9
  DEF Work, ListExpired, FirstActive, TestEmpty, MapSession, ProbeSession, CheckExpired,
      ReadClock, VisitFile, MatchSessions, UnmapSession

\* Two sweeps conflict.
LEMMA SweepsAlone ==
    ASSUME ExclusionInv, NEW t \in Threads, ~At(t, "idle"), Sweeps(thread[t].op),
           NEW u \in Threads, u # t, ~At(u, "idle")
    PROVE  ~Sweeps(thread[u].op)
BY DEF ExclusionInv, Apart, Conflict

\* A step of the one cleanup that a Cleaner is at.
LEMMA CleanerStep ==
    ASSUME IInv, NEW t \in Cleaners, NEW q, thread' = [thread EXCEPT ![t] = q],
           \A u \in Cleaners \ {t} : At(u, "idle"),
           q.at = "idle" \/ Leaves(q)'
    PROVE  CleanupInv'
<1>1. t \in Threads /\ Cleaners \subseteq Threads /\ thread \in [Threads -> Thread]
  BY DEF Threads, IInv, ThreadOK
<1>2. thread'[t] = q /\ \A u \in Cleaners \ {t} : thread'[u].at = "idle"
  BY <1>1 DEF At
<1>3. ASSUME NEW u \in Cleaners, ~At(u, "idle")' PROVE Leaves(thread[u])'
  <2>1. u = t /\ thread'[u] = q
    BY <1>2, <1>3 DEF At
  <2>2. Leaves(q)'
    BY <1>3, <2>1 DEF At
  <2> QED
    BY <2>1, <2>2 DEF Leaves
<1> QED
  BY <1>3 DEF CleanupInv

LEMMA CleanerAtWork ==
    ASSUME IInv, ExclusionInv, CleanupInv, NEW t \in Cleaners, ~At(t, "idle")
    PROVE  /\ t \in Threads
           /\ \A u \in Cleaners \ {t} : At(u, "idle")
           /\ \E r \in Thread : /\ r = thread[t] /\ Fits(t, r) /\ Leaves(r)
                                /\ Sweeps(r.op)
                                /\ r.at \in AtTable => Current(r)
<1>1. t \in Threads /\ Cleaners \subseteq Threads
  BY DEF Threads
<1>2. ASSUME NEW u \in Cleaners, ~At(u, "idle")
      PROVE  \E r \in Thread : /\ r = thread[u] /\ Fits(u, r) /\ Leaves(r)
                               /\ Sweeps(r.op)
                               /\ r.at \in AtTable => Current(r)
  BY <1>1, <1>2, AtWork DEF CleanupInv, Carries, Serves, Sweeps
<1>3. \A u \in Cleaners \ {t} : At(u, "idle")
  BY <1>1, <1>2, SweepsAlone
<1> QED
  BY <1>1, <1>2, <1>3

LEMMA CleanupArrivesLeaves ==
    ASSUME Isolated, IInv, ExclusionInv, NEW t \in Cleaners, ForceSaveAndCleanupUserSessions(t)
    PROVE  CleanupInv'
<1>1. t \in Threads /\ Cleaners \subseteq Threads
  BY DEF Threads
<1>2. PICK u \in Users :
         Begin(t, [Idle EXCEPT !.at = "visit", !.op = "Cleanup",
                                !.method = "CleanupStaleSessionsForUser",
                                !.user = u, !.todo = Files])
  BY DEF ForceSaveAndCleanupUserSessions
<1>3. PICK r \in Thread : r = Idle
  BY IdleOK
<1> DEFINE q == [r EXCEPT !.at = "visit", !.op = "Cleanup",
                          !.method = "CleanupStaleSessionsForUser",
                          !.user = u, !.todo = Files]
<1>4. q.at = "visit" /\ q.todo = Files /\ q.op = "Cleanup"
  BY DEF Thread
<1>5. Begin(t, q)
  BY <1>2, <1>3
<1> HIDE DEF q
<1>6. Leaves(q)'
  BY <1>4 DEF Leaves
<1>7. ASSUME NEW c \in Cleaners, ~At(c, "idle") PROVE FALSE
  <2>1. thread[c].op = "Cleanup"
    BY <1>1, <1>7, AtWork DEF Carries, Serves
  <2> QED
    BY <1>1, <1>4, <1>5, <1>7, <2>1 DEF Begin, Free, Conflict, Sweeps
<1> QED
  BY <1>5, <1>6, <1>7, CleanerStep DEF Begin, Become

\* A point that is reached once no listed session is left to take.
LEMMA NoneLeft ==
    ASSUME IInv, NEW t \in Cleaners, NEW r \in Thread, NEW q, Leaves(r),
           q.todo = r.todo, q.user = r.user, q.at \notin {"take", "unmap"},
           r.at = "match" => FALSE,
           r.at \in {"take", "unmap"} => r.doomed = {},
           \A f \in Files : ListedFor(f)' \subseteq ListedFor(f),
           sessionToUser' = sessionToUser
    PROVE  Leaves(q)'
BY DEF Leaves, SessionUser

LEMMA VisitFileLeaves ==
    ASSUME IInv, ExclusionInv, CleanupInv, NEW t \in Cleaners, VisitFile(t)
    PROVE  CleanupInv'
<1>1. /\ ~At(t, "idle") /\ UNCHANGED <<fileLocks, tables, sessionToUser>>
      /\ thread[t].at = "visit"
  BY DEF VisitFile, At
<1>2. PICK r \in Thread : r = thread[t] /\ Leaves(r)
  BY <1>1, CleanerAtWork
<1>3. CASE r.todo = {}
  <2>1. PICK q \in Thread : q = Idle /\ q.at = "idle"
    BY IdleOK DEF Idle
  <2>2. thread' = [thread EXCEPT ![t] = q]
    BY <1>2, <1>3, <2>1 DEF VisitFile, Answer, Become
  <2> QED
    BY <1>1, <2>1, <2>2, CleanerAtWork, CleanerStep
<1>4. CASE r.todo # {}
  <2>1. PICK f \in r.todo :
          Become(t, [thread[t] EXCEPT !.todo = @ \ {f}, !.file = f,
                        !.table = fileLocks[f],
                        !.at = IF fileLocks[f] = NoTable THEN "visit" ELSE "match"])
    BY <1>2, <1>4 DEF VisitFile
  <2>2. f \in Files
    BY <1>2 DEF Thread
  <2>3. PICK d \in Tables \cup {NoTable}, label \in {"visit", "match"} :
           /\ d = fileLocks[f] /\ (label = "visit" => fileLocks[f] = NoTable)
           /\ label = IF fileLocks[f] = NoTable THEN "visit" ELSE "match"
    BY <2>2 DEF IInv, SharedOK
  <2> DEFINE q == [r EXCEPT !.todo = r.todo \ {f}, !.file = f, !.table = d, !.at = label]
  <2>4. /\ q.at = label /\ q.file = f /\ q.user = r.user
        /\ q.todo = r.todo \ {f}
    BY DEF Thread
  <2>5. thread' = [thread EXCEPT ![t] = q]
    BY <1>2, <2>1, <2>3 DEF Become
  <2> HIDE DEF q
  <2>6. ASSUME NEW g \in Files \ q.todo, NEW s \in ListedFor(g)',
               SessionUser(s)' = q.user
        PROVE  q.file = g /\ q.at = "match"
    <3>1. s \in ListedFor(g) /\ SessionUser(s) = r.user
      BY <1>1, <2>4, <2>6 DEF ListedFor, Listed, SessionUser
    <3>2. g \in r.todo
      BY <1>1, <1>2, <3>1 DEF Leaves
    <3>3. g = f
      BY <2>4, <2>6, <3>2
    <3> QED
      BY <2>3, <2>4, <3>1, <3>3 DEF ListedFor
  <2>7. Leaves(q)'
    BY <2>3, <2>4, <2>6 DEF Leaves
  <2> QED
    BY <1>1, <2>5, <2>7, CleanerAtWork, CleanerStep
<1> QED
  BY <1>3, <1>4

LEMMA MatchSessionsLeaves ==
    ASSUME IInv, ExclusionInv, CleanupInv, NEW t \in Cleaners, MatchSessions(t)
    PROVE  CleanupInv'
<1>1. /\ ~At(t, "idle") /\ UNCHANGED <<fileLocks, tables, sessionToUser>>
      /\ thread[t].at = "match"
  BY DEF MatchSessions, At
<1>2. PICK r \in Thread : /\ r = thread[t] /\ Leaves(r)
                          /\ Current(r)
  BY <1>1, CleanerAtWork DEF AtTable
<1> DEFINE D == {s \in Listed(r.table) : SessionUser(s) = r.user}
           q == [r EXCEPT !.at = "take", !.doomed = D]
<1>3. thread' = [thread EXCEPT ![t] = q]
  BY <1>2 DEF MatchSessions, Become, OfUser
<1>4. PICK E : E = D
  OBVIOUS
<1>5. /\ q.at = "take" /\ q.file = r.file /\ q.user = r.user
      /\ q.todo = r.todo /\ q.doomed = E
  BY <1>4 DEF Thread
<1>6. PICK p : p = q
  OBVIOUS
<1> HIDE DEF q
<1>7. ASSUME NEW g \in Files \ p.todo, NEW s \in ListedFor(g)',
             SessionUser(s)' = p.user
      PROVE  p.file = g /\ s \in p.doomed
  <2>1. s \in ListedFor(g) /\ SessionUser(s) = r.user /\ g \in Files \ r.todo
    BY <1>1, <1>5, <1>6, <1>7 DEF ListedFor, Listed, SessionUser
  <2>2. r.file = g
    BY <1>2, <2>1 DEF Leaves
  <2>3. s \in Listed(r.table)
    BY <1>2, <2>1, <2>2 DEF Current, ListedFor
  <2> QED
    BY <1>4, <1>5, <1>6, <2>1, <2>2, <2>3
<1>8. ASSUME NEW s \in p.doomed PROVE SessionUser(s)' = p.user
  BY <1>1, <1>4, <1>5, <1>6, <1>8 DEF SessionUser
<1>9. p.at = "take"
  BY <1>5, <1>6
<1>10. Leaves(p)'
  BY <1>7, <1>8, <1>9 DEF Leaves
<1> QED
  BY <1>1, <1>3, <1>6, <1>10, CleanerAtWork, CleanerStep

LEMMA TakeSessionLeaves ==
    ASSUME IInv, ExclusionInv, CleanupInv, NEW t \in Cleaners, TakeSession(t)
    PROVE  CleanupInv'
<1>1. /\ ~At(t, "idle") /\ UNCHANGED <<fileLocks, sessionToUser, now>>
      /\ thread[t].at = "take"
  BY DEF TakeSession, At
<1>2. PICK r \in Thread : /\ r = thread[t] /\ Leaves(r) /\ Fits(t, r)
                          /\ Current(r)
  BY <1>1, CleanerAtWork DEF AtTable
<1>3. CASE r.doomed = {}
  <2> DEFINE q == [r EXCEPT !.at = "isEmpty"]
  <2>1. q.todo = r.todo /\ q.user = r.user /\ q.at = "isEmpty"
    BY DEF Thread
  <2>2. thread' = [thread EXCEPT ![t] = q] /\ tables' = tables
    BY <1>2, <1>3 DEF TakeSession, Go, Become
  <2>3. PICK p : p = q
    OBVIOUS
  <2> HIDE DEF q
  <2>4. \A f \in Files : ListedFor(f)' \subseteq ListedFor(f)
    BY <1>1, <2>2 DEF ListedFor, Listed
  <2>5. Leaves(p)'
    BY <1>1, <1>2, <1>3, <2>1, <2>3, <2>4, NoneLeft
  <2> QED
    BY <1>1, <2>2, <2>3, <2>5, CleanerAtWork, CleanerStep
<1>4. CASE r.doomed # {}
  <2>1. PICK s \in r.doomed :
          /\ Remove(t, s)
          /\ Become(t, [thread[t] EXCEPT !.doomed = @ \ {s}, !.taken = s,
                !.at = IF s \in Listed(thread[t].table) THEN "unmap" ELSE "take"])
    BY <1>2, <1>4 DEF TakeSession
  <2>2. s \in Sessions
    BY <1>2 DEF Thread
  <2>3. PICK label \in {"unmap", "take"} :
           label = IF s \in Listed(thread[t].table) THEN "unmap" ELSE "take"
    OBVIOUS
  <2> DEFINE q == [r EXCEPT !.doomed = r.doomed \ {s}, !.taken = s, !.at = label]
  <2>4. /\ q.at = label /\ q.file = r.file /\ q.user = r.user /\ q.taken = s
        /\ q.todo = r.todo /\ q.doomed = r.doomed \ {s}
    BY DEF Thread
  <2>5. thread' = [thread EXCEPT ![t] = q]
    BY <1>2, <2>1, <2>3 DEF Become
  <2>6. PICK p : p = q
    OBVIOUS
  <2> HIDE DEF q
  <2>7. /\ r.table \in Tables
        /\ tables \in [Tables -> [Sessions -> Stamp]]
        /\ tables' = [tables EXCEPT ![r.table][s] = Absent]
    BY <1>1, <1>2, <2>1 DEF Fits, Remove, IInv, SharedOK
  <2>8. s \notin ListedFor(r.file)'
    BY <1>1, <1>2, <2>2, <2>7 DEF Current, ListedFor, Listed
  <2>9. t \in Threads
    BY DEF Threads
  <2>10. /\ fileLocks \in [Files -> Tables \cup {NoTable}]
         /\ \A d \in Tables, c \in Sessions : tables'[d][c] # Absent => tables[d][c] # Absent
    BY <2>7 DEF IInv, SharedOK
  <2>11. \A f \in Files : ListedFor(f)' \subseteq ListedFor(f)
    BY <1>1, <2>10 DEF ListedFor, Listed
  <2>12. ASSUME NEW g \in Files \ p.todo, NEW c \in ListedFor(g)',
                SessionUser(c)' = p.user
         PROVE  p.file = g /\ c \in p.doomed
    <3>1. c \in ListedFor(g) /\ SessionUser(c) = r.user /\ g \in Files \ r.todo
      BY <1>1, <2>4, <2>6, <2>11, <2>12 DEF SessionUser
    <3>2. r.file = g /\ c \in r.doomed
      BY <1>1, <1>2, <3>1 DEF Leaves
    <3>3. c # s
      BY <2>8, <2>12, <3>2
    <3> QED
      BY <2>4, <2>6, <3>2, <3>3
  <2>13. \A c \in r.doomed : SessionUser(c)' = r.user
    BY <1>1, <1>2 DEF Leaves, SessionUser
  <2>14. /\ p.at \in {"take", "unmap"} /\ p.taken \notin p.doomed
         /\ \A c \in p.doomed : SessionUser(c)' = p.user
         /\ p.taken = s /\ SessionUser(s)' = p.user
    BY <2>1, <2>4, <2>6, <2>13
  <2>15. SessionUser(p.taken)' = p.user
    BY <2>14 DEF SessionUser
  <2>16. Leaves(p)'
    BY <2>12, <2>14, <2>15 DEF Leaves
  <2> QED
    BY <1>1, <2>5, <2>6, <2>16, CleanerAtWork, CleanerStep
<1> QED
  BY <1>3, <1>4

\* Once the session taken is forgotten it may count as another user's: the files
\* already visited do not list it.
LEMMA UnmapSessionLeaves ==
    ASSUME IInv, ExclusionInv, CleanupInv, NEW t \in Cleaners, UnmapSession(t)
    PROVE  CleanupInv'
<1>1. /\ ~At(t, "idle") /\ UNCHANGED <<fileLocks, tables>>
      /\ thread[t].at = "unmap"
      /\ sessionToUser' = [sessionToUser EXCEPT ![thread[t].taken] = NoUser]
      /\ sessionToUser \in [Sessions -> Users \cup {NoUser}]
  BY DEF UnmapSession, At, IInv, SharedOK
<1>2. PICK r \in Thread : r = thread[t] /\ Leaves(r)
  BY <1>1, CleanerAtWork
<1> DEFINE q == [r EXCEPT !.at = "take", !.taken = NoSession]
<1>3. /\ q.at = "take" /\ q.file = r.file /\ q.user = r.user
      /\ q.todo = r.todo /\ q.doomed = r.doomed
  BY DEF Thread
<1>4. thread' = [thread EXCEPT ![t] = q]
  BY <1>2 DEF UnmapSession, Become
<1>5. PICK p : p = q
  OBVIOUS
<1> HIDE DEF q
<1>6. ASSUME NEW s \in Sessions, s # r.taken PROVE SessionUser(s)' = SessionUser(s)
  BY <1>1, <1>2, <1>6 DEF SessionUser
<1>7. /\ r.doomed \subseteq Sessions /\ r.taken \notin r.doomed
      /\ SessionUser(r.taken) = r.user
      /\ \A s \in r.doomed : SessionUser(s) = r.user
  BY <1>1, <1>2 DEF Leaves, Thread
<1>8. ASSUME NEW g \in Files \ p.todo, NEW s \in ListedFor(g)',
             SessionUser(s)' = p.user
      PROVE  p.file = g /\ s \in p.doomed
  <2>1. s \in ListedFor(g) /\ s \in Sessions /\ g \in Files \ r.todo
    BY <1>1, <1>3, <1>5, <1>8 DEF ListedFor, Listed
  <2>2. s # r.taken
    BY <1>1, <1>2, <1>7, <2>1 DEF Leaves
  <2>3. SessionUser(s) = r.user
    BY <1>3, <1>5, <1>6, <1>8, <2>1, <2>2
  <2> QED
    BY <1>2, <1>1, <1>3, <1>5, <2>1, <2>3 DEF Leaves
<1>9. p.at = "take" /\ \A s \in p.doomed : SessionUser(s)' = p.user
  BY <1>3, <1>5, <1>6, <1>7
<1>10. Leaves(p)'
  BY <1>8, <1>9 DEF Leaves
<1> QED
  BY <1>1, <1>4, <1>5, <1>10, CleanerAtWork, CleanerStep

LEMMA EmptyTableLeaves ==
    ASSUME IInv, ExclusionInv, CleanupInv, NEW t \in Cleaners,
           TestEmpty(t) \/ DropTable(t)
    PROVE  CleanupInv'
<1>1. /\ ~At(t, "idle") /\ UNCHANGED <<tables, sessionToUser>>
      /\ thread[t].at \in {"isEmpty", "drop"}
  BY DEF TestEmpty, DropTable, At
<1>2. PICK r \in Thread : r = thread[t] /\ Leaves(r) /\ Fits(t, r)
  BY <1>1, CleanerAtWork
<1>3. PICK label \in {"drop", "visit"} : Go(t, label)
  BY <1>2 DEF TestEmpty, DropTable, Fits
<1> DEFINE q == [r EXCEPT !.at = label]
<1>4. q.todo = r.todo /\ q.user = r.user /\ q.at = label
  BY DEF Thread
<1>5. thread' = [thread EXCEPT ![t] = q]
  BY <1>2, <1>3 DEF Go, Become
<1>6. PICK p : p = q
  OBVIOUS
<1> HIDE DEF q
<1>7. \A f \in Files : fileLocks'[f] = NoTable \/ fileLocks'[f] = fileLocks[f]
  BY DEF TestEmpty, DropTable, IInv, SharedOK
<1>8. \A f \in Files : ListedFor(f)' \subseteq ListedFor(f)
  BY <1>1, <1>7 DEF ListedFor, Listed
<1>9. Leaves(p)'
  BY <1>1, <1>2, <1>4, <1>6, <1>8, NoneLeft
<1> QED
  BY <1>1, <1>5, <1>6, <1>9, CleanerAtWork, CleanerStep

\* The only steps a cleanup takes.
LEMMA CleanerWork ==
    ASSUME IInv, NEW t \in Cleaners, Work(t)
    PROVE  \/ TestEmpty(t) \/ DropTable(t) \/ VisitFile(t) \/ MatchSessions(t)
           \/ TakeSession(t) \/ UnmapSession(t)
<1>1. t \in Threads /\ ThreadOK
  BY DEF Threads, IInv
<1>2. t \notin Sessions
  BY SessionLocksAssumption
<1> QED
  BY <1>1, <1>2, SessionAt DEF Work, GetTable, ListExpired, PurgeExpired, FirstActive,
     MapSession, ProbeSession, CheckExpired, ForgetExpired, ReadClock, StoreLock,
     ClearTable, UnlistTable, At

\* What a session's request does elsewhere leaves a cleanup's work done: it adds no
\* session, since it does not sweep, and forgets no session's user.
LEMMA SessionWork ==
    ASSUME IInv, ExclusionInv, NEW t \in Sessions, Work(t), ~Sweeps(thread[t].op)
    PROVE  /\ sessionToUser' = sessionToUser
           /\ \A f \in Files : ListedFor(f)' \subseteq ListedFor(f)
<1>1. t \in Threads /\ ~At(t, "idle")
  BY OwnStep DEF Threads
<1>2. PICK r \in Thread : r = thread[t] /\ Fits(t, r) /\ Carries(t, r)
  BY <1>1, AtWork
<1>3. r.method # "AddLock" /\ r.method # "CleanupStaleSessionsForUser"
  BY <1>2 DEF Carries, Serves, Sweeps
<1>4. ~MapSession(t) /\ ~UnmapSession(t)
  BY <1>2, <1>3 DEF MapSession, UnmapSession, At, Carries, InMethod
<1>5. sessionToUser' = sessionToUser
  BY <1>4 DEF Work, GetTable, ListExpired, PurgeExpired, FirstActive, TestEmpty, DropTable,
     ProbeSession, CheckExpired, ForgetExpired, ReadClock, StoreLock, ClearTable,
     UnlistTable, VisitFile, MatchSessions, TakeSession
<1>6. ASSUME StoreLock(t), NEW f \in Files
      PROVE  ListedFor(f)' \subseteq ListedFor(f)
  <2>1. /\ At(t, "store") /\ fileLocks' = fileLocks
        /\ tables \in [Tables -> [Sessions -> Stamp]]
        /\ fileLocks \in [Files -> Tables \cup {NoTable}]
    BY <1>6 DEF StoreLock, IInv, SharedOK
  <2>2. CASE ~AsSeen(t)
    BY <1>6, <2>1, <2>2 DEF StoreLock, ListedFor, Listed
  <2>3. CASE AsSeen(t)
    <3>1. PICK d \in Tables : d = r.table /\ tables[d][t] # Absent
      BY <1>1, <1>2, <1>3, <2>1, <2>3, StoresWhere
    <3>2. tables' = [tables EXCEPT ![d][t] = r.date]
      BY <1>2, <1>6, <2>3, <3>1 DEF StoreLock
    <3>3. \A e \in Tables, s \in Sessions : tables'[e][s] # Absent => tables[e][s] # Absent
      BY <2>1, <3>1, <3>2
    <3> QED
      BY <2>1, <3>3 DEF ListedFor, Listed
  <2> QED
    BY <2>2, <2>3
<1> QED
  BY <1>1, <1>5, <1>6, ListedShrinks

LEMMA SessionWorkLeaves ==
    ASSUME IInv, ExclusionInv, CleanupInv, NEW t \in Sessions, Work(t)
    PROVE  CleanupInv'
<1>1. /\ t \in Threads /\ t \notin Cleaners /\ Cleaners \subseteq Threads
      /\ ~At(t, "idle")
  BY SessionLocksAssumption, OwnStep DEF Threads
<1>2. ASSUME NEW u \in Cleaners, ~At(u, "idle")' PROVE Leaves(thread[u])'
  <2>1. thread'[u] = thread[u] /\ u # t /\ u \in Threads
    BY <1>1, OwnStep
  <2>2. ~At(u, "idle")
    BY <1>2, <2>1 DEF At
  <2>3. PICK r \in Thread : r = thread[u] /\ Leaves(r) /\ Sweeps(r.op)
    BY <2>2, CleanerAtWork
  <2>4. ~Sweeps(thread[t].op)
    BY <1>1, <2>1, <2>2, <2>3, SweepsAlone
  <2>5. /\ sessionToUser' = sessionToUser
        /\ \A f \in Files : ListedFor(f)' \subseteq ListedFor(f)
    BY <2>4, SessionWork
  <2>6. Leaves(r)'
    BY <2>3, <2>5 DEF Leaves, SessionUser
  <2> QED
    BY <2>1, <2>3, <2>6 DEF Leaves
<1> QED
  BY <1>2 DEF CleanupInv

LEMMA CleanupInit == Init => CleanupInv
BY DEF Init, CleanupInv, At, Idle, Threads

LEMMA CleanupNext ==
    ASSUME Isolated PROVE IInv /\ ExclusionInv /\ CleanupInv /\ [Next]_vars => CleanupInv'
<1> SUFFICES ASSUME IInv, ExclusionInv, CleanupInv, [Next]_vars PROVE CleanupInv'
  OBVIOUS
<1>1. CASE \E t \in Cleaners : ForceSaveAndCleanupUserSessions(t)
  BY <1>1, CleanupArrivesLeaves
<1>2. CASE \E t \in Cleaners : Work(t)
  BY <1>2, CleanerWork, VisitFileLeaves, MatchSessionsLeaves, TakeSessionLeaves,
     UnmapSessionLeaves, EmptyTableLeaves
<1>3. CASE \E t \in Sessions : Work(t)
  BY <1>3, SessionWorkLeaves
<1>4. CASE \E s \in Sessions : Arrive(s)
  <2>1. PICK t \in Sessions : Arrive(t)
    BY <1>4
  <2>2. Cleaners \subseteq Threads /\ thread \in [Threads -> Thread] /\ t \notin Cleaners
    BY SessionLocksAssumption DEF Threads, IInv, ThreadOK
  <2>3. /\ \A u \in Cleaners : thread'[u] = thread[u]
        /\ UNCHANGED <<fileLocks, tables, sessionToUser>>
    BY <2>1, <2>2 DEF Arrive, Begin, Become
  <2> QED
    BY <2>3 DEF CleanupInv, Leaves, At, ListedFor, Listed, SessionUser
<1>5. CASE Tick \/ UNCHANGED vars
  BY <1>5 DEF Tick, vars, CleanupInv, Leaves, At, ListedFor, Listed, SessionUser
<1> QED
  BY <1>1, <1>2, <1>3, <1>4, <1>5 DEF Next, Threads

\* CleanupStaleSessionsForUser with both look-ups of a session's user: when it
\* answers, no file has a session of the user left, although taking a session also
\* forgets whose it was and other files are refreshed and unlocked in the meantime.
THEOREM CleanupsAreComplete ==
    ASSUME Isolated PROVE Spec => CleanupTakesKnown
<1> DEFINE Complete ==
      \A t \in Cleaners :
         thread[t].op = "Cleanup" /\ thread'[t].op = "none" =>
            \A f \in Files : \A s \in ListedFor(f) : SessionUser(s) # thread[t].user
<1>1. IInv /\ ExclusionInv /\ CleanupInv /\ [Next]_vars => [Complete]_vars
  <2> SUFFICES ASSUME IInv, ExclusionInv, CleanupInv, Next, NEW t \in Cleaners,
                      thread[t].op = "Cleanup", thread'[t].op = "none"
               PROVE  \A f \in Files : \A s \in ListedFor(f) :
                         SessionUser(s) # thread[t].user
    OBVIOUS
  <2>1. t \in Threads /\ thread \in [Threads -> Thread] /\ t \notin Sessions
    BY SessionLocksAssumption DEF Threads, IInv, ThreadOK
  <2>2. Work(t)
    <3>1. CASE \E s \in Sessions : Arrive(s)
      BY <2>1, <3>1 DEF Arrive, Begin, Become
    <3>2. CASE \E c \in Cleaners : ForceSaveAndCleanupUserSessions(c)
      <4>1. PICK c \in Cleaners, u \in Users :
               Begin(c, [Idle EXCEPT !.at = "visit", !.op = "Cleanup",
                                      !.method = "CleanupStaleSessionsForUser",
                                      !.user = u, !.todo = Files])
        BY <3>2 DEF ForceSaveAndCleanupUserSessions
      <4> QED
        BY <2>1, <4>1 DEF Begin, Become, Idle
    <3>3. CASE \E u \in Threads : Work(u)
      BY <2>1, <3>3, OwnStep
    <3> QED
      BY <3>1, <3>2, <3>3 DEF Next, Tick
  <2>3. ~At(t, "idle")
    BY <2>1, <2>2, OwnStep
  <2>4. PICK r \in Thread : r = thread[t] /\ Fits(t, r) /\ Leaves(r)
    BY <2>3, CleanerAtWork
  <2>5. VisitFile(t) /\ r.todo = {}
    <3>1. ASSUME NEW q, q.op = r.op, Become(t, q) PROVE FALSE
      BY <2>1, <2>4, <3>1 DEF Become
    <3>2. ASSUME NEW label, Go(t, label) PROVE FALSE
      <4>1. [r EXCEPT !.at = label].op = r.op
        BY DEF Thread
      <4> QED
        BY <2>4, <3>1, <3>2, <4>1 DEF Go
    <3>3. ~TestEmpty(t) /\ ~DropTable(t)
      BY <2>1, <2>4, <3>2 DEF TestEmpty, DropTable, Fits
    <3>4. ~MatchSessions(t)
      <4>1. \A D : [r EXCEPT !.at = "take", !.doomed = D].op = r.op
        BY DEF Thread
      <4> QED
        BY <2>4, <3>1, <4>1 DEF MatchSessions
    <3>5. ~TakeSession(t)
      <4>1. ASSUME NEW s, NEW label,
                   Become(t, [thread[t] EXCEPT !.doomed = @ \ {s}, !.taken = s,
                                               !.at = label])
            PROVE  FALSE
        <5>1. [r EXCEPT !.doomed = r.doomed \ {s}, !.taken = s, !.at = label].op = r.op
          BY DEF Thread
        <5> QED
          BY <2>4, <3>1, <4>1, <5>1
      <4>2. ASSUME TakeSession(t), thread[t].doomed # {} PROVE FALSE
        <5>1. PICK s \in thread[t].doomed :
                Become(t, [thread[t] EXCEPT !.doomed = @ \ {s}, !.taken = s,
                   !.at = IF s \in Listed(thread[t].table) THEN "unmap" ELSE "take"])
          BY <4>2 DEF TakeSession
        <5> QED
          BY <4>1, <5>1
      <4> QED
        BY <3>2, <4>2 DEF TakeSession
    <3>6. ~UnmapSession(t)
      <4>1. [r EXCEPT !.at = "take", !.taken = NoSession].op = r.op
        BY DEF Thread
      <4> QED
        BY <2>4, <3>1, <4>1 DEF UnmapSession
    <3>7. VisitFile(t)
      BY <2>2, <3>3, <3>4, <3>5, <3>6, CleanerWork
    <3>8. ASSUME r.todo # {} PROVE FALSE
      <4>1. ASSUME NEW f, NEW d, NEW label,
                   Become(t, [thread[t] EXCEPT !.todo = @ \ {f}, !.file = f,
                                               !.table = d, !.at = label])
            PROVE  FALSE
        <5>1. [r EXCEPT !.todo = r.todo \ {f}, !.file = f,
                        !.table = d, !.at = label].op = r.op
          BY DEF Thread
        <5> QED
          BY <2>4, <3>1, <4>1, <5>1
      <4>2. PICK f \in thread[t].todo :
              Become(t, [thread[t] EXCEPT !.todo = @ \ {f}, !.file = f,
                            !.table = fileLocks[f],
                            !.at = IF fileLocks[f] = NoTable THEN "visit" ELSE "match"])
        BY <2>4, <3>7, <3>8 DEF VisitFile
      <4>3. PICK d : d = fileLocks[f]
        OBVIOUS
      <4>4. PICK label : label = IF fileLocks[f] = NoTable THEN "visit" ELSE "match"
        OBVIOUS
      <4> QED
        BY <4>1, <4>2, <4>3, <4>4
    <3> QED
      BY <3>7, <3>8
  <2>6. r.at = "visit"
    BY <2>4, <2>5 DEF VisitFile, At
  <2> QED
    BY <2>4, <2>5, <2>6 DEF Leaves
<1> QED
  BY <1>1, InitOK, NextOK, ExclusionInit, ExclusionNext, CleanupInit, CleanupNext,
     PTL DEF Spec, CleanupTakesKnown

-----------------------------------------------------------------------------
(* No two requests that conflict: why a session is taken out of a table.   *)

\* What a step at work changes: sessions leave tables, but for the one that stores a
\* lock of its own, and only a sweep learns or forgets a session's user.
LEMMA WorkChanges ==
    ASSUME IInv, ExclusionInv, NEW t \in Threads, Work(t)
    PROVE  /\ now' = now
           /\ \A d \in Tables, s \in Sessions :
                 \/ tables'[d][s] \in {Absent, tables[d][s]}
                 \/ s = t /\ d = thread[t].table /\ At(t, "store") /\ AsSeen(t)
           /\ sessionToUser' = sessionToUser \/ Sweeps(thread[t].op)
<1>1. /\ tables \in [Tables -> [Sessions -> Stamp]] /\ ThreadOK /\ ~At(t, "idle")
      /\ \A s \in Sessions : Empty[s] = Absent
  BY OwnStep DEF IInv, SharedOK, Empty
<1>2. now' = now
  BY DEF Work, GetTable, ListExpired, PurgeExpired, FirstActive, TestEmpty, DropTable,
     MapSession, ProbeSession, CheckExpired, ForgetExpired, ReadClock, StoreLock, ClearTable,
     UnlistTable, VisitFile, MatchSessions, TakeSession, UnmapSession
<1>3. ASSUME NEW d \in Tables, NEW s \in Sessions
      PROVE  \/ tables'[d][s] \in {Absent, tables[d][s]}
             \/ s = t /\ d = thread[t].table /\ At(t, "store") /\ AsSeen(t)
  <2>1. CASE tables' = tables
    BY <2>1
  <2>2. CASE \E e \in Tables : tables' = [tables EXCEPT ![e] = Empty]
    BY <1>1, <2>2
  <2>3. CASE \E c : Remove(t, c)
    BY <1>1, <2>3 DEF Remove
  <2>4. CASE StoreLock(t)
    BY <1>1, <2>4 DEF StoreLock
  <2>5. CASE ClearTable(t)
    BY <1>1, <2>5 DEF ClearTable
  <2>6. CASE GetTable(t)
    BY <2>1, <2>2, <2>6 DEF GetTable
  <2>7. CASE PurgeExpired(t) \/ TakeSession(t) \/ ForgetExpired(t)
    BY <2>1, <2>3, <2>7 DEF PurgeExpired, TakeSession, ForgetExpired
  <2> QED
    BY <2>1, <2>4, <2>5, <2>6, <2>7
    DEF Work, ListExpired, FirstActive, TestEmpty, DropTable, MapSession, ProbeSession,
        CheckExpired, ReadClock, UnlistTable, VisitFile, MatchSessions, UnmapSession
<1>4. sessionToUser' = sessionToUser \/ Sweeps(thread[t].op)
  <2>1. PICK r \in Thread : r = thread[t] /\ Fits(t, r) /\ Carries(t, r)
    BY <1>1, AtWork
  <2>2. CASE MapSession(t)
    <3>1. t \in Sessions
      BY <1>1, <2>2, SessionAt DEF MapSession, At
    <3> QED
      BY <2>1, <2>2, <3>1 DEF MapSession, At, Carries, InMethod, Serves, Sweeps
  <2>3. CASE UnmapSession(t)
    BY <2>1, <2>3 DEF UnmapSession, At, Carries, InMethod, Serves, Sweeps, Threads
  <2> QED
    BY <2>2, <2>3
    DEF Work, GetTable, ListExpired, PurgeExpired, FirstActive, TestEmpty, DropTable,
        ProbeSession, CheckExpired, ForgetExpired, ReadClock, StoreLock, ClearTable,
        UnlistTable, VisitFile, MatchSessions, TakeSession
<1> QED
  BY <1>2, <1>3, <1>4

\* A session that has expired has still expired once it is out of its table.
LEMMA AbsentExpired ==
    ASSUME IInv, NEW date \in Stamp, Expired(date)
    PROVE  Expired(Absent)
<1>1. now \in Int /\ Lifetime \in Int /\ date \in Int /\ date >= Absent /\ Absent \in Int
  BY SessionLocksAssumption DEF IInv, SharedOK, Time, Stamp, Absent
<1> QED
  BY <1>1 DEF Expired

\* What another request goes by outlasts a step.
LEMMA OthersGrounds ==
    ASSUME IInv, ExclusionInv, HeldInv, NEW t \in Threads, Work(t),
           NEW u \in Threads, u # t, ~At(u, "idle")
    PROVE  \E r \in Thread : r = thread[u] /\ Grounds(u, r)'
<1>1. ~At(t, "idle")
  BY OwnStep
<1>2. PICK r \in Thread : /\ r = thread[u] /\ Fits(u, r) /\ Carries(u, r)
                          /\ Grounds(u, r)
  BY AtWork DEF HeldInv
<1>3. /\ now' = now
      /\ \A d \in Tables, s \in Sessions :
            \/ tables'[d][s] \in {Absent, tables[d][s]}
            \/ s = t /\ d = thread[t].table /\ At(t, "store") /\ AsSeen(t)
      /\ sessionToUser' = sessionToUser \/ Sweeps(thread[t].op)
  BY WorkChanges
<1>4. ASSUME r.at = "purge", NEW s \in r.doomed PROVE Expired(tables[r.table][s])'
  <2>1. s \in Sessions /\ r.table \in Tables /\ Current(r)
    BY <1>2, <1>4 DEF Thread, Fits, Carries, AtTable
  <2>2. PICK d \in Tables : d = r.table
    BY <2>1
  <2>3. u \in Sessions /\ r.method \in {"TryGetLock", "AddLock"} /\ r.file = r.asked
    BY <1>2, <1>4 DEF Fits, Carries, InMethod, Knows, Threads
  <2>4. tables'[d][s] \in {Absent, tables[d][s]}
    <3>1. SUFFICES ASSUME d = thread[t].table, At(t, "store"), AsSeen(t) PROVE FALSE
      BY <1>3, <2>1
    <3>2. PICK f \in Files : /\ fileLocks[f] = d
                             /\ u \in Sessions => thread[u].asked # f
      BY <3>1, StoresWhere
    <3> QED
      BY <1>2, <2>1, <2>2, <2>3, <3>2 DEF Current
  <2>5. PICK date \in Stamp : date = tables[d][s]
    BY <2>1 DEF IInv, SharedOK
  <2>6. Expired(date) /\ Expired(Absent)
    BY <1>2, <1>4, <2>2, <2>5, AbsentExpired DEF Grounds
  <2>7. date + Lifetime < now' /\ Absent + Lifetime < now'
    BY <1>3, <2>6 DEF Expired
  <2>8. tables'[d][s] + Lifetime < now'
    BY <2>4, <2>5, <2>7
  <2> QED
    BY <2>2, <2>8 DEF Expired
<1>5. ASSUME r.at \in {"check", "forget"} PROVE tables'[r.table][u] \in {r.seen, Absent}
  <2>1. u \in Sessions /\ r.table \in Tables
    BY <1>2, <1>5 DEF Fits, Threads
  <2> QED
    BY <1>2, <1>3, <1>5, <2>1 DEF Grounds
<1>6. ASSUME r.at \in {"take", "unmap"}, NEW s \in r.doomed
      PROVE  SessionUser(s)' = r.user
  <2>1. Sweeps(r.op)
    BY <1>2, <1>6 DEF Carries, InMethod, Serves, Sweeps, Threads
  <2>2. sessionToUser' = sessionToUser
    BY <1>1, <1>2, <1>3, <2>1, SweepsAlone
  <2> QED
    BY <1>2, <1>6, <2>2 DEF Grounds, SessionUser
<1>7. r.at = "forget" => Expired(r.seen)'
  BY <1>2, <1>3 DEF Grounds, Expired
<1>8. Grounds(u, r)'
  BY <1>2, <1>4, <1>5, <1>6, <1>7 DEF Grounds
<1> QED
  BY <1>2, <1>8

\* A step of one thread.
LEMMA HeldStep ==
    ASSUME IInv, HeldInv, NEW t \in Threads, NEW q, thread' = [thread EXCEPT ![t] = q],
           \A u \in Threads \ {t} : ~At(u, "idle") =>
              \E r \in Thread : r = thread[u] /\ Grounds(u, r)',
           \A s \in Sessions : sessionToUser'[s] \in {NoUser, KnownUser(s)},
           \A f \in Files : ListedFor(f)' \subseteq ListedFor(f),
           q.at = "idle" \/ Grounds(t, q)'
    PROVE  HeldInv'
<1>1. thread \in [Threads -> Thread]
  BY DEF IInv, ThreadOK
<1>2. thread'[t] = q /\ \A u \in Threads \ {t} : thread'[u] = thread[u]
  BY <1>1
<1>3. ASSUME NEW u \in Threads, ~At(u, "idle")' PROVE Grounds(u, thread[u])'
  <2>1. CASE u = t
    <3>1. Grounds(u, q)' /\ thread'[u] = q
      BY <1>2, <1>3, <2>1 DEF At
    <3> QED
      BY <3>1 DEF Grounds
  <2>2. CASE u # t
    <3>1. PICK r \in Thread : r = thread'[u] /\ Grounds(u, r)'
      BY <1>2, <1>3, <2>2 DEF At
    <3> QED
      BY <3>1 DEF Grounds
  <2> QED
    BY <2>1, <2>2
<1> QED
  BY <1>3 DEF HeldInv

LEMMA HeldAtWork ==
    ASSUME IInv, ExclusionInv, HeldInv, NEW t \in Threads, ~At(t, "idle")
    PROVE  \E r \in Thread : r = thread[t] /\ Fits(t, r) /\ Carries(t, r) /\ Grounds(t, r)
BY AtWork DEF HeldInv

\* A step at work that leaves sessionToUser alone.
LEMMA HeldWork ==
    ASSUME IInv, ExclusionInv, HeldInv, NEW t \in Threads, Work(t), ~StoreLock(t),
           NEW q, thread' = [thread EXCEPT ![t] = q], sessionToUser' = sessionToUser,
           q.at = "idle" \/ Grounds(t, q)'
    PROVE  HeldInv'
<1>1. \A s \in Sessions : sessionToUser'[s] \in {NoUser, KnownUser(s)}
  BY DEF HeldInv
<1> QED
  BY <1>1, ListedShrinks, OthersGrounds, HeldStep

LEMMA AnswerHeld ==
    ASSUME IInv, ExclusionInv, HeldInv, NEW t \in Threads, Work(t), ~StoreLock(t),
           Answer(t), sessionToUser' = sessionToUser
    PROVE  HeldInv'
<1>1. PICK q \in Thread : q = Idle /\ q.at = "idle"
  BY IdleOK DEF Idle
<1> QED
  BY <1>1, HeldWork DEF Answer, Become

\* Points at which a thread needs no grounds.
LEMMA GroundsOn ==
    ASSUME NEW t \in Threads, NEW r, NEW q, Grounds(t, r),
           q.at \in {"list", "first", "probe", "stamp", "store"},
           q.asked = r.asked, q.op = r.op, q.method = r.method
    PROVE  Grounds(t, q)'
BY DEF Grounds

LEMMA HandleHeld ==
    ASSUME IInv, ExclusionInv, HeldInv, NEW t \in Sessions, NEW s,
           Work(t), ~StoreLock(t), Handle(t, s), sessionToUser' = sessionToUser
    PROVE  HeldInv'
<1>1. t \in Threads /\ t \notin Cleaners
  BY SessionLocksAssumption DEF Threads
<1>2. ~At(t, "idle")
  BY <1>1, OwnStep
<1>3. PICK r \in Thread : r = thread[t] /\ Grounds(t, r)
  BY <1>1, <1>2, HeldAtWork
<1>4. ASSUME NEW m \in {"AddLock", "RefreshLock", "RemoveLock"},
             NEW label \in {"map", "get"},
             m = "RemoveLock" => r.op = "Unlock",
             CallFor(t, m, label)
      PROVE  HeldInv'
  <2> DEFINE q == [r EXCEPT !.at = label, !.method = m,
                            !.table = NoTable, !.seen = Absent]
  <2>1. /\ q.at = label /\ q.method = m /\ q.asked = r.asked /\ q.op = r.op
    BY DEF Thread
  <2>2. thread' = [thread EXCEPT ![t] = q]
    BY <1>3, <1>4 DEF CallFor, Become
  <2>3. PICK p : p = q
    OBVIOUS
  <2> HIDE DEF q
  <2>4. Grounds(t, p)'
    BY <1>1, <1>3, <1>4, <2>1, <2>3 DEF Grounds
  <2> QED
    BY <1>1, <2>2, <2>3, <2>4, HeldWork
<1> QED
  BY <1>1, <1>3, <1>4, AnswerHeld DEF Handle

LEMMA WaitingGrounds ==
    ASSUME IInv, HeldInv, UNCHANGED <<fileLocks, tables, sessionToUser, now>>,
           NEW u \in Threads, ~At(u, "idle")
    PROVE  \E r \in Thread : r = thread[u] /\ Grounds(u, r)'
<1>1. PICK r \in Thread : r = thread[u] /\ Grounds(u, r)
  BY DEF IInv, ThreadOK, HeldInv
<1>2. Grounds(u, r)'
  BY <1>1 DEF Grounds, Expired, SessionUser
<1> QED
  BY <1>1, <1>2

LEMMA ArriveHeld ==
    ASSUME IInv, HeldInv, NEW s \in Sessions, Arrive(s)
    PROVE  HeldInv'
<1>1. /\ s \in Threads /\ s \notin Cleaners
      /\ UNCHANGED <<fileLocks, tables, sessionToUser, now>>
  BY SessionLocksAssumption DEF Threads, Arrive, Begin
<1>2. PICK op \in OpsOf[s], f \in FilesOf[s] :
         Begin(s, [Idle EXCEPT !.at = "get", !.method = "TryGetLock", !.op = op,
                                !.file = f, !.asked = f])
  BY DEF Arrive
<1>3. PICK r \in Thread : r = Idle
  BY IdleOK
<1> DEFINE q == [r EXCEPT !.at = "get", !.method = "TryGetLock", !.op = op,
                          !.file = f, !.asked = f]
<1>4. q.at = "get" /\ q.method = "TryGetLock" /\ q.asked = f
  BY DEF Thread
<1>5. thread' = [thread EXCEPT ![s] = q]
  BY <1>2, <1>3 DEF Begin, Become
<1>6. PICK p : p = q
  OBVIOUS
<1> HIDE DEF q
<1>7. Grounds(s, p)'
  BY <1>1, <1>4, <1>6 DEF Grounds
<1>8. /\ \A c \in Sessions : sessionToUser'[c] \in {NoUser, KnownUser(c)}
      /\ \A g \in Files : ListedFor(g)' \subseteq ListedFor(g)
  BY <1>1 DEF HeldInv, ListedFor, Listed
<1>9. ASSUME NEW u \in Threads, ~At(u, "idle")
      PROVE  \E p1 \in Thread : p1 = thread[u] /\ Grounds(u, p1)'
  BY <1>1, <1>9, WaitingGrounds
<1> QED
  BY <1>1, <1>5, <1>6, <1>7, <1>8, <1>9, HeldStep

LEMMA CleanupArrivesHeld ==
    ASSUME IInv, HeldInv, NEW t \in Cleaners, ForceSaveAndCleanupUserSessions(t)
    PROVE  HeldInv'
<1>1. /\ t \in Threads /\ t \notin Sessions
      /\ UNCHANGED <<fileLocks, tables, sessionToUser, now>>
  BY SessionLocksAssumption DEF Threads, ForceSaveAndCleanupUserSessions, Begin
<1>2. PICK u \in Users :
         Begin(t, [Idle EXCEPT !.at = "visit", !.op = "Cleanup",
                                !.method = "CleanupStaleSessionsForUser",
                                !.user = u, !.todo = Files])
  BY DEF ForceSaveAndCleanupUserSessions
<1>3. PICK r \in Thread : r = Idle
  BY IdleOK
<1> DEFINE q == [r EXCEPT !.at = "visit", !.op = "Cleanup",
                          !.method = "CleanupStaleSessionsForUser",
                          !.user = u, !.todo = Files]
<1>4. /\ q.at = "visit" /\ q.op = "Cleanup" /\ q.user = u
      /\ q.method = "CleanupStaleSessionsForUser"
  BY DEF Thread
<1>5. thread' = [thread EXCEPT ![t] = q]
  BY <1>2, <1>3 DEF Begin, Become
<1>6. PICK p : p = q
  OBVIOUS
<1> HIDE DEF q
<1>7. Grounds(t, p)'
  BY <1>1, <1>4, <1>6 DEF Grounds
<1>8. /\ \A c \in Sessions : sessionToUser'[c] \in {NoUser, KnownUser(c)}
      /\ \A g \in Files : ListedFor(g)' \subseteq ListedFor(g)
  BY <1>1 DEF HeldInv, ListedFor, Listed
<1>9. ASSUME NEW c \in Threads, ~At(c, "idle")
      PROVE  \E p1 \in Thread : p1 = thread[c] /\ Grounds(c, p1)'
  BY <1>1, <1>9, WaitingGrounds
<1> QED
  BY <1>1, <1>5, <1>6, <1>7, <1>8, <1>9, HeldStep

LEMMA GetTableHeld ==
    ASSUME IInv, ExclusionInv, HeldInv, NEW t \in Threads, GetTable(t)
    PROVE  HeldInv'
<1>1. /\ Work(t) /\ ~StoreLock(t) /\ ~At(t, "idle") /\ ThreadOK
      /\ sessionToUser' = sessionToUser /\ thread[t].at = "get"
  BY DEF GetTable, StoreLock, Work, At, IInv
<1>2. t \in Sessions
  BY <1>1, SessionAt
<1>3. PICK r \in Thread : /\ r = thread[t] /\ Grounds(t, r)
                          /\ r.method \in {"TryGetLock", "AddLock", "RefreshLock",
                                            "RemoveLock"}
  BY <1>1, <1>2, HeldAtWork DEF Carries, InMethod
<1>4. ASSUME NEW label \in {"list", "probe", "clear"}, NEW d,
             label = "clear" => r.method = "RemoveLock",
             Become(t, [thread[t] EXCEPT !.at = label, !.table = d])
      PROVE  HeldInv'
  <2> DEFINE q == [r EXCEPT !.at = label, !.table = d]
  <2>1. q.at = label /\ q.method = r.method /\ q.asked = r.asked /\ q.op = r.op
    BY DEF Thread
  <2>2. thread' = [thread EXCEPT ![t] = q]
    BY <1>3, <1>4 DEF Become
  <2>3. PICK p : p = q
    OBVIOUS
  <2> HIDE DEF q
  <2>4. Grounds(t, p)'
    BY <1>3, <1>4, <2>1, <2>3 DEF Grounds
  <2> QED
    BY <1>1, <2>2, <2>3, <2>4, HeldWork
<1>5. \/ \E label \in {"list", "probe", "clear"} : \E d :
            /\ label = "clear" => r.method = "RemoveLock"
            /\ Become(t, [thread[t] EXCEPT !.at = label, !.table = d])
      \/ NotFound(t)
  <2>1. PICK d : d = fileLocks[thread[t].file]
    OBVIOUS
  <2>2. CASE d # NoTable
    <3>1. PICK label \in {"list", "probe", "clear"} :
             label = AfterGet(t) /\ (label = "clear" => r.method = "RemoveLock")
      BY <1>1, <1>3 DEF AfterGet
    <3>2. Become(t, [thread[t] EXCEPT !.at = label, !.table = d])
      BY <2>1, <2>2, <3>1 DEF GetTable
    <3> QED
      BY <3>1, <3>2
  <2>3. CASE d = NoTable
    BY <2>1, <2>3 DEF GetTable
  <2> QED
    BY <2>2, <2>3
<1> QED
  BY <1>1, <1>2, <1>4, <1>5, HandleHeld, AnswerHeld DEF NotFound

LEMMA ListExpiredHeld ==
    ASSUME IInv, ExclusionInv, HeldInv, NEW t \in Threads, ListExpired(t)
    PROVE  HeldInv'
<1>1. /\ Work(t) /\ ~StoreLock(t) /\ ~At(t, "idle")
      /\ UNCHANGED <<fileLocks, tables, sessionToUser, now>>
  BY DEF ListExpired, StoreLock, Work, At
<1>2. PICK r \in Thread : r = thread[t] /\ Grounds(t, r)
  BY <1>1, HeldAtWork
<1> DEFINE D == {s \in Listed(r.table) : Expired(tables[r.table][s])}
           q == [r EXCEPT !.at = "purge", !.doomed = D]
<1>3. thread' = [thread EXCEPT ![t] = q]
  BY <1>2 DEF ListExpired, Become
<1>4. PICK E : E = D
  OBVIOUS
<1>5. /\ q.at = "purge" /\ q.method = r.method /\ q.asked = r.asked
      /\ q.op = r.op /\ q.table = r.table /\ q.doomed = E
  BY <1>4 DEF Thread
<1>6. PICK p : p = q
  OBVIOUS
<1> HIDE DEF q
<1>7. \A s \in p.doomed : Expired(tables[p.table][s])'
  BY <1>1, <1>4, <1>5, <1>6 DEF Expired
<1>8. Grounds(t, p)'
  BY <1>2, <1>5, <1>6, <1>7 DEF Grounds
<1> QED
  BY <1>1, <1>3, <1>6, <1>8, HeldWork

LEMMA PurgeExpiredHeld ==
    ASSUME IInv, ExclusionInv, HeldInv, NEW t \in Threads, PurgeExpired(t)
    PROVE  HeldInv'
<1>1. /\ Work(t) /\ ~StoreLock(t) /\ ~At(t, "idle")
      /\ UNCHANGED <<fileLocks, sessionToUser, now>> /\ thread[t].at = "purge"
      /\ tables \in [Tables -> [Sessions -> Stamp]]
  BY DEF PurgeExpired, StoreLock, Work, At, IInv, SharedOK
<1>2. PICK r \in Thread : r = thread[t] /\ Grounds(t, r) /\ Fits(t, r)
  BY <1>1, HeldAtWork
<1>3. CASE r.doomed = {}
  <2>1. PICK label \in {"probe", "first"} : Go(t, label)
    BY <1>2, <1>3 DEF PurgeExpired
  <2> DEFINE q == [r EXCEPT !.at = label]
  <2>2. q.at = label /\ q.method = r.method /\ q.asked = r.asked /\ q.op = r.op
    BY DEF Thread
  <2>3. thread' = [thread EXCEPT ![t] = q]
    BY <1>2, <2>1 DEF Go, Become
  <2>4. PICK p : p = q
    OBVIOUS
  <2> HIDE DEF q
  <2>5. Grounds(t, p)'
    BY <1>2, <2>2, <2>4, GroundsOn
  <2> QED
    BY <1>1, <2>3, <2>4, <2>5, HeldWork
<1>4. CASE r.doomed # {}
  <2>1. PICK s \in r.doomed :
           /\ Remove(t, s)
           /\ Become(t, [thread[t] EXCEPT !.doomed = @ \ {s}])
    BY <1>2, <1>4 DEF PurgeExpired, Rest
  <2> DEFINE q == [r EXCEPT !.doomed = r.doomed \ {s}]
  <2>2. /\ q.at = "purge" /\ q.method = r.method /\ q.asked = r.asked
        /\ q.op = r.op /\ q.table = r.table /\ q.doomed = r.doomed \ {s}
    BY <1>1, <1>2 DEF Thread
  <2>3. thread' = [thread EXCEPT ![t] = q]
    BY <1>2, <2>1 DEF Become
  <2>4. PICK p : p = q
    OBVIOUS
  <2> HIDE DEF q
  <2>5. \A c \in Sessions \ {s} : tables'[r.table][c] = tables[r.table][c]
    BY <1>1, <1>2, <2>1 DEF Remove, Fits
  <2>6. \A c \in r.doomed : c \in Sessions /\ Expired(tables[r.table][c])
    BY <1>1, <1>2 DEF Grounds, Thread
  <2>7. ASSUME NEW c \in p.doomed PROVE Expired(tables[p.table][c])'
    BY <1>1, <2>2, <2>4, <2>5, <2>6, <2>7 DEF Expired
  <2>8. Grounds(t, p)'
    BY <1>2, <2>2, <2>4, <2>7 DEF Grounds
  <2> QED
    BY <1>1, <2>3, <2>4, <2>8, HeldWork
<1> QED
  BY <1>3, <1>4

LEMMA FirstActiveHeld ==
    ASSUME IInv, ExclusionInv, HeldInv, NEW t \in Threads, FirstActive(t)
    PROVE  HeldInv'
<1>1. /\ Work(t) /\ ~StoreLock(t) /\ ~At(t, "idle") /\ ThreadOK
      /\ sessionToUser' = sessionToUser /\ thread[t].at = "first"
  BY DEF FirstActive, StoreLock, Work, At, IInv
<1>2. t \in Sessions
  BY <1>1, SessionAt
<1>3. PICK r \in Thread : /\ r = thread[t] /\ Grounds(t, r)
                          /\ r.method = "TryGetLock"
  BY <1>1, <1>2, HeldAtWork DEF Carries, InMethod
<1>4. CASE \E s : Handle(t, s)
  BY <1>1, <1>2, <1>4, HandleHeld
<1>5. CASE Go(t, "isEmpty")
  <2> DEFINE q == [r EXCEPT !.at = "isEmpty"]
  <2>1. /\ q.at = "isEmpty" /\ q.method = r.method /\ q.asked = r.asked
        /\ q.op = r.op
    BY DEF Thread
  <2>2. thread' = [thread EXCEPT ![t] = q]
    BY <1>3, <1>5 DEF Go, Become
  <2>3. PICK p : p = q
    OBVIOUS
  <2> HIDE DEF q
  <2>4. Grounds(t, p)'
    BY <1>3, <2>1, <2>3 DEF Grounds
  <2> QED
    BY <1>1, <2>2, <2>3, <2>4, HeldWork
<1> QED
  BY <1>4, <1>5 DEF FirstActive

LEMMA EmptyTableHeld ==
    ASSUME IInv, ExclusionInv, HeldInv, NEW t \in Threads, TestEmpty(t) \/ DropTable(t)
    PROVE  HeldInv'
<1>1. /\ Work(t) /\ ~StoreLock(t) /\ ~At(t, "idle") /\ ThreadOK
      /\ UNCHANGED <<sessionToUser, tables>> /\ thread[t].at \in {"isEmpty", "drop"}
  BY DEF TestEmpty, DropTable, StoreLock, Work, At, IInv
<1>2. PICK r \in Thread : r = thread[t] /\ Grounds(t, r)
  BY <1>1, HeldAtWork
<1>3. CASE r.method = "TryGetLock" /\ Handle(t, NoSession)
  BY <1>1, <1>2, <1>3, SessionAt, HandleHeld
<1>4. ASSUME NEW label \in {"drop", "visit"}, Go(t, label),
             label = "drop" => Listed(r.table) = {} /\ r.at = "isEmpty",
             label = "visit" => r.method # "TryGetLock"
      PROVE  HeldInv'
  <2> DEFINE q == [r EXCEPT !.at = label]
  <2>1. /\ q.at = label /\ q.method = r.method /\ q.asked = r.asked
        /\ q.op = r.op /\ q.user = r.user /\ q.table = r.table
    BY DEF Thread
  <2>2. thread' = [thread EXCEPT ![t] = q]
    BY <1>2, <1>4 DEF Go, Become
  <2>3. PICK p : p = q
    OBVIOUS
  <2> HIDE DEF q
  <2>4. p.at = "drop" => Listed(p.table)' = {}
    BY <1>1, <1>4, <2>1, <2>3 DEF Listed
  <2>5. Grounds(t, p)'
    BY <1>1, <1>2, <1>4, <2>1, <2>3, <2>4 DEF Grounds
  <2> QED
    BY <1>1, <2>2, <2>3, <2>5, HeldWork
<1> QED
  BY <1>2, <1>3, <1>4 DEF TestEmpty, DropTable, At

LEMMA MapSessionHeld ==
    ASSUME IInv, ExclusionInv, HeldInv, NEW t \in Threads, MapSession(t)
    PROVE  HeldInv'
<1>1. /\ Work(t) /\ ~StoreLock(t) /\ ~At(t, "idle") /\ ThreadOK
      /\ UNCHANGED <<fileLocks, tables>> /\ thread[t].at = "map"
      /\ sessionToUser \in [Sessions -> Users \cup {NoUser}]
  BY DEF MapSession, StoreLock, Work, At, IInv, SharedOK
<1>2. t \in Sessions /\ t \notin Cleaners
  BY <1>1, SessionAt, SessionLocksAssumption
<1>3. PICK r \in Thread : r = thread[t] /\ Grounds(t, r) /\ r.method = "AddLock"
  BY <1>1, <1>2, HeldAtWork DEF Carries, InMethod
<1>4. CASE KnownUser(t) # NoUser
  <2>1. PICK u \in Users : u = KnownUser(t)
    BY <1>2, <1>4, SessionLocksAssumption DEF KnownUser
  <2> DEFINE q == [r EXCEPT !.at = "visit", !.user = u,
                            !.method = "CleanupStaleSessionsForUser", !.todo = Files]
  <2>2. /\ q.at = "visit" /\ q.method = "CleanupStaleSessionsForUser"
        /\ q.asked = r.asked /\ q.user = u
    BY DEF Thread
  <2>3. /\ thread' = [thread EXCEPT ![t] = q]
        /\ sessionToUser' = [sessionToUser EXCEPT ![t] = u]
    BY <1>3, <1>4, <2>1 DEF MapSession, Become
  <2>4. PICK p : p = q
    OBVIOUS
  <2> HIDE DEF q
  <2>5. Grounds(t, p)'
    BY <1>2, <1>3, <2>1, <2>2, <2>4 DEF Grounds
  <2>6. \A s \in Sessions : sessionToUser'[s] \in {NoUser, KnownUser(s)}
    BY <1>1, <2>1, <2>3 DEF HeldInv
  <2>7. /\ \A f \in Files : ListedFor(f)' \subseteq ListedFor(f)
        /\ \A c \in Threads \ {t} : ~At(c, "idle") =>
              \E p1 \in Thread : p1 = thread[c] /\ Grounds(c, p1)'
    BY <1>1, OthersGrounds DEF ListedFor, Listed
  <2> QED
    BY <2>3, <2>4, <2>5, <2>6, <2>7, HeldStep
<1>5. CASE KnownUser(t) = NoUser
  <2> DEFINE q == [r EXCEPT !.at = "get"]
  <2>1. q.at = "get" /\ q.method = "AddLock" /\ q.asked = r.asked
    BY <1>3 DEF Thread
  <2>2. thread' = [thread EXCEPT ![t] = q] /\ sessionToUser' = sessionToUser
    BY <1>3, <1>5 DEF MapSession, Go, Become
  <2>3. PICK p : p = q
    OBVIOUS
  <2> HIDE DEF q
  <2>4. Grounds(t, p)'
    BY <1>2, <1>3, <2>1, <2>3 DEF Grounds
  <2> QED
    BY <1>1, <2>2, <2>3, <2>4, HeldWork
<1> QED
  BY <1>4, <1>5

LEMMA ProbeSessionHeld ==
    ASSUME IInv, ExclusionInv, HeldInv, NEW t \in Threads, ProbeSession(t)
    PROVE  HeldInv'
<1>1. /\ Work(t) /\ ~StoreLock(t) /\ ~At(t, "idle")
      /\ UNCHANGED <<fileLocks, tables, sessionToUser>>
  BY DEF ProbeSession, StoreLock, Work, At
<1>2. PICK r \in Thread : r = thread[t] /\ Grounds(t, r)
  BY <1>1, HeldAtWork
<1>3. PICK date : date = tables[thread[t].table][t]
  OBVIOUS
<1>4. ASSUME NEW label \in {"stamp", "check"},
             Become(t, [thread[t] EXCEPT !.at = label, !.seen = date])
      PROVE  HeldInv'
  <2> DEFINE q == [r EXCEPT !.at = label, !.seen = date]
  <2>1. /\ q.at = label /\ q.method = r.method /\ q.asked = r.asked
        /\ q.op = r.op /\ q.table = r.table /\ q.seen = date
    BY DEF Thread
  <2>2. thread' = [thread EXCEPT ![t] = q]
    BY <1>2, <1>4 DEF Become
  <2>3. PICK p : p = q
    OBVIOUS
  <2> HIDE DEF q
  <2>4. tables'[p.table][t] = p.seen
    BY <1>1, <1>2, <1>3, <2>1, <2>3
  <2>5. Grounds(t, p)'
    BY <1>2, <2>1, <2>3, <2>4 DEF Grounds
  <2> QED
    BY <1>1, <2>2, <2>3, <2>5, HeldWork
<1> QED
  BY <1>1, <1>3, <1>4, AnswerHeld DEF ProbeSession

LEMMA CheckExpiredHeld ==
    ASSUME IInv, ExclusionInv, HeldInv, NEW t \in Threads, CheckExpired(t)
    PROVE  HeldInv'
<1>1. /\ Work(t) /\ ~StoreLock(t) /\ ~At(t, "idle") /\ thread[t].at = "check"
      /\ UNCHANGED <<fileLocks, tables, sessionToUser, now>>
  BY DEF CheckExpired, StoreLock, Work, At
<1>2. PICK r \in Thread : r = thread[t] /\ Grounds(t, r)
  BY <1>1, HeldAtWork
<1>3. PICK label \in {"forget", "stamp"} :
        Go(t, label) /\ (label = "forget" => Expired(r.seen))
  BY <1>2 DEF CheckExpired
<1> DEFINE q == [r EXCEPT !.at = label]
<1>4. /\ q.at = label /\ q.method = r.method /\ q.asked = r.asked
      /\ q.op = r.op /\ q.table = r.table /\ q.seen = r.seen
  BY DEF Thread
<1>5. thread' = [thread EXCEPT ![t] = q]
  BY <1>2, <1>3 DEF Go, Become
<1>6. PICK p : p = q
  OBVIOUS
<1> HIDE DEF q
<1>7. p.at = "forget" => Expired(p.seen)' /\ tables'[p.table][t] \in {p.seen, Absent}
  BY <1>1, <1>2, <1>3, <1>4, <1>6 DEF Expired, Grounds
<1>8. Grounds(t, p)'
  BY <1>2, <1>4, <1>6, <1>7 DEF Grounds
<1> QED
  BY <1>1, <1>5, <1>6, <1>8, HeldWork

LEMMA ReadClockHeld ==
    ASSUME IInv, ExclusionInv, HeldInv, NEW t \in Threads, ReadClock(t)
    PROVE  HeldInv'
<1>1. Work(t) /\ ~StoreLock(t) /\ ~At(t, "idle") /\ sessionToUser' = sessionToUser
  BY DEF ReadClock, StoreLock, Work, At
<1>2. PICK r \in Thread : r = thread[t] /\ Grounds(t, r)
  BY <1>1, HeldAtWork
<1> DEFINE q == [r EXCEPT !.at = "store", !.date = UtcNow]
<1>3. PICK date : date = UtcNow
  OBVIOUS
<1>4. q.at = "store" /\ q.method = r.method /\ q.asked = r.asked /\ q.op = r.op
  BY DEF Thread
<1>5. thread' = [thread EXCEPT ![t] = q]
  BY <1>2 DEF ReadClock, Become
<1>6. PICK p : p = q
  OBVIOUS
<1> HIDE DEF q
<1>7. Grounds(t, p)'
  BY <1>2, <1>4, <1>6, GroundsOn
<1> QED
  BY <1>1, <1>5, <1>6, <1>7, HeldWork

\* A session gets into the table of the file that its request names.
LEMMA StoreLockHeld ==
    ASSUME IInv, ExclusionInv, HeldInv, NEW t \in Threads, StoreLock(t)
    PROVE  HeldInv'
<1>1. /\ Work(t) /\ ~At(t, "idle") /\ ThreadOK /\ Answer(t)
      /\ UNCHANGED <<fileLocks, sessionToUser>> /\ thread[t].at = "store"
      /\ tables \in [Tables -> [Sessions -> Stamp]]
      /\ fileLocks \in [Files -> Tables \cup {NoTable}]
  BY DEF StoreLock, Work, At, IInv, SharedOK
<1>2. t \in Sessions
  BY <1>1, SessionAt
<1>3. PICK r \in Thread : /\ r = thread[t] /\ Fits(t, r) /\ Carries(t, r)
                          /\ Grounds(t, r)
  BY <1>1, HeldAtWork
<1>4. r.table \in Tables /\ Current(r) /\ r.file \in FilesOf[t]
  BY <1>1, <1>2, <1>3 DEF Fits, Carries, AtTable, Knows, Grounds
<1>5. ASSUME NEW f \in Files, NEW s \in ListedFor(f)' PROVE f \in FilesOf[s]
  <2>1. PICK d \in Tables : d = fileLocks[f] /\ tables'[d][s] # Absent /\ s \in Sessions
    BY <1>1, <1>5 DEF ListedFor, Listed
  <2>2. CASE tables[d][s] # Absent
    <3>1. s \in ListedFor(f)
      BY <2>1, <2>2, SessionLocksAssumption DEF ListedFor, Listed
    <3> QED
      BY <3>1 DEF HeldInv
  <2>3. CASE tables[d][s] = Absent
    <3>1. d = r.table /\ s = t
      BY <1>1, <1>3, <2>1, <2>3 DEF StoreLock
    <3>2. f = r.file
      BY <1>4, <2>1, <3>1 DEF Current
    <3> QED
      BY <1>4, <3>1, <3>2
  <2> QED
    BY <2>2, <2>3
<1>6. ASSUME NEW u \in Threads, ~At(u, "idle")' PROVE Grounds(u, thread[u])'
  <2>1. thread'[t] = Idle /\ \A v \in Threads \ {t} : thread'[v] = thread[v]
    BY <1>1 DEF Answer, Become, ThreadOK
  <2>2. u # t /\ ~At(u, "idle")
    BY <1>6, <2>1 DEF At, Idle
  <2>3. PICK p \in Thread : p = thread'[u] /\ Grounds(u, p)'
    BY <1>1, <2>1, <2>2, OthersGrounds
  <2> QED
    BY <2>3 DEF Grounds
<1> QED
  BY <1>1, <1>5, <1>6 DEF HeldInv, At

LEMMA ClearTableHeld ==
    ASSUME IInv, ExclusionInv, HeldInv, NEW t \in Threads, ClearTable(t)
    PROVE  HeldInv'
<1>1. /\ Work(t) /\ ~StoreLock(t) /\ ~At(t, "idle")
      /\ sessionToUser' = sessionToUser /\ thread[t].at = "clear"
  BY DEF ClearTable, StoreLock, Work, At
<1>2. PICK r \in Thread : r = thread[t] /\ Grounds(t, r)
  BY <1>1, HeldAtWork
<1> DEFINE q == [r EXCEPT !.at = "unlist"]
<1>3. q.at = "unlist" /\ q.method = r.method /\ q.asked = r.asked /\ q.op = r.op
  BY DEF Thread
<1>4. thread' = [thread EXCEPT ![t] = q]
  BY <1>2 DEF ClearTable, Go, Become
<1>5. PICK p : p = q
  OBVIOUS
<1> HIDE DEF q
<1>6. Grounds(t, p)'
  BY <1>1, <1>2, <1>3, <1>5 DEF Grounds
<1> QED
  BY <1>1, <1>4, <1>5, <1>6, HeldWork

LEMMA AnswersHeld ==
    ASSUME IInv, ExclusionInv, HeldInv, NEW t \in Threads,
           ForgetExpired(t) \/ UnlistTable(t)
    PROVE  HeldInv'
<1>1. /\ Work(t) /\ ~StoreLock(t) /\ sessionToUser' = sessionToUser /\ Answer(t)
  BY DEF ForgetExpired, UnlistTable, StoreLock, Work, At
<1> QED
  BY <1>1, AnswerHeld

LEMMA VisitFileHeld ==
    ASSUME IInv, ExclusionInv, HeldInv, NEW t \in Threads, VisitFile(t)
    PROVE  HeldInv'
<1>1. /\ Work(t) /\ ~StoreLock(t) /\ ~At(t, "idle") /\ thread[t].at = "visit"
      /\ sessionToUser' = sessionToUser
  BY DEF VisitFile, StoreLock, Work, At
<1>2. PICK r \in Thread : /\ r = thread[t] /\ Fits(t, r) /\ Grounds(t, r)
                          /\ t \in Sessions => r.method = "CleanupStaleSessionsForUser"
  BY <1>1, HeldAtWork DEF Carries, InMethod
<1>3. r.method # "TryGetLock" /\ r.user \in Users
  BY <1>1, <1>2 DEF Fits, Grounds, Threads
<1>4. CASE r.todo = {} /\ t \in Cleaners
  BY <1>1, <1>2, <1>4, AnswerHeld DEF VisitFile
<1>5. CASE r.todo = {} /\ t \notin Cleaners
  <2> DEFINE q == [r EXCEPT !.at = "get", !.method = "AddLock", !.user = NoUser,
                            !.table = NoTable, !.file = r.asked]
  <2>1. q.at = "get" /\ q.method = "AddLock" /\ q.asked = r.asked
    BY DEF Thread
  <2>2. thread' = [thread EXCEPT ![t] = q]
    BY <1>2, <1>5 DEF VisitFile, Become
  <2>3. PICK p : p = q
    OBVIOUS
  <2> HIDE DEF q
  <2>4. Grounds(t, p)'
    BY <1>2, <1>5, <2>1, <2>3 DEF Grounds
  <2> QED
    BY <1>1, <2>2, <2>3, <2>4, HeldWork
<1>6. CASE r.todo # {}
  <2>1. PICK f \in r.todo :
          Become(t, [thread[t] EXCEPT !.todo = @ \ {f}, !.file = f,
                        !.table = fileLocks[f],
                        !.at = IF fileLocks[f] = NoTable THEN "visit" ELSE "match"])
    BY <1>2, <1>6 DEF VisitFile
  <2>2. PICK label \in {"visit", "match"} :
           label = IF fileLocks[f] = NoTable THEN "visit" ELSE "match"
    OBVIOUS
  <2>3. PICK d : d = fileLocks[f]
    OBVIOUS
  <2> DEFINE q == [r EXCEPT !.todo = r.todo \ {f}, !.file = f, !.table = d, !.at = label]
  <2>4. /\ q.at = label /\ q.method = r.method /\ q.asked = r.asked
        /\ q.op = r.op /\ q.user = r.user
    BY DEF Thread
  <2>5. thread' = [thread EXCEPT ![t] = q]
    BY <1>2, <2>1, <2>2, <2>3 DEF Become
  <2>6. PICK p : p = q
    OBVIOUS
  <2> HIDE DEF q
  <2>7. Grounds(t, p)'
    BY <1>1, <1>2, <1>3, <2>4, <2>6 DEF Grounds
  <2> QED
    BY <1>1, <2>5, <2>6, <2>7, HeldWork
<1> QED
  BY <1>4, <1>5, <1>6

LEMMA MatchSessionsHeld ==
    ASSUME IInv, ExclusionInv, HeldInv, NEW t \in Threads, MatchSessions(t)
    PROVE  HeldInv'
<1>1. /\ Work(t) /\ ~StoreLock(t) /\ ~At(t, "idle") /\ thread[t].at = "match"
      /\ sessionToUser' = sessionToUser
  BY DEF MatchSessions, StoreLock, Work, At
<1>2. PICK r \in Thread : r = thread[t] /\ Grounds(t, r)
  BY <1>1, HeldAtWork
<1> DEFINE D == {s \in Listed(r.table) : SessionUser(s) = r.user}
           q == [r EXCEPT !.at = "take", !.doomed = D]
<1>3. thread' = [thread EXCEPT ![t] = q]
  BY <1>2 DEF MatchSessions, Become, OfUser
<1>4. PICK E : E = D
  OBVIOUS
<1>5. /\ q.at = "take" /\ q.method = r.method /\ q.asked = r.asked
      /\ q.op = r.op /\ q.user = r.user /\ q.doomed = E
  BY <1>4 DEF Thread
<1>6. PICK p : p = q
  OBVIOUS
<1> HIDE DEF q
<1>7. \A s \in p.doomed : SessionUser(s)' = p.user
  BY <1>1, <1>4, <1>5, <1>6 DEF SessionUser
<1>8. Grounds(t, p)'
  BY <1>1, <1>2, <1>5, <1>6, <1>7 DEF Grounds
<1> QED
  BY <1>1, <1>3, <1>6, <1>8, HeldWork

LEMMA TakeSessionHeld ==
    ASSUME IInv, ExclusionInv, HeldInv, NEW t \in Threads, TakeSession(t)
    PROVE  HeldInv'
<1>1. /\ Work(t) /\ ~StoreLock(t) /\ ~At(t, "idle") /\ thread[t].at = "take"
      /\ sessionToUser' = sessionToUser
  BY DEF TakeSession, StoreLock, Work, At
<1>2. PICK r \in Thread : r = thread[t] /\ Grounds(t, r)
  BY <1>1, HeldAtWork
<1>3. CASE r.doomed = {}
  <2> DEFINE q == [r EXCEPT !.at = "isEmpty"]
  <2>1. /\ q.at = "isEmpty" /\ q.method = r.method /\ q.asked = r.asked
        /\ q.op = r.op /\ q.user = r.user
    BY DEF Thread
  <2>2. thread' = [thread EXCEPT ![t] = q]
    BY <1>2, <1>3 DEF TakeSession, Go, Become
  <2>3. PICK p : p = q
    OBVIOUS
  <2> HIDE DEF q
  <2>4. Grounds(t, p)'
    BY <1>1, <1>2, <2>1, <2>3 DEF Grounds
  <2> QED
    BY <1>1, <2>2, <2>3, <2>4, HeldWork
<1>4. CASE r.doomed # {}
  <2>1. PICK s \in r.doomed :
          Become(t, [thread[t] EXCEPT !.doomed = @ \ {s}, !.taken = s,
             !.at = IF s \in Listed(thread[t].table) THEN "unmap" ELSE "take"])
    BY <1>2, <1>4 DEF TakeSession
  <2>2. PICK label \in {"unmap", "take"} :
           label = IF s \in Listed(thread[t].table) THEN "unmap" ELSE "take"
    OBVIOUS
  <2> DEFINE q == [r EXCEPT !.doomed = r.doomed \ {s}, !.taken = s, !.at = label]
  <2>3. /\ q.at = label /\ q.method = r.method /\ q.asked = r.asked
        /\ q.op = r.op /\ q.user = r.user /\ q.doomed = r.doomed \ {s} /\ q.taken = s
    BY DEF Thread
  <2>4. thread' = [thread EXCEPT ![t] = q]
    BY <1>2, <2>1, <2>2 DEF Become
  <2>5. PICK p : p = q
    OBVIOUS
  <2> HIDE DEF q
  <2>6. \A c \in p.doomed : SessionUser(c)' = p.user
    BY <1>1, <1>2, <2>3, <2>5 DEF SessionUser, Grounds
  <2>7. Grounds(t, p)'
    BY <1>1, <1>2, <2>3, <2>5, <2>6 DEF Grounds
  <2> QED
    BY <1>1, <2>4, <2>5, <2>7, HeldWork
<1> QED
  BY <1>3, <1>4

LEMMA UnmapSessionHeld ==
    ASSUME IInv, ExclusionInv, HeldInv, NEW t \in Threads, UnmapSession(t)
    PROVE  HeldInv'
<1>1. /\ Work(t) /\ ~At(t, "idle") /\ UNCHANGED <<fileLocks, tables>>
      /\ thread[t].at = "unmap"
      /\ sessionToUser' = [sessionToUser EXCEPT ![thread[t].taken] = NoUser]
      /\ sessionToUser \in [Sessions -> Users \cup {NoUser}]
  BY DEF UnmapSession, Work, At, IInv, SharedOK
<1>2. PICK r \in Thread : r = thread[t] /\ Grounds(t, r)
  BY <1>1, HeldAtWork
<1> DEFINE q == [r EXCEPT !.at = "take", !.taken = NoSession]
<1>3. /\ q.at = "take" /\ q.method = r.method /\ q.asked = r.asked
      /\ q.op = r.op /\ q.user = r.user /\ q.doomed = r.doomed
  BY DEF Thread
<1>4. thread' = [thread EXCEPT ![t] = q]
  BY <1>2 DEF UnmapSession, Become
<1>5. PICK p : p = q
  OBVIOUS
<1> HIDE DEF q
<1>6. \A s \in Sessions \ {r.taken} : sessionToUser'[s] = sessionToUser[s]
  BY <1>1, <1>2
<1>7. \A s \in Sessions : sessionToUser'[s] \in {NoUser, KnownUser(s)}
  BY <1>1, <1>6 DEF HeldInv
<1>8. r.doomed \subseteq Sessions \ {r.taken}
  BY <1>1, <1>2 DEF Grounds, Thread
<1>9. ASSUME NEW s \in p.doomed PROVE SessionUser(s)' = p.user
  <2>1. SessionUser(s) = r.user
    BY <1>1, <1>2, <1>3, <1>5, <1>9 DEF Grounds
  <2> QED
    BY <1>3, <1>5, <1>6, <1>8, <1>9, <2>1 DEF SessionUser
<1>10. Grounds(t, p)'
  BY <1>1, <1>2, <1>3, <1>5, <1>9 DEF Grounds
<1>11. /\ \A f \in Files : ListedFor(f)' \subseteq ListedFor(f)
       /\ \A u \in Threads \ {t} : ~At(u, "idle") =>
              \E p1 \in Thread : p1 = thread[u] /\ Grounds(u, p1)'
  BY <1>1, OthersGrounds DEF ListedFor, Listed
<1> QED
  BY <1>4, <1>5, <1>7, <1>10, <1>11, HeldStep

LEMMA WorkHeld ==
    ASSUME IInv, ExclusionInv, HeldInv, NEW t \in Threads, Work(t)
    PROVE  HeldInv'
BY GetTableHeld, ListExpiredHeld, PurgeExpiredHeld, FirstActiveHeld, EmptyTableHeld,
   MapSessionHeld, ProbeSessionHeld, CheckExpiredHeld, AnswersHeld, ReadClockHeld,
   StoreLockHeld, ClearTableHeld, VisitFileHeld, MatchSessionsHeld, TakeSessionHeld,
   UnmapSessionHeld
DEF Work

LEMMA TickHeld ==
    ASSUME IInv, HeldInv, Tick
    PROVE  HeldInv'
<1>1. /\ UNCHANGED <<fileLocks, tables, sessionToUser, thread>>
      /\ now \in Nat /\ now' = now + 1 /\ Lifetime \in Nat
  BY SessionLocksAssumption DEF Tick, IInv, SharedOK, Time
<1>2. ASSUME NEW date \in Stamp, Expired(date) PROVE Expired(date)'
  BY <1>1, <1>2 DEF Expired, Stamp, Time, Absent
<1>3. ASSUME NEW t \in Threads, ~At(t, "idle") PROVE Grounds(t, thread[t])'
  <2>1. PICK r \in Thread : r = thread[t] /\ Fits(t, r) /\ Grounds(t, r)
    BY <1>3 DEF IInv, ThreadOK, LocalsFit, HeldInv
  <2>2. ASSUME r.at = "purge", NEW s \in r.doomed
        PROVE  Expired(tables[r.table][s])'
    <3>1. s \in Sessions /\ r.table \in Tables
      BY <2>1, <2>2 DEF Thread, Fits
    <3>2. PICK date \in Stamp : date = tables[r.table][s]
      BY <3>1 DEF IInv, SharedOK
    <3>3. Expired(date)
      BY <2>1, <2>2, <3>2 DEF Grounds
    <3>4. Expired(date)'
      BY <1>2, <3>3
    <3> QED
      BY <1>1, <3>2, <3>4 DEF Expired
  <2>3. r.at = "forget" => Expired(r.seen)'
    BY <1>2, <2>1 DEF Grounds, Thread
  <2>4. Grounds(t, r)'
    BY <1>1, <2>1, <2>2, <2>3 DEF Grounds, Listed, SessionUser
  <2> QED
    BY <1>1, <2>1, <2>4 DEF Grounds
<1> QED
  BY <1>1, <1>3 DEF HeldInv, ListedFor, Listed, At

LEMMA HeldInit == Init => HeldInv
<1> SUFFICES ASSUME Init PROVE HeldInv
  OBVIOUS
<1>1. /\ \A s \in Sessions : sessionToUser[s] = NoUser
      /\ \A f \in Files : ListedFor(f) = {}
      /\ \A t \in Threads : At(t, "idle")
  BY DEF Init, ListedFor, At, Idle
<1> QED
  BY <1>1 DEF HeldInv

LEMMA HeldNext ==
    ASSUME Isolated PROVE IInv /\ ExclusionInv /\ HeldInv /\ [Next]_vars => HeldInv'
<1> SUFFICES ASSUME IInv, ExclusionInv, HeldInv, [Next]_vars PROVE HeldInv'
  OBVIOUS
<1>1. CASE Tick
  BY <1>1, TickHeld
<1>2. CASE \E s \in Sessions : Arrive(s)
  BY <1>2, ArriveHeld
<1>3. CASE \E t \in Cleaners : ForceSaveAndCleanupUserSessions(t)
  BY <1>3, CleanupArrivesHeld
<1>4. CASE \E t \in Threads : Work(t)
  BY <1>4, WorkHeld
<1>5. CASE UNCHANGED vars
  BY <1>5 DEF vars, HeldInv, Grounds, ListedFor, Listed, SessionUser, Expired, At
<1> QED
  BY <1>1, <1>2, <1>3, <1>4, <1>5 DEF Next

-----------------------------------------------------------------------------
(* A file lists one session at a time, alive or not.                       *)

\* Every step but the one that stores a lock loses sessions or keeps them.
LEMMA WorkLoses ==
    ASSUME IInv, ExclusionInv, NEW t \in Threads, Work(t),
           ~(At(t, "store") /\ AsSeen(t))
    PROVE  Loses(t)
<1>1. /\ fileLocks \in [Files -> Tables \cup {NoTable}]
      /\ tables \in [Tables -> [Sessions -> Stamp]] /\ NoTable \notin Tables
      /\ ~At(t, "idle") /\ ThreadOK
  BY OwnStep, SessionLocksAssumption DEF IInv, SharedOK
<1>2. now' >= now
  BY WorkChanges DEF IInv, SharedOK, Time
<1>3. \A d \in Tables, s \in Sessions : tables'[d][s] \in {Absent, tables[d][s]}
  BY WorkChanges
<1>4. PICK r \in Thread : r = thread[t] /\ Fits(t, r) /\ Carries(t, r)
  BY <1>1, AtWork
<1>5. CASE fileLocks' = fileLocks
  BY <1>2, <1>3, <1>5 DEF Loses
<1>6. CASE DropTable(t) \/ UnlistTable(t)
  <2>1. /\ r.file \in Files
        /\ \A f \in Files : \/ fileLocks'[f] = fileLocks[f]
                            \/ f = r.file /\ fileLocks'[f] = NoTable
    BY <1>1, <1>4, <1>6 DEF DropTable, UnlistTable, Thread
  <2>2. CASE DropTable(t)
    <3>1. r.at = "drop" /\ Listed(r.table) = {} /\ Current(r)
      BY <1>4, <2>2 DEF DropTable, At, Carries, AtTable
    <3>2. ListedFor(r.file) = {}
      BY <3>1 DEF Current, ListedFor
    <3> QED
      BY <1>2, <1>3, <1>4, <2>1, <3>2 DEF Loses
  <2>3. CASE UnlistTable(t)
    <3>1. r.at = "unlist" /\ t \in Sessions
      BY <1>1, <1>4, <2>3, SessionAt DEF UnlistTable, At
    <3>2. ListedFor(r.file) = {}
      BY <1>4, <3>1 DEF Carries, Knows
    <3> QED
      BY <1>2, <1>3, <1>4, <2>1, <3>2 DEF Loses
  <2> QED
    BY <1>6, <2>2, <2>3
<1>7. CASE GetTable(t) /\ fileLocks' # fileLocks
  <2>1. PICK e \in Tables :
           /\ Unused(e)
           /\ tables' = [tables EXCEPT ![e] = Empty]
           /\ fileLocks' = [fileLocks EXCEPT ![r.file] = e]
           /\ fileLocks[r.file] = NoTable /\ r.method = "AddLock"
    BY <1>4, <1>7 DEF GetTable, List
  <2>2. r.file \in Files /\ tables'[e] = Empty /\ fileLocks'[r.file] = e
    BY <1>1, <2>1 DEF Thread
  <2>3. \A f \in Files \ {r.file} : fileLocks'[f] = fileLocks[f]
    BY <1>1, <2>1
  <2> QED
    BY <1>2, <1>3, <1>4, <2>1, <2>2, <2>3 DEF Loses
<1> QED
  BY <1>5, <1>6, <1>7
  DEF Work, GetTable, ListExpired, PurgeExpired, FirstActive, TestEmpty, MapSession,
      ProbeSession, CheckExpired, ForgetExpired, ReadClock, StoreLock, ClearTable, VisitFile,
      MatchSessions, TakeSession, UnmapSession

\* The file and the table that a lock is stored in, and what the table lists then.
LEMMA StoresAlone ==
    ASSUME IInv, ExclusionInv, OwnerInv, NEW t \in Threads, Work(t),
           At(t, "store"), AsSeen(t)
    PROVE  \E f \in Files, d \in Tables :
             /\ t \in Sessions /\ d = thread[t].table /\ fileLocks[f] = d
             /\ UNCHANGED <<fileLocks, sessionToUser, now>> /\ Answer(t)
             /\ Listed(d) \subseteq {t} /\ ListedFor(f)' = {t}
             /\ \A e \in Tables, s \in Sessions :
                   (e # d \/ s # t) => tables'[e][s] = tables[e][s]
             /\ \A g \in Files \ {f} : ListedFor(g)' = ListedFor(g)
             /\ \A u \in Threads \ {t} :
                   ~At(u, "idle") /\ u \in Sessions => thread[u].asked # f
<1>1. PICK r \in Thread, f \in Files, d \in Tables :
         /\ r = thread[t] /\ f = r.file /\ d = r.table
         /\ t \in Sessions /\ fileLocks[f] = d
         /\ r.method = "AddLock" \/ tables[d][t] # Absent
         /\ \A u \in Threads \ {t} : ~At(u, "idle") /\ u \in Sessions => thread[u].asked # f
  BY StoresWhere
<1>2. StoreLock(t)
  BY DEF Work, GetTable, ListExpired, PurgeExpired, FirstActive, TestEmpty, DropTable,
     MapSession, ProbeSession, CheckExpired, ForgetExpired, ReadClock, ClearTable,
     UnlistTable, VisitFile, MatchSessions, TakeSession, UnmapSession, At
<1>3. /\ tables' = [tables EXCEPT ![d][t] = r.date] /\ Answer(t)
      /\ UNCHANGED <<fileLocks, sessionToUser, now>>
  BY <1>1, <1>2 DEF StoreLock
<1>4. /\ tables \in [Tables -> [Sessions -> Stamp]] /\ d # NoTable
      /\ fileLocks \in [Files -> Tables \cup {NoTable}] /\ NoTable \notin Tables
  BY SessionLocksAssumption DEF IInv, SharedOK
<1>5. Listed(d) \subseteq {t}
  <2>1. CASE r.method = "AddLock"
    BY <1>1, <2>1 DEF OwnerInv, Emptied, At
  <2>2. CASE tables[d][t] # Absent
    BY <1>1, <1>4, <2>2 DEF OwnerInv, OneListed, ListedFor, Listed
  <2> QED
    BY <1>1, <2>1, <2>2
<1>6. r.date # Absent
  BY DEF Thread, Time, Absent
<1>7. /\ tables'[d][t] = r.date
      /\ \A e \in Tables, s \in Sessions : (e # d \/ s # t) => tables'[e][s] = tables[e][s]
  BY <1>1, <1>3, <1>4
<1>8. ListedFor(f)' = {t}
  BY <1>1, <1>3, <1>4, <1>5, <1>6, <1>7 DEF ListedFor, Listed
<1>9. ASSUME NEW g \in Files \ {f} PROVE ListedFor(g)' = ListedFor(g)
  <2>1. fileLocks[g] # d /\ fileLocks'[g] = fileLocks[g]
    BY <1>1, <1>3, <1>4 DEF ExclusionInv, OwnTables
  <2>2. CASE fileLocks[g] = NoTable
    BY <2>1, <2>2 DEF ListedFor
  <2>3. CASE fileLocks[g] \in Tables
    <3>1. PICK e \in Tables \ {d} : e = fileLocks[g] /\ e = fileLocks'[g]
      BY <2>1, <2>3
    <3>2. Listed(e)' = Listed(e)
      BY <1>7 DEF Listed
    <3> QED
      BY <3>1, <3>2 DEF ListedFor, Listed
  <2> QED
    BY <1>4, <2>2, <2>3
<1> QED
  BY <1>1, <1>3, <1>5, <1>7, <1>8, <1>9

\* A new lock is the only one of its file; no other step adds any.
LEMMA WorkOneListed ==
    ASSUME IInv, ExclusionInv, OwnerInv, NEW t \in Threads, Work(t)
    PROVE  OneListed'
<1>1. CASE At(t, "store") /\ AsSeen(t)
  <2>1. PICK f \in Files : /\ ListedFor(f)' = {t}
                           /\ \A g \in Files \ {f} : ListedFor(g)' = ListedFor(g)
    BY <1>1, StoresAlone
  <2> QED
    BY <2>1 DEF OwnerInv, OneListed
<1>2. CASE ~(At(t, "store") /\ AsSeen(t))
  <2>1. \A f \in Files : ListedFor(f)' \subseteq ListedFor(f)
    BY <1>2, WorkLoses, WorkOK, LosesFacts
  <2> QED
    BY <2>1 DEF OwnerInv, OneListed
<1> QED
  BY <1>1, <1>2

\* Nobody stores a lock in the table that another session's AddLock has emptied.
LEMMA OthersEmptied ==
    ASSUME IInv, ExclusionInv, OwnerInv, NEW t \in Threads, Work(t),
           NEW u \in Threads \ {t}
    PROVE  Emptied(thread[u])'
<1>1. PICK r \in Thread : r = thread[u] /\ r = thread'[u] /\ Emptied(r) /\ Fits(u, r)
  BY OwnStep DEF OwnerInv, IInv, ThreadOK, LocalsFit
<1>2. CASE r.method = "AddLock" /\ r.at \in {"purge", "probe", "check", "forget", "stamp", "store"}
  <2>1. /\ ~At(u, "idle") /\ r.table \in Tables
        /\ tables \in [Tables -> [Sessions -> Stamp]]
    BY <1>1, <1>2 DEF At, Fits, IInv, SharedOK
  <2>2. Carries(u, r)
    BY <1>1, <2>1 DEF ExclusionInv
  <2>3. u \in Sessions /\ r.file = r.asked /\ fileLocks[r.file] = r.table
    BY <1>2, <2>2 DEF Carries, Serves, Knows, Current, AtTable, Threads
  <2>4. Listed(r.table)' \subseteq Listed(r.table)
    <3>1. CASE At(t, "store") /\ AsSeen(t)
      <4>1. PICK f \in Files, d \in Tables :
               /\ fileLocks[f] = d /\ thread[u].asked # f
               /\ \A e \in Tables, s \in Sessions :
                     (e # d \/ s # t) => tables'[e][s] = tables[e][s]
        BY <2>1, <2>3, <3>1, StoresAlone
      <4>2. r.table # d
        BY <1>1, <2>1, <2>3, <4>1, SessionLocksAssumption DEF Thread, ExclusionInv, OwnTables
      <4> QED
        BY <2>1, <4>1, <4>2 DEF Listed
    <3>2. CASE ~(At(t, "store") /\ AsSeen(t))
      BY <2>1, <3>2, WorkChanges DEF Listed
    <3> QED
      BY <3>1, <3>2
  <2> QED
    BY <1>1, <2>4 DEF Emptied
<1>3. CASE ~(r.method = "AddLock"
             /\ r.at \in {"purge", "probe", "check", "forget", "stamp", "store"})
  BY <1>1, <1>3 DEF Emptied
<1> QED
  BY <1>2, <1>3

\* A record that is not at the points of AddLock that OwnerInv is about.
LEMMA NothingEmptied ==
    ASSUME NEW t \in Threads, thread \in [Threads -> Thread],
           \/ Answer(t)
           \/ \E s : Handle(t, s)
           \/ \E label \in {"first", "isEmpty", "drop", "visit", "get", "unlist"} : Go(t, label)
    PROVE  Emptied(thread[t])'
<1>1. ASSUME NEW q, thread'[t] = q, q.at \notin {"purge", "probe", "check", "forget",
                                                   "stamp", "store"}
      PROVE  Emptied(thread[t])'
  BY <1>1 DEF Emptied
<1>2. CASE Answer(t)
  BY <1>1, <1>2 DEF Answer, Become, Idle
<1>3. ASSUME NEW method, NEW label \in {"map", "get"}, CallFor(t, method, label)
      PROVE  Emptied(thread[t])'
  <2>1. PICK r \in Thread : r = thread[t]
    OBVIOUS
  <2>2. PICK q : q = [r EXCEPT !.at = label, !.method = method,
                               !.table = NoTable, !.seen = Absent]
    OBVIOUS
  <2>3. q.at = label
    BY <2>2 DEF Thread
  <2>4. thread'[t] = q
    BY <1>3, <2>1, <2>2 DEF CallFor, Become
  <2> QED
    BY <1>1, <2>3, <2>4
<1>4. ASSUME NEW s, Handle(t, s) PROVE Emptied(thread[t])'
  BY <1>2, <1>3, <1>4 DEF Handle
<1>5. ASSUME NEW label \in {"first", "isEmpty", "drop", "visit", "get", "unlist"}, Go(t, label)
      PROVE  Emptied(thread[t])'
  <2>1. PICK r \in Thread : r = thread[t]
    OBVIOUS
  <2>2. PICK q : q = [r EXCEPT !.at = label]
    OBVIOUS
  <2>3. q.at = label
    BY <2>2 DEF Thread
  <2>4. thread'[t] = q
    BY <1>5, <2>1, <2>2 DEF Go, Become
  <2> QED
    BY <1>1, <2>3, <2>4
<1> QED
  BY <1>2, <1>4, <1>5

\* AddLock lists every session of its file as expired, all of them, and removes
\* every one of these.
LEMMA OwnEmptied ==
    ASSUME IInv, ExclusionInv, OwnerInv, NEW t \in Threads, Work(t)
    PROVE  Emptied(thread[t])'
<1>1. /\ thread \in [Threads -> Thread] /\ ThreadOK /\ ~At(t, "idle")
      /\ tables \in [Tables -> [Sessions -> Stamp]]
  BY OwnStep DEF IInv, ThreadOK, SharedOK
<1>2. PICK r \in Thread : r = thread[t] /\ Fits(t, r) /\ Carries(t, r) /\ Emptied(r)
  BY <1>1, AtWork DEF OwnerInv
<1>3. ASSUME NEW q, Become(t, q) PROVE thread'[t] = q
  BY <1>1, <1>3 DEF Become
<1>4. CASE GetTable(t)
  <2>1. CASE Become(t, [thread[t] EXCEPT !.at = AfterGet(t), !.table = fileLocks[r.file]])
    <3>1. PICK q : q = [r EXCEPT !.at = AfterGet(t), !.table = fileLocks[r.file]]
      OBVIOUS
    <3>2. q.at = AfterGet(t) /\ q.method = r.method
      BY <3>1 DEF Thread
    <3>3. q.method = "AddLock" => q.at = "list"
      BY <1>2, <3>2 DEF AfterGet
    <3> QED
      BY <1>2, <1>3, <2>1, <3>1, <3>3 DEF Emptied
  <2>2. ASSUME NEW e, Become(t, [thread[t] EXCEPT !.at = "list", !.table = e])
        PROVE  Emptied(thread[t])'
    <3>1. PICK q : q = [r EXCEPT !.at = "list", !.table = e]
      OBVIOUS
    <3>2. q.at = "list"
      BY <3>1 DEF Thread
    <3> QED
      BY <1>2, <1>3, <2>2, <3>1, <3>2 DEF Emptied
  <2>3. CASE NotFound(t)
    BY <1>1, <2>3, NothingEmptied DEF NotFound
  <2> QED
    BY <1>2, <1>4, <2>1, <2>2, <2>3 DEF GetTable
<1>5. CASE ListExpired(t)
  <2>1. PICK D : D = {s \in Listed(r.table) : Expired(tables[r.table][s])}
    OBVIOUS
  <2>2. PICK q : q = [r EXCEPT !.at = "purge", !.doomed = D]
    OBVIOUS
  <2>3. q.at = "purge" /\ q.doomed = D /\ q.method = r.method /\ q.table = r.table
    BY <2>2 DEF Thread
  <2>4. thread'[t] = q /\ r.at = "list" /\ tables' = tables
    BY <1>2, <1>3, <1>5, <2>1, <2>2 DEF ListExpired, At
  <2>5. ASSUME r.method = "AddLock" PROVE Listed(r.table) \subseteq D
    <3>1. r.table \in Tables /\ ActiveIn(r.asked) = {} /\ r.file = r.asked
          /\ fileLocks[r.file] = r.table
      BY <1>2, <2>4, <2>5
      DEF Fits, Carries, Serves, Knows, Current, AtTable, Threads
    <3>2. \A s \in Listed(r.table) : Expired(tables[r.table][s])
      BY <3>1, SessionLocksAssumption DEF ActiveIn, ListedFor
    <3> QED
      BY <2>1, <3>2
  <2>6. Listed(r.table)' = Listed(r.table)
    BY <2>4 DEF Listed
  <2> QED
    BY <2>3, <2>4, <2>5, <2>6 DEF Emptied
<1>6. CASE PurgeExpired(t)
  <2>1. r.at = "purge" /\ r.table \in Tables
    BY <1>2, <1>6 DEF PurgeExpired, At, Fits
  <2>2. CASE r.doomed = {}
    <3>1. PICK q : q = [r EXCEPT !.at = IF r.method = "AddLock" THEN "probe" ELSE "first"]
      OBVIOUS
    <3>2. q.method = r.method /\ q.table = r.table
      BY <3>1 DEF Thread
    <3>3. thread'[t] = q /\ tables' = tables
      BY <1>2, <1>3, <1>6, <2>2, <3>1 DEF PurgeExpired, Go
    <3>4. r.method = "AddLock" => Listed(r.table) = {}
      BY <1>2, <2>1, <2>2 DEF Emptied
    <3>5. Listed(r.table)' = Listed(r.table)
      BY <3>3 DEF Listed
    <3>6. q.at # "purge"
      BY <3>1 DEF Thread
    <3> QED
      BY <3>2, <3>3, <3>4, <3>5, <3>6 DEF Emptied
  <2>3. CASE r.doomed # {}
    <3>1. PICK s \in r.doomed : /\ Remove(t, s)
                                /\ Become(t, [thread[t] EXCEPT !.doomed = @ \ {s}])
      BY <1>2, <1>6, <2>3 DEF PurgeExpired, Rest
    <3>2. PICK q : q = [r EXCEPT !.doomed = r.doomed \ {s}]
      OBVIOUS
    <3>3. /\ q.at = "purge" /\ q.doomed = r.doomed \ {s} /\ q.method = r.method
          /\ q.table = r.table
      BY <2>1, <3>2 DEF Thread
    <3>4. thread'[t] = q
      BY <1>2, <1>3, <3>1, <3>2
    <3>5. s \in Sessions
      BY <3>1 DEF Thread
    <3>6. Listed(r.table)' \subseteq Listed(r.table) \ {s}
      BY <1>1, <1>2, <2>1, <3>1, <3>5 DEF Remove, Listed
    <3>7. r.method = "AddLock" => Listed(r.table) \subseteq r.doomed
      BY <1>2, <2>1 DEF Emptied
    <3> QED
      BY <3>3, <3>4, <3>6, <3>7 DEF Emptied
  <2> QED
    BY <2>2, <2>3
<1>7. CASE FirstActive(t) \/ TestEmpty(t) \/ DropTable(t)
  BY <1>1, <1>7, NothingEmptied DEF FirstActive, TestEmpty, DropTable
<1>8. CASE MapSession(t)
  <2>1. PICK q : q = [r EXCEPT !.at = "visit", !.user = KnownUser(t),
                               !.method = "CleanupStaleSessionsForUser", !.todo = Files]
    OBVIOUS
  <2>2. q.at = "visit"
    BY <2>1 DEF Thread
  <2>3. thread'[t] = q \/ Go(t, "get")
    BY <1>2, <1>3, <1>8, <2>1 DEF MapSession
  <2> QED
    BY <1>1, <2>2, <2>3, NothingEmptied DEF Emptied
<1>9. CASE ProbeSession(t) \/ CheckExpired(t) \/ ReadClock(t)
  <2>1. /\ r.at \in {"probe", "check", "stamp"} /\ tables' = tables
    BY <1>2, <1>9 DEF ProbeSession, CheckExpired, ReadClock, At
  <2>2. ASSUME NEW q, thread'[t] = q, q.method = r.method, q.table = r.table, q.at # "purge"
        PROVE  Emptied(thread[t])'
    <3>1. r.method = "AddLock" => Listed(r.table) = {}
      BY <1>2, <2>1 DEF Emptied
    <3>2. Listed(r.table)' = Listed(r.table)
      BY <2>1 DEF Listed
    <3> QED
      BY <2>2, <3>1, <3>2 DEF Emptied
  <2>3. CASE ProbeSession(t)
    <3>1. PICK label \in {"stamp", "check"} :
             \/ Answer(t)
             \/ Become(t, [thread[t] EXCEPT !.at = label, !.seen = tables[r.table][t]])
      BY <1>2, <2>3 DEF ProbeSession
    <3>2. PICK q : q = [r EXCEPT !.at = label, !.seen = tables[r.table][t]]
      OBVIOUS
    <3>3. q.method = r.method /\ q.table = r.table /\ q.at # "purge"
      BY <3>1, <3>2 DEF Thread
    <3> QED
      BY <1>1, <1>2, <1>3, <2>2, <3>1, <3>2, <3>3, NothingEmptied
  <2>4. CASE CheckExpired(t)
    <3>1. PICK label \in {"forget", "stamp"} : Go(t, label)
      BY <2>4 DEF CheckExpired
    <3>2. PICK q : q = [r EXCEPT !.at = label]
      OBVIOUS
    <3>3. q.method = r.method /\ q.table = r.table /\ q.at # "purge"
      BY <3>1, <3>2 DEF Thread
    <3> QED
      BY <1>2, <1>3, <2>2, <3>1, <3>2, <3>3 DEF Go
  <2>5. CASE ReadClock(t)
    <3>1. PICK q : q = [r EXCEPT !.at = "store", !.date = UtcNow]
      OBVIOUS
    <3>2. q.method = r.method /\ q.table = r.table /\ q.at # "purge"
      BY <3>1 DEF Thread
    <3>3. thread'[t] = q
      BY <1>2, <1>3, <2>5, <3>1 DEF ReadClock
    <3> QED
      BY <2>2, <3>2, <3>3
  <2> QED
    BY <1>9, <2>3, <2>4, <2>5
<1>10. CASE ForgetExpired(t) \/ StoreLock(t) \/ ClearTable(t) \/ UnlistTable(t)
  BY <1>1, <1>10, NothingEmptied DEF ForgetExpired, StoreLock, ClearTable, UnlistTable
<1>11. CASE VisitFile(t)
  <2>1. CASE Answer(t)
    BY <1>1, <2>1, NothingEmptied
  <2>2. CASE Become(t, [thread[t] EXCEPT !.at = "get", !.method = "AddLock",
                           !.user = NoUser, !.table = NoTable, !.file = thread[t].asked])
    <3>1. PICK q : q = [r EXCEPT !.at = "get", !.method = "AddLock",
                           !.user = NoUser, !.table = NoTable, !.file = r.asked]
      OBVIOUS
    <3>2. q.at = "get"
      BY <3>1 DEF Thread
    <3> QED
      BY <1>2, <1>3, <2>2, <3>1, <3>2 DEF Emptied
  <2>3. ASSUME NEW f, Become(t, [thread[t] EXCEPT !.todo = @ \ {f}, !.file = f,
                            !.table = fileLocks[f],
                            !.at = IF fileLocks[f] = NoTable THEN "visit" ELSE "match"])
        PROVE  Emptied(thread[t])'
    <3>1. PICK q : q = [r EXCEPT !.todo = r.todo \ {f}, !.file = f,
                            !.table = fileLocks[f],
                            !.at = IF fileLocks[f] = NoTable THEN "visit" ELSE "match"]
      OBVIOUS
    <3>2. q.at \in {"visit", "match"}
      BY <3>1 DEF Thread
    <3> QED
      BY <1>2, <1>3, <2>3, <3>1, <3>2 DEF Emptied
  <2> QED
    BY <1>11, <2>1, <2>2, <2>3 DEF VisitFile
<1>12. CASE MatchSessions(t)
  <2>1. PICK D : D = {s \in Listed(thread[t].table) :
                        OfUser(thread[t].table, s, thread[t].user)}
    OBVIOUS
  <2>2. PICK q : q = [r EXCEPT !.at = "take", !.doomed = D]
    OBVIOUS
  <2>3. q.at = "take"
    BY <2>2 DEF Thread
  <2> QED
    BY <1>2, <1>3, <1>12, <2>1, <2>2, <2>3 DEF MatchSessions, Emptied
<1>13. CASE TakeSession(t)
  <2>1. ASSUME NEW s, Become(t, [thread[t] EXCEPT !.doomed = @ \ {s}, !.taken = s,
                    !.at = IF s \in Listed(thread[t].table) THEN "unmap" ELSE "take"])
        PROVE  Emptied(thread[t])'
    <3>1. PICK label \in {"unmap", "take"} :
             label = IF s \in Listed(thread[t].table) THEN "unmap" ELSE "take"
      OBVIOUS
    <3>2. PICK q : q = [r EXCEPT !.doomed = r.doomed \ {s}, !.taken = s, !.at = label]
      OBVIOUS
    <3>3. q.at = label
      BY <3>2 DEF Thread
    <3> QED
      BY <1>2, <1>3, <2>1, <3>1, <3>2, <3>3 DEF Emptied
  <2> QED
    BY <1>1, <1>13, <2>1, NothingEmptied DEF TakeSession
<1>14. CASE UnmapSession(t)
  <2>1. PICK q : q = [r EXCEPT !.at = "take", !.taken = NoSession]
    OBVIOUS
  <2>2. q.at = "take"
    BY <2>1 DEF Thread
  <2> QED
    BY <1>2, <1>3, <1>14, <2>1, <2>2 DEF UnmapSession, Emptied
<1> QED
  BY <1>4, <1>5, <1>6, <1>7, <1>8, <1>9, <1>10, <1>11, <1>12, <1>13, <1>14 DEF Work

LEMMA OwnerInit == Init => OwnerInv
BY DEF Init, OwnerInv, OneListed, ListedFor, Emptied, Idle

LEMMA OwnerNext == IInv /\ ExclusionInv /\ OwnerInv /\ [Next]_vars => OwnerInv'
<1> SUFFICES ASSUME IInv, ExclusionInv, OwnerInv, [Next]_vars PROVE OwnerInv'
  OBVIOUS
<1>1. CASE \E t \in Threads : Work(t)
  <2>1. PICK t \in Threads : Work(t)
    BY <1>1
  <2>2. ASSUME NEW u \in Threads PROVE Emptied(thread[u])'
    BY <2>1, OwnEmptied, OthersEmptied
  <2> QED
    BY <2>1, <2>2, WorkOneListed DEF OwnerInv
<1>2. ASSUME UNCHANGED <<fileLocks, tables>>, NEW t, NEW q, q.method # "AddLock",
             thread' = [thread EXCEPT ![t] = q]
      PROVE  OwnerInv'
  <2>1. OneListed'
    BY <1>2 DEF OwnerInv, OneListed, ListedFor, Listed
  <2>2. ASSUME NEW u \in Threads PROVE Emptied(thread[u])'
    <3>1. thread'[u] = q \/ thread'[u] = thread[u]
      BY <1>2 DEF IInv, ThreadOK
    <3>2. PICK r : r = thread'[u]
      OBVIOUS
    <3>3. r.method # "AddLock" \/ Emptied(r)
      BY <1>2, <3>1, <3>2 DEF OwnerInv
    <3> QED
      BY <1>2, <3>2, <3>3 DEF Emptied, Listed
  <2> QED
    BY <2>1, <2>2 DEF OwnerInv
<1>3. CASE \E s \in Sessions : Arrive(s)
  <2>0. PICK s \in Sessions : Arrive(s)
    BY <1>3
  <2>1. PICK op \in OpsOf[s], f \in FilesOf[s] :
           Begin(s, [Idle EXCEPT !.at = "get", !.method = "TryGetLock", !.op = op,
                                 !.file = f, !.asked = f])
    BY <2>0 DEF Arrive
  <2>2. PICK q : q = [Idle EXCEPT !.at = "get", !.method = "TryGetLock", !.op = op,
                                 !.file = f, !.asked = f]
    OBVIOUS
  <2>3. q.method # "AddLock"
    BY <2>2 DEF Idle
  <2> QED
    BY <1>2, <2>1, <2>2, <2>3 DEF Begin, Become
<1>4. CASE \E t \in Cleaners : ForceSaveAndCleanupUserSessions(t)
  <2>1. PICK t \in Cleaners, u \in Users :
           Begin(t, [Idle EXCEPT !.at = "visit", !.op = "Cleanup",
                                 !.method = "CleanupStaleSessionsForUser",
                                 !.user = u, !.todo = Files])
    BY <1>4 DEF ForceSaveAndCleanupUserSessions
  <2>2. PICK q : q = [Idle EXCEPT !.at = "visit", !.op = "Cleanup",
                                 !.method = "CleanupStaleSessionsForUser",
                                 !.user = u, !.todo = Files]
    OBVIOUS
  <2>3. q.method # "AddLock"
    BY <2>2 DEF Idle
  <2> QED
    BY <1>2, <2>1, <2>2, <2>3 DEF Begin, Become
<1>5. CASE UNCHANGED <<fileLocks, tables, thread>>
  BY <1>5 DEF OwnerInv, OneListed, ListedFor, Listed, Emptied
<1> QED
  BY <1>1, <1>3, <1>4, <1>5 DEF Next, Tick, vars

\* The inductive invariant of a host on which requests overlap unless they conflict.
THEOREM ConflictsApart ==
    ASSUME Isolated PROVE Spec => []IsolatedInv
BY InitOK, NextOK, ExclusionInit, ExclusionNext, CleanupInit, CleanupNext,
   HeldInit, HeldNext, OwnerInit, OwnerNext, PTL
DEF Spec, IsolatedInv

\* What a step that takes a live lock away is.
LEMMA LossIsReleased ==
    ASSUME IInv, ExclusionInv, HeldInv, NEW t \in Threads, Work(t),
           NEW f \in Files, NEW s \in ActiveIn(f), s \notin ListedFor(f)'
    PROVE  thread'[t] # thread[t] /\ Releases(t, s, f)
<1>1. /\ fileLocks \in [Files -> Tables \cup {NoTable}]
      /\ tables \in [Tables -> [Sessions -> Stamp]] /\ NoTable \notin Tables
      /\ thread \in [Threads -> Thread] /\ ThreadOK
  BY SessionLocksAssumption DEF IInv, SharedOK, ThreadOK
<1>2. PICK d \in Tables :
        /\ d = fileLocks[f] /\ s \in Sessions /\ f \in FilesOf[s]
        /\ tables[d][s] # Absent /\ ~Expired(tables[d][s])
  <2>1. s \in ListedFor(f) /\ ~Expired(tables[fileLocks[f]][s])
    BY DEF ActiveIn
  <2>2. fileLocks[f] # NoTable /\ s \in Sessions /\ tables[fileLocks[f]][s] # Absent
    BY <2>1 DEF ListedFor, Listed
  <2> QED
    BY <1>1, <2>1, <2>2 DEF HeldInv
<1>3. fileLocks'[f] = NoTable \/ tables'[fileLocks'[f]][s] = Absent
  BY <1>2 DEF ListedFor, Listed
<1>4. ~At(t, "idle")
  BY OwnStep
<1>5. PICK r \in Thread : /\ r = thread[t] /\ Fits(t, r) /\ Carries(t, r)
                          /\ Grounds(t, r)
  BY <1>4, HeldAtWork
<1>6. ~UNCHANGED <<fileLocks, tables>>
  BY <1>1, <1>2, <1>3
<1>7. ASSUME NEW c, Remove(t, c), fileLocks' = fileLocks, r.table \in Tables
      PROVE  c = s /\ d = r.table
  BY <1>1, <1>2, <1>3, <1>5, <1>7 DEF Remove
<1>8. ~GetTable(t)
  <2> SUFFICES ASSUME GetTable(t) PROVE FALSE
    OBVIOUS
  <2>1. PICK e \in Tables :
           /\ Unused(e)
           /\ fileLocks[thread[t].file] = NoTable
           /\ tables' = [tables EXCEPT ![e] = Empty]
           /\ fileLocks' = [fileLocks EXCEPT ![thread[t].file] = e]
    BY <1>6 DEF GetTable, List
  <2>2. fileLocks'[f] = d /\ d # e
    BY <1>1, <1>2, <2>1 DEF Unused
  <2>3. tables'[d] = tables[d]
    BY <1>1, <2>1, <2>2
  <2> QED
    BY <1>1, <1>2, <1>3, <2>2, <2>3
<1>9. ~PurgeExpired(t)
  <2> SUFFICES ASSUME PurgeExpired(t) PROVE FALSE
    OBVIOUS
  <2>1. r.at = "purge" /\ fileLocks' = fileLocks
    BY <1>5 DEF PurgeExpired, At
  <2>2. PICK c \in r.doomed : Remove(t, c)
    BY <1>5, <1>6, <2>1 DEF PurgeExpired
  <2>3. c = s /\ d = r.table
    BY <1>5, <1>7, <2>1, <2>2 DEF Fits
  <2> QED
    BY <1>2, <1>5, <2>1, <2>2, <2>3 DEF Grounds
<1>10. ~DropTable(t)
  <2> SUFFICES ASSUME DropTable(t) PROVE FALSE
    OBVIOUS
  <2>1. /\ r.at = "drop" /\ tables' = tables
        /\ fileLocks' = [fileLocks EXCEPT ![r.file] = NoTable]
    BY <1>5 DEF DropTable, At
  <2>2. f = r.file
    BY <1>1, <1>2, <1>3, <2>1
  <2>3. d = r.table
    BY <1>2, <1>5, <2>1, <2>2, SessionLocksAssumption DEF Carries, AtTable, Current
  <2> QED
    BY <1>2, <1>5, <2>1, <2>3 DEF Carries, Listed
<1>11. ~ForgetExpired(t)
  <2> SUFFICES ASSUME ForgetExpired(t) PROVE FALSE
    OBVIOUS
  <2>1. r.at = "forget" /\ fileLocks' = fileLocks /\ Remove(t, t)
    BY <1>5 DEF ForgetExpired, At
  <2>2. t = s /\ d = r.table
    BY <1>5, <1>7, <2>1 DEF Fits
  <2> QED
    BY <1>2, <1>5, <2>1, <2>2 DEF Grounds
<1>12. ~StoreLock(t)
  <2> SUFFICES ASSUME StoreLock(t) PROVE FALSE
    OBVIOUS
  <2>1. /\ fileLocks' = fileLocks
        /\ tables' = [tables EXCEPT ![r.table][t] = r.date]
    BY <1>5, <1>6 DEF StoreLock
  <2>2. r.date # Absent
    BY DEF Thread, Time, Absent
  <2> QED
    BY <1>1, <1>2, <1>3, <2>1, <2>2
<1>13. CASE ClearTable(t)
  <2>1. /\ r.at = "clear" /\ fileLocks' = fileLocks
        /\ tables' = [tables EXCEPT ![r.table] = Empty]
        /\ Go(t, "unlist")
    BY <1>5, <1>13 DEF ClearTable, At
  <2>2. t \in Sessions
    BY <1>1, <1>5, <2>1, SessionAt
  <2>3. d = r.table
    BY <1>1, <1>2, <1>3, <2>1
  <2>4. f = r.file
    BY <1>2, <1>5, <2>1, <2>3 DEF Carries, AtTable, Current
  <2>5. r.method = "RemoveLock" /\ r.op = "Unlock"
    BY <1>5, <2>1, <2>2 DEF Carries, InMethod, Serves
  <2>6. ActiveIn(r.file) \subseteq {t} /\ r.file = r.asked
    BY <1>5, <2>2, <2>5 DEF Carries, Knows
  <2>7. [r EXCEPT !.at = "unlist"].at = "unlist"
    BY DEF Thread
  <2>8. thread'[t].at = "unlist"
    BY <1>1, <1>5, <2>1, <2>7 DEF Go, Become
  <2> QED
    BY <1>4, <1>5, <2>1, <2>4, <2>5, <2>6, <2>8 DEF Releases
<1>14. CASE UnlistTable(t)
  <2>1. /\ r.at = "unlist" /\ tables' = tables
        /\ fileLocks' = [fileLocks EXCEPT ![r.file] = NoTable]
        /\ Answer(t)
    BY <1>5, <1>14 DEF UnlistTable, At
  <2>2. t \in Sessions
    BY <1>1, <1>5, <2>1, SessionAt
  <2>3. f = r.file
    BY <1>1, <1>2, <1>3, <2>1
  <2>4. r.method = "RemoveLock" /\ r.op = "Unlock"
    BY <1>5, <2>1, <2>2 DEF Carries, InMethod, Serves
  <2>5. ActiveIn(r.file) \subseteq {t} /\ r.file = r.asked
    BY <1>5, <2>2, <2>4 DEF Carries, Knows
  <2>6. thread'[t].at = "idle"
    BY <1>1, <2>1 DEF Answer, Become, Idle
  <2> QED
    BY <1>4, <1>5, <2>1, <2>3, <2>4, <2>5, <2>6 DEF Releases
<1>15. CASE TakeSession(t)
  <2>1. r.at = "take" /\ fileLocks' = fileLocks
    BY <1>5, <1>15 DEF TakeSession, At
  <2>2. PICK c \in r.doomed :
          /\ Remove(t, c)
          /\ Become(t, [thread[t] EXCEPT !.doomed = @ \ {c}, !.taken = c,
                !.at = IF c \in Listed(thread[t].table) THEN "unmap" ELSE "take"])
    BY <1>5, <1>6, <1>15 DEF TakeSession
  <2>3. c = s /\ d = r.table
    BY <1>5, <1>7, <2>1, <2>2 DEF Fits
  <2>4. SessionUser(s) = r.user /\ r.method # "TryGetLock"
    BY <1>5, <2>1, <2>2, <2>3 DEF Grounds, Fits, Carries, InMethod, Threads
  <2>5. r.user \in {KnownUser(s), IdUser[s]}
    BY <1>2, <2>4 DEF SessionUser, HeldInv
  <2>6. f = r.file
    BY <1>2, <1>5, <2>1, <2>3 DEF Carries, AtTable, Current
  <2>7. ComesFor(t, s, f)
    BY <1>5, <2>1, <2>4, <2>5, <2>6 DEF ComesFor
  <2>8. thread'[t] # thread[t]
    <3>1. PICK label : label = IF c \in Listed(thread[t].table) THEN "unmap" ELSE "take"
      OBVIOUS
    <3>2. [r EXCEPT !.doomed = r.doomed \ {c}, !.taken = c, !.at = label].doomed
             = r.doomed \ {c}
      BY DEF Thread
    <3>3. thread'[t] = [r EXCEPT !.doomed = r.doomed \ {c}, !.taken = c, !.at = label]
      BY <1>1, <1>5, <2>2, <3>1 DEF Become
    <3> QED
      BY <1>5, <2>2, <3>2, <3>3
  <2> QED
    BY <2>7, <2>8 DEF Releases
<1> QED
  BY <1>6, <1>8, <1>9, <1>10, <1>11, <1>12, <1>13, <1>14, <1>15
  DEF Work, ListExpired, FirstActive, TestEmpty, MapSession, ProbeSession, CheckExpired,
      ReadClock, VisitFile, MatchSessions, UnmapSession

\* Every way a session leaves a table while no two requests conflict: evictions take
\* expired ones only and never a lock that was renewed meanwhile, so a live lock is lost
\* to the session's own Unlock or to a cleanup after its user, be it the one that a Lock
\* for any other file begins with.
THEOREM HeldLocksStay ==
    ASSUME Isolated PROVE Spec => HeldUntilReleased
<1> DEFINE Released ==
      \A f \in Files : \A s \in ActiveIn(f) \ ListedFor(f)' :
         \E t \in Threads : thread'[t] # thread[t] /\ Releases(t, s, f)
<1>1. IInv /\ ExclusionInv /\ HeldInv /\ [Next]_vars => [Released]_vars
  <2> SUFFICES ASSUME IInv, ExclusionInv, HeldInv, Next,
                      NEW f \in Files, NEW s \in ActiveIn(f), s \notin ListedFor(f)'
               PROVE  \E t \in Threads : thread'[t] # thread[t] /\ Releases(t, s, f)
    OBVIOUS
  <2>1. ~UNCHANGED <<fileLocks, tables>>
    BY DEF ActiveIn, ListedFor, Listed
  <2>2. PICK t \in Threads : Work(t)
    BY <2>1 DEF Next, Tick, Arrive, ForceSaveAndCleanupUserSessions, Begin
  <2> QED
    BY <2>2, LossIsReleased
<1> QED
  BY <1>1, InitOK, NextOK, ExclusionInit, ExclusionNext, HeldInit, HeldNext,
     PTL DEF Spec, HeldUntilReleased
=============================================================================
