----------------------- MODULE SessionLocksRefinement -----------------------
(***************************************************************************)
(* The session locks implement the exclusive lease.                        *)
(***************************************************************************)
EXTENDS SessionLocksProofs

OwnerMap == [f \in Files |-> Owner(f)]
ReliesMap == [s \in Sessions |-> {f \in FilesOf[s] : Relies(s, f)}]

\* Owner names the one session that a file lists.
LEMMA OwnerIs ==
    ASSUME OneListed, NEW f \in Files
    PROVE  /\ Owner(f) \in Sessions \cup {NoSession}
           /\ \A s \in Sessions : Owner(f) = s <=> s \in ListedFor(f)
           /\ Owner(f) = NoSession <=> ListedFor(f) = {}
<1>1. ListedFor(f) \subseteq Sessions /\ NoSession \notin Sessions
  BY SessionLocksAssumption DEF ListedFor, Listed
<1>2. CASE ListedFor(f) = {}
  BY <1>1, <1>2 DEF Owner
<1>3. CASE ListedFor(f) # {}
  <2>1. Owner(f) \in ListedFor(f)
    BY <1>3 DEF Owner
  <2> QED
    BY <1>1, <1>3, <2>1 DEF OneListed
<1> QED
  BY <1>2, <1>3

LEMMA SameOwner ==
    ASSUME NEW f, ListedFor(f)' = ListedFor(f)
    PROVE  Owner(f)' = Owner(f)
BY DEF Owner

\* The files that a thread, in a cleanup, has yet to be through with.
Pending(r) ==
    IF r.method = "TryGetLock" THEN {}
    ELSE {f \in Files :
            \/ /\ r.at \in {"visit", "match", "take", "unmap", "isEmpty", "drop"}
               /\ f \in r.todo
            \/ r.at \in {"match", "take", "unmap"} /\ f = r.file}

LEMMA ReleasesIs ==
    ASSUME NEW t, NEW s, NEW f \in Files
    PROVE  Releases(t, s, f) <=>
              \/ ~At(t, "idle") /\ thread[t].op = "Unlock" /\ t = s /\ thread[t].asked = f
              \/ f \in Pending(thread[t]) /\ thread[t].user \in {KnownUser(s), IdUser[s]}
BY DEF Releases, ComesFor, Pending

\* A request is for the same until it is answered, and that is not before its cleanup
\* is over.
Answered(r, q) == q.at = "idle" /\ Pending(q) = {} /\ Pending(r) = {}
Kept(r, q) == r.at # "idle" /\ q.at # "idle" /\ q.op = r.op /\ q.asked = r.asked

\* What a step does to the files its thread has yet to be through with.
PendingStays(r, q) ==
    \/ Answered(r, q)
    \/ Kept(r, q) /\ Pending(r) = {} /\ (Pending(q) = {} \/ r.at = "map")
    \/ Kept(r, q) /\ q.user = r.user /\ Pending(q) = Pending(r)
    \/ /\ Kept(r, q) /\ q.user = r.user
       /\ r.at = "visit" \/ (r.at = "take" /\ r.doomed = {})
       /\ \E f \in Files : Pending(q) = Pending(r) \ {f}

LEMMA NothingPending ==
    ASSUME NEW r, r.at \notin {"visit", "match", "take", "unmap"},
           r.at \in {"isEmpty", "drop"} => r.method = "TryGetLock"
    PROVE  Pending(r) = {}
BY DEF Pending

LEMMA ReleaseStays ==
    ASSUME IInv, ExclusionInv, NEW t \in Threads, Work(t)
    PROVE  PendingStays(thread[t], thread'[t])
<1>1. thread \in [Threads -> Thread] /\ ThreadOK /\ ~At(t, "idle")
  BY OwnStep DEF IInv, ThreadOK
<1>2. PICK r \in Thread : r = thread[t] /\ r.at # "idle" /\ Fits(t, r) /\ Carries(t, r)
  BY <1>1, AtWork DEF At
<1> DEFINE Busy == {"visit", "match", "take", "unmap", "isEmpty", "drop"}
           Goal == PendingStays(thread[t], thread'[t])
<1> HIDE DEF Goal
<1> SUFFICES Goal
  BY DEF Goal
<1>3. ASSUME NEW q, Become(t, q), PendingStays(r, q) PROVE Goal
  BY <1>1, <1>2, <1>3 DEF Become, Goal
<1>4. ASSUME Answer(t), Pending(r) = {} PROVE Goal
  <2>1. Pending(Idle) = {} /\ Idle.at = "idle"
    BY NothingPending DEF Idle
  <2> QED
    BY <1>3, <1>4, <2>1 DEF Answer, PendingStays, Answered
\* A step outside of a cleanup.
<1>5. ASSUME NEW q, Become(t, q), q.at \notin Busy \cup {"idle"}, q.op = r.op,
             q.asked = r.asked, Pending(r) = {}
      PROVE  Goal
  <2>1. Pending(q) = {}
    BY <1>5, NothingPending
  <2> QED
    BY <1>2, <1>3, <1>5, <2>1 DEF PendingStays, Kept
\* A step from one of a cleanup's points to another, or from one of TryGetLock's.
<1>6. ASSUME NEW q, Become(t, q), q.op = r.op, q.asked = r.asked, q.user = r.user,
             q.method = r.method, q.todo = r.todo, q.file = r.file,
             \/ r.at \in {"isEmpty", "drop"} /\ q.at \in {"isEmpty", "drop", "visit"}
             \/ r.at \in {"match", "take", "unmap"} /\ q.at \in {"match", "take", "unmap"}
      PROVE  Goal
  <2>1. Pending(q) = Pending(r)
    BY <1>6 DEF Pending
  <2> QED
    BY <1>2, <1>3, <1>6, <2>1 DEF PendingStays, Kept
<1>7. ASSUME NEW label, label \notin Busy \cup {"idle"}, Go(t, label), Pending(r) = {}
      PROVE  Goal
  <2>1. PICK q : q = [r EXCEPT !.at = label]
    OBVIOUS
  <2>2. q.at = label /\ q.op = r.op /\ q.asked = r.asked
    BY <2>1 DEF Thread
  <2> QED
    BY <1>2, <1>5, <1>7, <2>1, <2>2 DEF Go
<1>8. ASSUME NEW method, NEW label \in {"map", "get"}, CallFor(t, method, label),
             Pending(r) = {}
      PROVE  Goal
  <2>1. PICK q : q = [r EXCEPT !.at = label, !.method = method,
                               !.table = NoTable, !.seen = Absent]
    OBVIOUS
  <2>2. q.at = label /\ q.op = r.op /\ q.asked = r.asked
    BY <2>1 DEF Thread
  <2> QED
    BY <1>2, <1>5, <1>8, <2>1, <2>2 DEF CallFor
<1>9. ASSUME NEW s, Handle(t, s), Pending(r) = {} PROVE Goal
  BY <1>4, <1>8, <1>9 DEF Handle
<1>10. CASE GetTable(t)
  <2>0. Pending(r) = {}
    BY <1>2, <1>10, NothingPending DEF GetTable, At
  <2>1. CASE Become(t, [thread[t] EXCEPT !.at = AfterGet(t), !.table = fileLocks[r.file]])
    <3>1. PICK label : label = AfterGet(t) /\ label \notin Busy \cup {"idle"}
      BY DEF AfterGet
    <3>2. PICK q : q = [r EXCEPT !.at = label, !.table = fileLocks[r.file]]
      OBVIOUS
    <3>3. q.at = label /\ q.op = r.op /\ q.asked = r.asked
      BY <3>2 DEF Thread
    <3> QED
      BY <1>2, <1>5, <2>0, <2>1, <3>1, <3>2, <3>3
  <2>2. ASSUME NEW e, Become(t, [thread[t] EXCEPT !.at = "list", !.table = e]) PROVE Goal
    <3>1. PICK q : q = [r EXCEPT !.at = "list", !.table = e]
      OBVIOUS
    <3>2. q.at = "list" /\ q.op = r.op /\ q.asked = r.asked
      BY <3>1 DEF Thread
    <3> QED
      BY <1>2, <1>5, <2>0, <2>2, <3>1, <3>2
  <2> QED
    BY <1>2, <1>4, <1>9, <1>10, <2>0, <2>1, <2>2 DEF GetTable, NotFound
<1>11. CASE ListExpired(t)
  <2>0. Pending(r) = {}
    BY <1>2, <1>11, NothingPending DEF ListExpired, At
  <2>1. PICK D : Become(t, [thread[t] EXCEPT !.at = "purge", !.doomed = D])
    BY <1>11 DEF ListExpired
  <2>2. PICK q : q = [r EXCEPT !.at = "purge", !.doomed = D]
    OBVIOUS
  <2>3. q.at = "purge" /\ q.op = r.op /\ q.asked = r.asked
    BY <2>2 DEF Thread
  <2> QED
    BY <1>2, <1>5, <2>0, <2>1, <2>2, <2>3
<1>12. CASE PurgeExpired(t)
  <2>0. r.at = "purge" /\ Pending(r) = {}
    BY <1>2, <1>12, NothingPending DEF PurgeExpired, At
  <2>1. ASSUME NEW s, Become(t, [thread[t] EXCEPT !.doomed = Rest(t, s)]) PROVE Goal
    <3>1. PICK q : q = [r EXCEPT !.doomed = Rest(t, s)]
      OBVIOUS
    <3>2. q.at = r.at /\ q.op = r.op /\ q.asked = r.asked
      BY <3>1 DEF Thread
    <3> QED
      BY <1>2, <1>5, <2>0, <2>1, <3>1, <3>2
  <2> QED
    BY <1>7, <1>12, <2>0, <2>1 DEF PurgeExpired
<1>13. CASE FirstActive(t)
  <2>0. Pending(r) = {} /\ r.at = "first" /\ r.method = "TryGetLock"
    <3>1. r.at = "first" /\ t \in Sessions
      BY <1>1, <1>2, <1>13, SessionAt DEF FirstActive, At
    <3>2. r.method = "TryGetLock"
      BY <1>2, <3>1 DEF Carries, InMethod
    <3> QED
      BY <3>1, <3>2, NothingPending
  <2>1. CASE Go(t, "isEmpty")
    <3>1. PICK q : q = [r EXCEPT !.at = "isEmpty"]
      OBVIOUS
    <3>2. q.at = "isEmpty" /\ q.op = r.op /\ q.asked = r.asked /\ q.method = r.method
      BY <3>1 DEF Thread
    <3>3. Pending(q) = {}
      BY <2>0, <3>2, NothingPending
    <3>4. PendingStays(r, q)
      BY <1>2, <2>0, <3>2, <3>3 DEF PendingStays, Kept
    <3> QED
      BY <1>2, <1>3, <2>1, <3>1, <3>4 DEF Go
  <2> QED
    BY <1>9, <1>13, <2>0, <2>1 DEF FirstActive
<1>14. ASSUME NEW label \in {"drop", "visit"}, r.at \in {"isEmpty", "drop"}, Go(t, label)
       PROVE  Goal
  <2>1. PICK q : q = [r EXCEPT !.at = label]
    OBVIOUS
  <2>2. /\ q.at = label /\ q.op = r.op /\ q.asked = r.asked /\ q.user = r.user
        /\ q.method = r.method /\ q.todo = r.todo /\ q.file = r.file
    BY <2>1 DEF Thread
  <2> QED
    BY <1>2, <1>6, <1>14, <2>1, <2>2 DEF Go
<1>15. CASE TestEmpty(t) \/ DropTable(t)
  <2>1. r.at \in {"isEmpty", "drop"}
    BY <1>2, <1>15 DEF TestEmpty, DropTable, At
  <2>2. r.method = "TryGetLock" => Pending(r) = {}
    BY DEF Pending
  <2> QED
    BY <1>2, <1>9, <1>14, <1>15, <2>1, <2>2 DEF TestEmpty, DropTable
<1>16. CASE MapSession(t)
  <2>0. r.at = "map" /\ Pending(r) = {}
    BY <1>2, <1>16, NothingPending DEF MapSession, At
  <2>1. PICK q : q = [r EXCEPT !.at = "visit", !.user = KnownUser(t),
                               !.method = "CleanupStaleSessionsForUser", !.todo = Files]
    OBVIOUS
  <2>2. q.at = "visit" /\ q.op = r.op /\ q.asked = r.asked
    BY <2>1 DEF Thread
  <2>3. PendingStays(r, q)
    BY <2>0, <2>2 DEF PendingStays, Kept
  <2> QED
    BY <1>2, <1>3, <1>7, <1>16, <2>0, <2>1, <2>3 DEF MapSession
<1>17. CASE ProbeSession(t)
  <2>0. Pending(r) = {}
    BY <1>2, <1>17, NothingPending DEF ProbeSession, At
  <2>1. PICK label \in {"stamp", "check"} :
           \/ Answer(t)
           \/ Become(t, [thread[t] EXCEPT !.at = label, !.seen = tables[r.table][t]])
    BY <1>2, <1>17 DEF ProbeSession
  <2>2. PICK q : q = [r EXCEPT !.at = label, !.seen = tables[r.table][t]]
    OBVIOUS
  <2>3. q.at = label /\ q.op = r.op /\ q.asked = r.asked
    BY <2>2 DEF Thread
  <2> QED
    BY <1>2, <1>4, <1>5, <2>0, <2>1, <2>2, <2>3
<1>18. CASE CheckExpired(t) \/ ForgetExpired(t) \/ StoreLock(t) \/ ClearTable(t) \/ UnlistTable(t)
  <2>0. Pending(r) = {}
    BY <1>2, <1>18, NothingPending
    DEF CheckExpired, ForgetExpired, StoreLock, ClearTable, UnlistTable, At
  <2> QED
    BY <1>4, <1>7, <1>18, <2>0
    DEF CheckExpired, ForgetExpired, StoreLock, ClearTable, UnlistTable
<1>19. CASE ReadClock(t)
  <2>0. Pending(r) = {}
    BY <1>2, <1>19, NothingPending DEF ReadClock, At
  <2>1. PICK q : q = [r EXCEPT !.at = "store", !.date = UtcNow]
    OBVIOUS
  <2>2. q.at = "store" /\ q.op = r.op /\ q.asked = r.asked
    BY <2>1 DEF Thread
  <2> QED
    BY <1>2, <1>5, <1>19, <2>0, <2>1, <2>2 DEF ReadClock
<1>20. CASE VisitFile(t)
  <2>1. r.at = "visit"
    BY <1>2, <1>20 DEF VisitFile, At
  <2>2. CASE r.todo = {}
    <3>1. Pending(r) = {}
      BY <2>1, <2>2 DEF Pending
    <3>2. PICK q : q = [r EXCEPT !.at = "get", !.method = "AddLock",
                           !.user = NoUser, !.table = NoTable, !.file = r.asked]
      OBVIOUS
    <3>3. q.at = "get" /\ q.op = r.op /\ q.asked = r.asked
      BY <3>2 DEF Thread
    <3> QED
      BY <1>2, <1>4, <1>5, <1>20, <2>2, <3>1, <3>2, <3>3 DEF VisitFile
  <2>3. ASSUME NEW f \in Files,
               Become(t, [thread[t] EXCEPT !.todo = @ \ {f}, !.file = f,
                            !.table = fileLocks[f],
                            !.at = IF fileLocks[f] = NoTable THEN "visit" ELSE "match"]),
               f \in r.todo
        PROVE  Goal
    <3>1. PICK label \in {"visit", "match"} :
             label = IF fileLocks[f] = NoTable THEN "visit" ELSE "match"
      OBVIOUS
    <3>2. PICK q : q = [r EXCEPT !.todo = r.todo \ {f}, !.file = f,
                            !.table = fileLocks[f], !.at = label]
      OBVIOUS
    <3>3. /\ q.at = label /\ q.op = r.op /\ q.user = r.user /\ q.asked = r.asked
          /\ q.method = r.method /\ q.file = f /\ q.todo = r.todo \ {f}
      BY <3>2 DEF Thread
    <3>4. Pending(q) = Pending(r) \/ Pending(q) = Pending(r) \ {f}
      <4>1. CASE label = "match"
        <5>1. Pending(q) = Pending(r)
          BY <2>1, <2>3, <3>3, <4>1 DEF Pending
        <5> QED
          BY <5>1
      <4>2. CASE label = "visit"
        <5>1. Pending(q) = Pending(r) \ {f}
          BY <2>1, <3>3, <4>2 DEF Pending
        <5> QED
          BY <5>1
      <4> QED
        BY <3>1, <4>1, <4>2
    <3>5. PendingStays(r, q)
      BY <1>2, <2>1, <3>1, <3>3, <3>4 DEF PendingStays, Kept
    <3> QED
      BY <1>2, <1>3, <2>3, <3>1, <3>2, <3>5
  <2>4. r.todo \subseteq Files
    BY DEF Thread
  <2> QED
    BY <1>2, <1>20, <2>2, <2>3, <2>4 DEF VisitFile
<1>21. CASE MatchSessions(t)
  <2>1. PICK D : /\ Become(t, [thread[t] EXCEPT !.at = "take", !.doomed = D])
                 /\ r.at = "match"
    BY <1>2, <1>21 DEF MatchSessions, At
  <2>2. PICK q : q = [r EXCEPT !.at = "take", !.doomed = D]
    OBVIOUS
  <2>3. /\ q.at = "take" /\ q.op = r.op /\ q.asked = r.asked /\ q.user = r.user
        /\ q.method = r.method /\ q.todo = r.todo /\ q.file = r.file
    BY <2>2 DEF Thread
  <2> QED
    BY <1>2, <1>6, <2>1, <2>2, <2>3
<1>22. CASE TakeSession(t)
  <2>0. r.at = "take"
    BY <1>2, <1>22 DEF TakeSession, At
  <2>1. ASSUME NEW s, Become(t, [thread[t] EXCEPT !.doomed = @ \ {s}, !.taken = s,
                    !.at = IF s \in Listed(thread[t].table) THEN "unmap" ELSE "take"])
        PROVE  Goal
    <3>1. PICK label \in {"unmap", "take"} :
             label = IF s \in Listed(thread[t].table) THEN "unmap" ELSE "take"
      OBVIOUS
    <3>2. PICK q : q = [r EXCEPT !.doomed = r.doomed \ {s}, !.taken = s, !.at = label]
      OBVIOUS
    <3>3. /\ q.at = label /\ q.op = r.op /\ q.asked = r.asked /\ q.user = r.user
          /\ q.method = r.method /\ q.todo = r.todo /\ q.file = r.file
      BY <3>2 DEF Thread
    <3> QED
      BY <1>2, <1>6, <2>0, <2>1, <3>1, <3>2, <3>3
  <2>2. CASE r.doomed = {} /\ Go(t, "isEmpty")
    <3>1. PICK q : q = [r EXCEPT !.at = "isEmpty"]
      OBVIOUS
    <3>2. /\ q.at = "isEmpty" /\ q.op = r.op /\ q.asked = r.asked /\ q.user = r.user
          /\ q.method = r.method /\ q.todo = r.todo /\ r.file \in Files
      BY <3>1 DEF Thread
    <3>3. Pending(q) = Pending(r) \/ Pending(q) = Pending(r) \ {r.file}
      <4>1. CASE r.file \in r.todo
        <5>1. Pending(q) = Pending(r)
          BY <2>0, <3>2, <4>1 DEF Pending
        <5> QED
          BY <5>1
      <4>2. CASE r.file \notin r.todo
        <5>1. Pending(q) = Pending(r) \ {r.file}
          BY <2>0, <3>2, <4>2 DEF Pending
        <5> QED
          BY <5>1
      <4> QED
        BY <4>1, <4>2
    <3>4. PendingStays(r, q)
      BY <1>2, <2>0, <2>2, <3>2, <3>3 DEF PendingStays, Kept
    <3> QED
      BY <1>2, <1>3, <2>2, <3>1, <3>4 DEF Go
  <2> QED
    BY <1>2, <1>22, <2>1, <2>2 DEF TakeSession
<1>23. CASE UnmapSession(t)
  <2>1. PICK q : q = [r EXCEPT !.at = "take", !.taken = NoSession]
    OBVIOUS
  <2>2. /\ q.at = "take" /\ q.op = r.op /\ q.asked = r.asked /\ q.user = r.user
        /\ q.method = r.method /\ q.todo = r.todo /\ q.file = r.file
    BY <2>1 DEF Thread
  <2> QED
    BY <1>2, <1>6, <1>23, <2>1, <2>2 DEF UnmapSession, At
<1> QED
  BY <1>10, <1>11, <1>12, <1>13, <1>15, <1>16, <1>17, <1>18, <1>19, <1>20, <1>21,
     <1>22, <1>23 DEF Work
-----------------------------------------------------------------------------
(* What a step changes of who owns and who relies.                         *)

\* No request under way is about to take session s's lock on f.
Safe(s, f) == ~\E t \in Threads : Releases(t, s, f)

\* What a step of its thread does to the locks in danger: it puts more of them there, or
\* takes those on one file, the one that was asked for or that a cleanup is done with,
\* out of it.
LEMMA SafeStays ==
    ASSUME IInv, ExclusionInv, NEW t \in Threads, Work(t)
    PROVE  \/ \A s \in Sessions, f \in Files : Safe(s, f)' => Safe(s, f)
           \/ \E g \in Files : \A s \in Sessions, f \in Files \ {g} :
                 Safe(s, f)' <=> Safe(s, f)
<1>1. /\ ~At(t, "idle") /\ thread \in [Threads -> Thread]
      /\ \A u \in Threads \ {t}, s \in Sessions, f \in Files :
            Releases(u, s, f)' <=> Releases(u, s, f)
  BY OwnStep DEF Releases, ComesFor, At, IInv, ThreadOK
<1>2. PICK r \in Thread : r = thread[t] /\ r.asked \in Files
  BY <1>1 DEF Thread
<1> PICK q : q = thread'[t]
  OBVIOUS
<1>3. PendingStays(r, q)
  BY <1>2, ReleaseStays
<1>4. \A s \in Sessions, f \in Files :
         Releases(t, s, f) <=>
            \/ r.at # "idle" /\ r.op = "Unlock" /\ t = s /\ r.asked = f
            \/ f \in Pending(r) /\ r.user \in {KnownUser(s), IdUser[s]}
  BY <1>2, ReleasesIs DEF At
<1>5. \A s \in Sessions, f \in Files :
         Releases(t, s, f)' <=>
            \/ q.at # "idle" /\ q.op = "Unlock" /\ t = s /\ q.asked = f
            \/ f \in Pending(q) /\ q.user \in {KnownUser(s), IdUser[s]}
  BY <1>2 DEF Releases, ComesFor, Pending, At
<1>6. ASSUME NEW g \in Files,
             \A s \in Sessions, f \in Files \ {g} : Releases(t, s, f)' <=> Releases(t, s, f)
      PROVE  \A s \in Sessions, f \in Files \ {g} : Safe(s, f)' <=> Safe(s, f)
  BY <1>1, <1>6 DEF Safe
<1>7. CASE Answered(r, q)
  <2>1. \A s \in Sessions, f \in Files \ {r.asked} : Releases(t, s, f)' <=> Releases(t, s, f)
    BY <1>4, <1>5, <1>7 DEF Answered
  <2> QED
    BY <1>2, <1>6, <2>1
<1>8. CASE Kept(r, q) /\ Pending(r) = {}
  <2>1. \A s \in Sessions, f \in Files : Releases(t, s, f) => Releases(t, s, f)'
    BY <1>4, <1>5, <1>8 DEF Kept
  <2> QED
    BY <1>1, <2>1 DEF Safe
<1>9. ASSUME NEW g \in Files, Kept(r, q), q.user = r.user,
             Pending(q) = Pending(r) \/ Pending(q) = Pending(r) \ {g}
      PROVE  \E h \in Files : \A s \in Sessions, f \in Files \ {h} :
                Safe(s, f)' <=> Safe(s, f)
  <2>1. \A s \in Sessions, f \in Files \ {g} : Releases(t, s, f)' <=> Releases(t, s, f)
    BY <1>4, <1>5, <1>9 DEF Kept
  <2> QED
    BY <1>6, <2>1
<1> QED
  BY <1>2, <1>3, <1>7, <1>8, <1>9 DEF PendingStays

\* Most steps leave the locks in danger as they are.
LEMMA SafeKept ==
    ASSUME IInv, ExclusionInv, NEW t \in Threads, Work(t),
           ~At(t, "map"), ~At(t, "visit"), At(t, "take") => thread[t].doomed # {},
           thread'[t].at = "idle" => thread[t].op # "Unlock"
    PROVE  \A s \in Sessions, f \in Files : Safe(s, f)' <=> Safe(s, f)
<1>1. /\ ~At(t, "idle") /\ thread \in [Threads -> Thread]
      /\ \A u \in Threads \ {t}, s \in Sessions, f \in Files :
            Releases(u, s, f)' <=> Releases(u, s, f)
  BY OwnStep DEF Releases, ComesFor, At, IInv, ThreadOK
<1>2. PICK r \in Thread : r = thread[t]
  BY <1>1
<1> PICK q : q = thread'[t]
  OBVIOUS
<1>3. PendingStays(r, q)
  BY <1>2, ReleaseStays
<1>4. \/ q.at = "idle" /\ r.op # "Unlock" /\ Pending(q) = {} /\ Pending(r) = {}
      \/ Kept(r, q) /\ Pending(r) = {} /\ Pending(q) = {}
      \/ Kept(r, q) /\ q.user = r.user /\ Pending(q) = Pending(r)
  BY <1>2, <1>3 DEF PendingStays, Answered, At
<1>5. \A s \in Sessions, f \in Files : Releases(t, s, f)' <=> Releases(t, s, f)
  <2>1. ASSUME NEW s \in Sessions, NEW f \in Files
        PROVE  Releases(t, s, f)' <=> Releases(t, s, f)
    <3>1. Releases(t, s, f) <=>
            \/ r.at # "idle" /\ r.op = "Unlock" /\ t = s /\ r.asked = f
            \/ f \in Pending(r) /\ r.user \in {KnownUser(s), IdUser[s]}
      BY <1>2, ReleasesIs DEF At
    <3>2. Releases(t, s, f)' <=>
            \/ q.at # "idle" /\ q.op = "Unlock" /\ t = s /\ q.asked = f
            \/ f \in Pending(q) /\ q.user \in {KnownUser(s), IdUser[s]}
      BY <1>2 DEF Releases, ComesFor, Pending, At
    <3> QED
      BY <1>4, <3>1, <3>2 DEF Kept
  <2> QED
    BY <2>1
<1> QED
  BY <1>1, <1>5 DEF Safe

\* The steps that take the last session of a file out of its table leave the locks in
\* danger as they are.
LEMMA Empties ==
    ASSUME IInv, ExclusionInv, OwnerInv, NEW t \in Threads, Work(t),
           NEW f \in Files, ListedFor(f) # {}, ListedFor(f)' = {}
    PROVE  /\ fileLocks[f] = thread[t].table /\ fileLocks[f] # NoTable
           /\ \A s \in Sessions, g \in Files : Safe(s, g)' <=> Safe(s, g)
<1> DEFINE Goal ==
      /\ fileLocks[f] = thread[t].table /\ fileLocks[f] # NoTable
      /\ \A s \in Sessions, g \in Files : Safe(s, g)' <=> Safe(s, g)
<1> HIDE DEF Goal
<1> SUFFICES Goal
  BY DEF Goal
<1>1. /\ fileLocks \in [Files -> Tables \cup {NoTable}]
      /\ tables \in [Tables -> [Sessions -> Stamp]] /\ NoTable \notin Tables
      /\ thread \in [Threads -> Thread] /\ ThreadOK /\ ~At(t, "idle")
  BY OwnStep, SessionLocksAssumption DEF IInv, SharedOK, ThreadOK
<1>2. PICK r \in Thread : r = thread[t] /\ Fits(t, r) /\ Carries(t, r)
  BY <1>1, AtWork
<1>3. ~(At(t, "store") /\ AsSeen(t))
  <2> SUFFICES ASSUME At(t, "store"), AsSeen(t) PROVE FALSE
    OBVIOUS
  <2>1. PICK g \in Files : /\ ListedFor(g)' = {t}
                           /\ \A h \in Files \ {g} : ListedFor(h)' = ListedFor(h)
    BY StoresAlone
  <2> QED
    BY <2>1
<1>4. PICK d \in Tables, s \in Sessions :
         d = fileLocks[f] /\ d = fileLocks'[f] /\ tables[d][s] # Absent
  <2>1. fileLocks'[f] = fileLocks[f]
    BY <1>3, WorkLoses DEF Loses, ListedFor
  <2>2. PICK s \in Sessions : s \in ListedFor(f)
    BY DEF ListedFor, Listed
  <2> QED
    BY <1>1, <2>1, <2>2 DEF ListedFor, Listed
<1>5. tables'[d][s] = Absent
  BY <1>1, <1>4 DEF ListedFor, Listed
<1>6. ASSUME NEW c, Remove(t, c), r.table \in Tables PROVE d = r.table
  BY <1>1, <1>2, <1>4, <1>5, <1>6 DEF Remove
<1>7. ASSUME d = r.table, r.at \notin {"map", "visit"}, r.at = "take" => r.doomed # {},
              thread'[t].at = "idle" => r.op # "Unlock"
       PROVE  Goal
  <2>1. \A q \in Sessions, g \in Files : Safe(q, g)' <=> Safe(q, g)
    BY <1>2, <1>7, SafeKept DEF At
  <2> QED
    BY <1>1, <1>2, <1>4, <1>7, <2>1 DEF Goal
<1>8. ~GetTable(t)
  <2> SUFFICES ASSUME GetTable(t) PROVE FALSE
    OBVIOUS
  <2>1. PICK e \in Tables : Unused(e) /\ tables' = [tables EXCEPT ![e] = Empty]
    BY <1>4, <1>5 DEF GetTable
  <2> QED
    BY <1>1, <1>4, <1>5, <2>1 DEF Unused
<1>9. CASE PurgeExpired(t)
  <2>1. r.at = "purge" /\ r.table \in Tables
    BY <1>2, <1>9 DEF PurgeExpired, At, Fits
  <2>2. PICK c \in r.doomed : /\ Remove(t, c)
                              /\ Become(t, [thread[t] EXCEPT !.doomed = @ \ {c}])
    BY <1>2, <1>4, <1>5, <1>9 DEF PurgeExpired, Rest
  <2>3. [r EXCEPT !.doomed = r.doomed \ {c}].at = "purge"
    BY <2>1 DEF Thread
  <2>4. thread'[t].at = "purge"
    BY <1>1, <1>2, <2>2, <2>3 DEF Become
  <2> QED
    BY <1>6, <1>7, <2>1, <2>2, <2>4
<1>10. CASE TakeSession(t)
  <2>1. r.at = "take" /\ r.table \in Tables
    BY <1>2, <1>10 DEF TakeSession, At, Fits
  <2>2. PICK c \in r.doomed :
          /\ Remove(t, c)
          /\ Become(t, [thread[t] EXCEPT !.doomed = @ \ {c}, !.taken = c,
                !.at = IF c \in Listed(thread[t].table) THEN "unmap" ELSE "take"])
    BY <1>2, <1>4, <1>5, <1>10 DEF TakeSession
  <2>3. PICK label \in {"unmap", "take"} :
           label = IF c \in Listed(thread[t].table) THEN "unmap" ELSE "take"
    OBVIOUS
  <2>4. [r EXCEPT !.doomed = r.doomed \ {c}, !.taken = c, !.at = label].at = label
    BY DEF Thread
  <2>5. thread'[t].at = label
    BY <1>1, <1>2, <2>2, <2>3, <2>4 DEF Become
  <2> QED
    BY <1>6, <1>7, <2>1, <2>2, <2>3, <2>5
<1>11. CASE ForgetExpired(t)
  <2>1. r.at = "forget" /\ r.table \in Tables /\ Remove(t, t)
    BY <1>2, <1>11 DEF ForgetExpired, At, Fits
  <2>2. r.op \in {"Lock", "RefreshLock"}
    BY <1>2, <2>1 DEF Fits, Carries, Serves
  <2> QED
    BY <1>6, <1>7, <2>1, <2>2
<1>12. CASE ClearTable(t)
  <2>1. /\ r.at = "clear" /\ tables' = [tables EXCEPT ![r.table] = Empty]
        /\ Go(t, "unlist")
    BY <1>2, <1>12 DEF ClearTable, At
  <2>2. d = r.table
    BY <1>1, <1>4, <1>5, <2>1
  <2>3. [r EXCEPT !.at = "unlist"].at = "unlist"
    BY DEF Thread
  <2>4. thread'[t].at = "unlist"
    BY <1>1, <1>2, <2>1, <2>3 DEF Go, Become
  <2> QED
    BY <1>7, <2>1, <2>2, <2>4
<1>13. ~StoreLock(t)
  BY <1>3, <1>4, <1>5 DEF StoreLock
<1> QED
  BY <1>4, <1>5, <1>8, <1>9, <1>10, <1>11, <1>12, <1>13
  DEF Work, ListExpired, FirstActive, TestEmpty, DropTable, MapSession, ProbeSession,
      CheckExpired, ReadClock, UnlistTable, VisitFile, MatchSessions, UnmapSession

\* The locks of a file that lists the same session as before are as they were.
LEMMA StillActive ==
    ASSUME IInv, NEW t, Loses(t), now' = now, NEW f \in Files,
           ListedFor(f)' = ListedFor(f)
    PROVE  ActiveIn(f)' = ActiveIn(f)
<1>1. CASE ListedFor(f) = {}
  BY <1>1 DEF ActiveIn
<1>2. CASE ListedFor(f) # {}
  <2>1. PICK d \in Tables : d = fileLocks[f] /\ d = fileLocks'[f]
    <3>1. fileLocks'[f] = fileLocks[f]
      BY <1>2 DEF Loses, ListedFor
    <3> QED
      BY <1>2, <3>1 DEF ListedFor, IInv, SharedOK
  <2>2. \A s \in ListedFor(f) : tables'[d][s] = tables[d][s]
    BY <2>1 DEF Loses, ListedFor, Listed
  <2>3. \A s \in ListedFor(f) : Expired(tables[d][s])' <=> Expired(tables[d][s])
    BY <2>2 DEF Expired
  <2> QED
    BY <2>1, <2>3 DEF ActiveIn
<1> QED
  BY <1>1, <1>2
-----------------------------------------------------------------------------
(* Every step maps to one of the lease, or to none.                        *)

LEMMA MapFacts ==
    /\ DOMAIN OwnerMap = Files /\ DOMAIN ReliesMap = Sessions
    /\ \A f \in Files : OwnerMap[f] = Owner(f) /\ OwnerMap'[f] = Owner(f)'
    /\ \A s \in Sessions : /\ ReliesMap[s] = {f \in FilesOf[s] : Relies(s, f)}
                           /\ ReliesMap'[s] = {f \in FilesOf[s] : Relies(s, f)'}
BY DEF OwnerMap, ReliesMap

LEMMA RelyFacts ==
    ASSUME NEW s, NEW f
    PROVE  Relies(s, f) <=> s \in ActiveIn(f) /\ Safe(s, f)
BY DEF Relies, Safe

\* Nobody comes to rely on more, and no owner changes.
LEMMA ForgetStep ==
    ASSUME OwnerMap' = OwnerMap,
           \A s \in Sessions : \A f \in FilesOf[s] : Relies(s, f)' => Relies(s, f)
    PROVE  [Lease!Next]_(Lease!vars)
<1>1. /\ \A s \in Sessions : ReliesMap'[s] \subseteq ReliesMap[s]
      /\ ReliesMap' \in [Sessions -> SUBSET Files]
  BY MapFacts, SessionLocksAssumption DEF ReliesMap
<1>2. Lease!Forget
  BY <1>1 DEF Lease!Forget, OwnerMap, ReliesMap
<1> QED
  BY <1>2 DEF Lease!Next

\* Session s comes to count on the file it owns, and nothing changes for anybody else.
LEMMA LearnStep ==
    ASSUME OwnerMap' = OwnerMap, NEW s \in Sessions, NEW f \in FilesOf[s],
           OwnerMap[f] = s, Relies(s, f)',
           \A r \in Sessions : \A g \in FilesOf[r] :
              r # s \/ g # f => (Relies(r, g)' <=> Relies(r, g))
    PROVE  [Lease!Next]_(Lease!vars)
<1>1. f \in Files
  BY SessionLocksAssumption
<1>2. \A r \in Sessions \ {s} : ReliesMap'[r] = ReliesMap[r]
  <2>1. ASSUME NEW r \in Sessions \ {s} PROVE ReliesMap'[r] = ReliesMap[r]
    <3>1. \A g \in FilesOf[r] : Relies(r, g)' <=> Relies(r, g)
      OBVIOUS
    <3> QED
      BY <3>1, MapFacts
  <2> QED
    BY <2>1
<1>3. ReliesMap'[s] = ReliesMap[s] \cup {f}
  BY MapFacts
<1>4. ReliesMap' = [ReliesMap EXCEPT ![s] = @ \cup {f}]
  BY <1>2, <1>3 DEF ReliesMap
<1>5. Lease!Learn(s, f)
  BY <1>4 DEF Lease!Learn, OwnerMap, ReliesMap
<1> QED
  BY <1>1, <1>5 DEF Lease!Next

\* The owner of one file changes, and of no other.
LEMMA OwnersChange ==
    ASSUME NEW f \in Files, NEW s, Owner(f)' = s,
           \A g \in Files \ {f} : Owner(g)' = Owner(g)
    PROVE  OwnerMap' = [OwnerMap EXCEPT ![f] = s]
BY DEF OwnerMap

\* AddLock acquires a free file; a refresh renews the lease of its owner.
LEMMA StoreRefines ==
    ASSUME IInv, ExclusionInv, OwnerInv, HeldInv', OneListed',
           NEW t \in Threads, Work(t), At(t, "store"), AsSeen(t)
    PROVE  [Lease!Next]_(Lease!vars)
<1>1. PICK f \in Files, d \in Tables :
         /\ t \in Sessions /\ fileLocks[f] = d
         /\ fileLocks' = fileLocks /\ now' = now
         /\ Listed(d) \subseteq {t} /\ ListedFor(f)' = {t}
         /\ \A e \in Tables, s \in Sessions :
               (e # d \/ s # t) => tables'[e][s] = tables[e][s]
         /\ \A g \in Files \ {f} : ListedFor(g)' = ListedFor(g)
  BY StoresAlone
<1>2. /\ d # NoTable /\ fileLocks \in [Files -> Tables \cup {NoTable}]
      /\ thread \in [Threads -> Thread]
      /\ ListedFor(f) \subseteq {t} /\ OneListed /\ f \in FilesOf[t]
  BY <1>1, SessionLocksAssumption
  DEF IInv, SharedOK, ThreadOK, ListedFor, OwnerInv, HeldInv
<1>3. \A s \in Sessions, g \in Files : Safe(s, g)' <=> Safe(s, g)
  <2>1. PICK r \in Thread : r = thread[t] /\ Fits(t, r) /\ Carries(t, r)
    BY AtWork DEF At
  <2>2. r.op \in {"Lock", "RefreshLock"}
    BY <2>1 DEF At, Fits, Carries, Serves
  <2> QED
    BY <2>1, <2>2, SafeKept DEF At
<1>4. ASSUME NEW s \in Sessions, NEW g \in Files, s # t \/ g # f
      PROVE  Relies(s, g)' <=> Relies(s, g)
  <2>1. s \in ActiveIn(g)' <=> s \in ActiveIn(g)
    <3>1. CASE g = f
      BY <1>1, <1>2, <1>4, <3>1 DEF ActiveIn
    <3>2. CASE g # f /\ s \in ListedFor(g)
      <4>1. PICK e \in Tables : e = fileLocks[g] /\ e # d
        BY <1>1, <1>2, <3>2 DEF ListedFor, ExclusionInv, OwnTables
      <4>2. Expired(tables[e][s])' <=> Expired(tables[e][s])
        BY <1>1, <4>1 DEF Expired
      <4> QED
        BY <1>1, <3>2, <4>1, <4>2 DEF ActiveIn
    <3>3. CASE g # f /\ s \notin ListedFor(g)
      BY <1>1, <3>3 DEF ActiveIn
    <3> QED
      BY <3>1, <3>2, <3>3
  <2> QED
    BY <1>3, <2>1 DEF Relies, Safe
<1>5. Owner(f)' = t
  BY <1>1, OwnerIs DEF Owner
<1>6. \A g \in Files \ {f} : Owner(g)' = Owner(g)
  BY <1>1, SameOwner
<1>7. CASE ListedFor(f) = {}
  <2>1. OwnerMap' = [OwnerMap EXCEPT ![f] = t]
    BY <1>5, <1>6, OwnersChange
  <2>2. OwnerMap[f] = NoSession
    BY <1>2, <1>7, OwnerIs, MapFacts
  <2>3. ~Relies(t, f)
    BY <1>7 DEF Relies, ActiveIn
  <2>4. \A s \in Sessions \ {t} : ReliesMap'[s] = ReliesMap[s]
    <3>1. ASSUME NEW s \in Sessions \ {t} PROVE ReliesMap'[s] = ReliesMap[s]
      <4>1. \A g \in FilesOf[s] : Relies(s, g)' <=> Relies(s, g)
        BY <1>4, SessionLocksAssumption
      <4> QED
        BY <4>1, MapFacts
    <3> QED
      BY <3>1
  <2>5. ReliesMap'[t] = ReliesMap[t] \/ ReliesMap'[t] = ReliesMap[t] \cup {f}
    <3>1. \A g \in FilesOf[t] \ {f} : Relies(t, g)' <=> Relies(t, g)
      BY <1>1, <1>4, SessionLocksAssumption
    <3>2. CASE Relies(t, f)'
      <4>1. ReliesMap'[t] = ReliesMap[t] \cup {f}
        BY <1>1, <1>2, <3>1, <3>2, MapFacts
      <4> QED
        BY <4>1
    <3>3. CASE ~Relies(t, f)'
      <4>1. ReliesMap'[t] = ReliesMap[t]
        <5>1. \A g \in FilesOf[t] : Relies(t, g)' <=> Relies(t, g)
          BY <2>3, <3>1, <3>3
        <5> QED
          BY <1>1, <5>1, MapFacts
      <4> QED
        BY <4>1
    <3> QED
      BY <3>2, <3>3
  <2>6. ReliesMap' \in {ReliesMap, [ReliesMap EXCEPT ![t] = @ \cup {f}]}
    BY <1>1, <2>4, <2>5 DEF ReliesMap
  <2>7. Lease!Acquire(t, f)
    BY <2>1, <2>2, <2>6 DEF Lease!Acquire, OwnerMap, ReliesMap
  <2> QED
    BY <1>1, <2>7 DEF Lease!Next
<1>8. CASE ListedFor(f) # {}
  <2>1. Owner(f) = t
    BY <1>1, <1>2, <1>8, OwnerIs
  <2>2. OwnerMap' = OwnerMap
    BY <1>5, <1>6, <2>1 DEF OwnerMap
  <2>3. CASE Relies(t, f)'
    BY <1>1, <1>2, <1>4, <2>1, <2>2, <2>3, LearnStep, MapFacts, SessionLocksAssumption
  <2>4. CASE ~Relies(t, f)'
    BY <1>4, <2>2, <2>4, ForgetStep, SessionLocksAssumption
  <2> QED
    BY <2>3, <2>4
<1> QED
  BY <1>7, <1>8

\* A file that loses its session is dropped by a step that takes an expired lock,
\* or one that is being released.
LEMMA DropRefines ==
    ASSUME IInv, IInv', ExclusionInv, HeldInv, OwnerInv, OneListed',
           NEW t \in Threads, Work(t), Loses(t),
           NEW f \in Files, ListedFor(f) # {}, ListedFor(f)' = {}
    PROVE  [Lease!Next]_(Lease!vars)
<1>1. /\ OneListed /\ now' = now /\ ~At(t, "idle")
      /\ \A g \in Files : ListedFor(g)' \subseteq ListedFor(g)
  BY LosesFacts, WorkChanges, OwnStep DEF OwnerInv
<1>2. ASSUME NEW g \in Files \ {f} PROVE ListedFor(g)' = ListedFor(g)
  <2>1. SUFFICES ASSUME ListedFor(g)' # ListedFor(g) PROVE FALSE
    OBVIOUS
  <2>2. ListedFor(g) # {} /\ ListedFor(g)' = {}
    BY <1>1, <2>1 DEF OneListed
  <2>3. fileLocks[g] = thread[t].table /\ fileLocks[f] = thread[t].table
        /\ fileLocks[f] # NoTable
    BY <2>2, Empties
  <2> QED
    BY <2>3 DEF ExclusionInv, OwnTables
<1>3. PICK s \in Sessions : s \in ListedFor(f) /\ Owner(f) = s
  <2>1. \A s \in ListedFor(f) : s \in Sessions
    BY DEF ListedFor, Listed
  <2> QED
    BY <1>1, <2>1, OwnerIs
<1>4. ~Relies(s, f)
  <2>1. s \in ActiveIn(f) => Releases(t, s, f)
    BY <1>3, LossIsReleased
  <2> QED
    BY <2>1 DEF Relies
<1>5. \A r \in Sessions, g \in Files : Safe(r, g)' <=> Safe(r, g)
  BY Empties
<1>6. ASSUME NEW r \in Sessions, NEW g \in Files PROVE Relies(r, g)' <=> Relies(r, g)
  <2>1. CASE g = f
    <3>1. ~Relies(r, f)'
      BY DEF Relies, ActiveIn
    <3>2. ~Relies(r, f)
      BY <1>1, <1>3, <1>4 DEF Relies, ActiveIn, OneListed
    <3> QED
      BY <2>1, <3>1, <3>2
  <2>2. CASE g # f
    <3>1. ActiveIn(g)' = ActiveIn(g)
      BY <1>1, <1>2, <2>2, StillActive
    <3> QED
      BY <1>5, <3>1 DEF Relies, Safe
  <2> QED
    BY <2>1, <2>2
<1>7. ReliesMap' = ReliesMap
  BY <1>6, SessionLocksAssumption DEF ReliesMap
<1>8. Owner(f)' = NoSession /\ \A g \in Files \ {f} : Owner(g)' = Owner(g)
  BY <1>2, SameOwner DEF Owner
<1>9. OwnerMap' = [OwnerMap EXCEPT ![f] = NoSession]
  BY <1>8, OwnersChange
<1>10. OwnerMap[f] # NoSession /\ f \notin ReliesMap[OwnerMap[f]]
  BY <1>3, <1>4, MapFacts, SessionLocksAssumption
<1>11. Lease!Drop(f)
  BY <1>7, <1>9, <1>10 DEF Lease!Drop, OwnerMap, ReliesMap
<1> QED
  BY <1>11 DEF Lease!Next

\* A request that is through with a file without having taken the lock it might have
\* released leaves the session that has it to rely on it again.
LEMMA OthersRefine ==
    ASSUME IInv, ExclusionInv, OwnerInv, NEW t \in Threads, Work(t),
           Loses(t), \A f \in Files : ListedFor(f)' = ListedFor(f)
    PROVE  [Lease!Next]_(Lease!vars)
<1>1. now' = now
  BY WorkChanges
<1>2. OwnerMap' = OwnerMap
  BY SameOwner DEF OwnerMap
<1>3. \A f \in Files : ActiveIn(f)' = ActiveIn(f)
  BY <1>1, StillActive
<1>4. \A s \in Sessions : \A f \in FilesOf[s] : f \in Files
  BY SessionLocksAssumption
<1>5. CASE \A s \in Sessions : \A f \in FilesOf[s] : Relies(s, f)' => Relies(s, f)
  BY <1>2, <1>5, ForgetStep
<1>6. ASSUME NEW s \in Sessions, NEW f \in FilesOf[s], Relies(s, f)', ~Relies(s, f)
      PROVE  [Lease!Next]_(Lease!vars)
  <2>1. f \in Files /\ s \in ActiveIn(f) /\ Safe(s, f)' /\ ~Safe(s, f)
    BY <1>3, <1>4, <1>6 DEF Relies, Safe
  <2>2. PICK h \in Files : \A r \in Sessions, g \in Files \ {h} : Safe(r, g)' <=> Safe(r, g)
    BY <2>1, SafeStays
  <2>3. h = f
    BY <2>1, <2>2
  <2>4. s \in ListedFor(f) /\ OwnerMap[f] = s
    <3>1. s \in ListedFor(f)
      BY <2>1 DEF ActiveIn
    <3> QED
      BY <2>1, <3>1, OwnerIs, MapFacts DEF OwnerInv
  <2>5. ASSUME NEW r \in Sessions, NEW g \in FilesOf[r], r # s \/ g # f
        PROVE  Relies(r, g)' <=> Relies(r, g)
    <3>1. CASE g # f
      BY <1>3, <1>4, <2>2, <2>3, <3>1 DEF Relies, Safe
    <3>2. CASE g = f
      <4>1. r \notin ListedFor(f)
        BY <2>1, <2>4, <2>5, <3>2 DEF OwnerInv, OneListed
      <4>2. r \notin ActiveIn(f) /\ r \notin ActiveIn(f)'
        BY <1>3, <2>1, <4>1 DEF ActiveIn
      <4> QED
        BY <3>2, <4>2 DEF Relies
    <3> QED
      BY <3>1, <3>2
  <2> QED
    BY <1>2, <1>6, <2>4, <2>5, LearnStep
<1> QED
  BY <1>5, <1>6

LEMMA WorkRefines ==
    ASSUME IInv, IInv', ExclusionInv, HeldInv, HeldInv', OwnerInv, OwnerInv',
           NEW t \in Threads, Work(t)
    PROVE  [Lease!Next]_(Lease!vars)
<1>1. OneListed /\ OneListed'
  BY DEF OwnerInv
<1>2. CASE At(t, "store") /\ AsSeen(t)
  BY <1>1, <1>2, StoreRefines
<1>3. CASE ~(At(t, "store") /\ AsSeen(t))
  <2>1. Loses(t)
    BY <1>3, WorkLoses
  <2>2. CASE \E f \in Files : ListedFor(f) # {} /\ ListedFor(f)' = {}
    BY <1>1, <2>1, <2>2, DropRefines
  <2>3. CASE ~\E f \in Files : ListedFor(f) # {} /\ ListedFor(f)' = {}
    <3>1. ASSUME NEW f \in Files PROVE ListedFor(f)' = ListedFor(f)
      <4>1. ListedFor(f)' \subseteq ListedFor(f)
        BY <2>1, LosesFacts
      <4> QED
        BY <1>1, <2>3, <4>1 DEF OneListed
    <3> QED
      BY <2>1, <3>1, OthersRefine
  <2> QED
    BY <2>2, <2>3
<1> QED
  BY <1>2, <1>3

\* A request that arrives may be one to release a lock; time makes locks expire.
LEMMA WaitRefines ==
    ASSUME IInv, IInv', UNCHANGED <<fileLocks, tables>>, now' >= now,
           \A t \in Threads : thread'[t] = thread[t] \/ At(t, "idle")
    PROVE  [Lease!Next]_(Lease!vars)
<1>1. OwnerMap' = OwnerMap
  BY SameOwner DEF OwnerMap, ListedFor, Listed
<1>2. ASSUME NEW f \in Files PROVE ActiveIn(f)' \subseteq ActiveIn(f)
  <2>1. Loses(CHOOSE t : TRUE)
    BY DEF Loses
  <2> QED
    BY <2>1, LosesFacts
<1>3. ASSUME NEW s, NEW f PROVE Safe(s, f)' => Safe(s, f)
  BY DEF Safe, Releases, ComesFor, At
<1>4. \A s \in Sessions : \A f \in FilesOf[s] : Relies(s, f)' => Relies(s, f)
  BY <1>2, <1>3, SessionLocksAssumption DEF Relies, Safe
<1> QED
  BY <1>1, <1>4, ForgetStep

LEMMA BeginRefines ==
    ASSUME IInv, IInv', NEW t \in Threads, NEW q, Begin(t, q)
    PROVE  [Lease!Next]_(Lease!vars)
<1>1. \A u \in Threads : thread'[u] = thread[u] \/ At(u, "idle")
  BY DEF Begin, Become, IInv, ThreadOK
<1>2. now' >= now
  BY DEF Begin, IInv, SharedOK, Time
<1> QED
  BY <1>1, <1>2, WaitRefines DEF Begin

LEMMA NextRefines ==
    ASSUME IInv, IInv', ExclusionInv, HeldInv, HeldInv', OwnerInv, OwnerInv',
           [Next]_vars
    PROVE  [Lease!Next]_(Lease!vars)
<1>1. CASE \E t \in Threads : Work(t)
  BY <1>1, WorkRefines
<1>2. CASE \E s \in Sessions : Arrive(s)
  BY <1>2, BeginRefines DEF Arrive, Threads
<1>3. CASE \E t \in Cleaners : ForceSaveAndCleanupUserSessions(t)
  BY <1>3, BeginRefines DEF ForceSaveAndCleanupUserSessions, Threads
<1>4. CASE Tick
  <2>1. UNCHANGED <<fileLocks, tables, thread>> /\ now' >= now
    BY <1>4 DEF Tick, IInv, SharedOK, Time
  <2> QED
    BY <2>1, WaitRefines
<1>5. CASE UNCHANGED vars
  <2>1. UNCHANGED <<fileLocks, tables, thread>> /\ now' >= now
    BY <1>5 DEF vars, IInv, SharedOK, Time
  <2> QED
    BY <2>1, WaitRefines
<1> QED
  BY <1>1, <1>2, <1>3, <1>4, <1>5 DEF Next

\* The tables of sessions implement the exclusive lease while no two requests conflict:
\* a file lists one session at a time, a lock reaches another one only through the file
\* being free, and none is dropped that its session still counts on.  It stops counting
\* on it when its user's sessions are cleaned up, as a Lock of any of them begins by.
THEOREM SessionsLease ==
    ASSUME Isolated PROVE Spec => ImplementsLease
<1>1. Init => Lease!Init
  <2> SUFFICES ASSUME Init PROVE Lease!Init
    OBVIOUS
  <2>1. \A f \in Files : ListedFor(f) = {}
    BY DEF Init, ListedFor
  <2>2. \A f \in Files : Owner(f) = NoSession
    BY <2>1 DEF Owner
  <2>3. \A s \in Sessions : {f \in FilesOf[s] : Relies(s, f)} = {}
    BY <2>1, SessionLocksAssumption DEF Relies, ActiveIn
  <2> QED
    BY <2>2, <2>3 DEF Lease!Init
<1>2. /\ IInv /\ IInv' /\ ExclusionInv /\ HeldInv /\ HeldInv' /\ OwnerInv /\ OwnerInv'
      /\ [Next]_vars
      => [Lease!Next]_(Lease!vars)
  BY NextRefines
<1> QED
  BY <1>1, <1>2, InitOK, NextOK, ExclusionInit, ExclusionNext, HeldInit, HeldNext,
     OwnerInit, OwnerNext, PTL
  DEF Spec, ImplementsLease, Lease!Spec
=============================================================================
