------------------------ MODULE MemoryLocksExclusion ------------------------
(***************************************************************************)
(* Theorems about MemoryLocks: when requests for one file do not overlap,  *)
(* or no lock is old enough to expire, a lock has one holder.              *)
(***************************************************************************)
EXTENDS MemoryLocksProofs

ThreadOK(c) ==
    RequestInv(c) /\ OwnerInv(c) /\ EvictInv(c) /\ LeaseInv(c) /\ IsolatedInv(c)

LEMMA OwnerFacts ==
    ASSUME TypeOK
    PROVE  /\ \A c \in Clients : c # Nobody
           /\ \A f \in Files : Owner(f) # Nobody <=> Present(locks[f])
BY LockIdsAssumption, MemoryLocksAssumption DEF Owner, Present, TypeOK, Entry

\* If Isolated, no other thread is at the file of the thread that takes a step,
\* before the step or after it.
LEMMA OthersElsewhere ==
    ASSUME TypeOK, NEW c \in Clients, IsolatedInv(c), Step(c), Isolated,
           NEW d \in Clients \ {c}, pc[d] # "idle"
    PROVE  /\ pc[c] # "idle" => req[d].file # req[c].file
           /\ pc'[c] # "idle" => req[d].file # req'[c].file
<1>1. CASE Arrive(c)
  BY <1>1, ArriveOutcome DEF Busy
<1>2. CASE Deliver(c)
  <2>1. pc[c] # "idle" /\ pc'[c] = "idle"
    BY <1>2 DEF Deliver, TypeOK
  <2> QED
    BY <2>1 DEF IsolatedInv, InFlight
<1>3. CASE ~Arrive(c) /\ ~Deliver(c)
  <2>1. pc[c] # "idle"
    BY <1>3
    DEF Step, Refetch, TryGetValue, CheckExpired, Evict, Stamp, TryAdd, Vacant, TryUpdate, AsSeen,
        RemoveLock, HandleGetLock, HandleLockOrPut, HandleRelock, HandleUnlock,
        HandleRefreshLock, HandleRenameFile, HandleDeleteFile, Handling, WriteFile,
        RenameFile, DeleteFile
  <2>2. req' = req
    BY <1>3, RequestKept
  <2> QED
    BY <2>1, <2>2 DEF IsolatedInv, InFlight
<1> QED
  BY <1>1, <1>2, <1>3

LEMMA OthersEntries ==
    ASSUME TypeOK, NEW c \in Clients, IsolatedInv(c), Step(c), Isolated,
           NEW d \in Clients \ {c}, pc[d] # "idle"
    PROVE  locks'[req[d].file] = locks[req[d].file]
<1>1. req[d].file \in Files /\ req[c].file \in Files
  BY DEF TypeOK, Request
<1> QED
  BY <1>1, LocksMove, OthersElsewhere DEF TypeOK

\* Whose entry a step may change: its own session's, nobody's, or an expired
\* one that no other request can have renewed in the meantime.
LEMMA EntryChange ==
    ASSUME TypeOK, Guarded, NEW c \in Clients, ThreadOK(c), Step(c),
           NEW f \in Files, locks'[f] # locks[f]
    PROVE  \/ Owner(f) \in {c, Nobody}
           \/ Isolated /\ Expired(locks[f])
<1>1. /\ req[c].file \in Files /\ ~Present(NoEntry)
      /\ frame[c].seen.dateCreated \in Nat /\ now \in Nat /\ Lifetime \in Nat
      /\ now <= MaxTime /\ MaxTime \in Nat
  BY MemoryLocksAssumption DEF TypeOK, Request, Frame, Entry, Time, Present, NoEntry
<1>2. f = req[c].file
  BY <1>1, LocksMove DEF TypeOK
<1>3. CASE pc[c] = "evict"
  BY <1>1, <1>2, <1>3 DEF ThreadOK, EvictInv, Expired, Guarded
<1>4. CASE pc[c] = "remove"
  BY <1>2, <1>4 DEF ThreadOK, OwnerInv
<1>5. CASE pc[c] = "store" /\ ~Present(locks[req[c].file])
  BY <1>2, <1>5, OwnerFacts
<1>6. CASE pc[c] = "store" /\ frame[c].call = "RefreshLock"
  BY <1>2, <1>6 DEF ThreadOK, OwnerInv, Refreshing
<1> QED
  BY <1>3, <1>4, <1>5, <1>6, LocksMove

\* No step of one thread disturbs what another one relies on.
LEMMA OtherThread ==
    ASSUME TypeOK, Guarded, NEW c \in Clients, ThreadOK(c), Step(c),
           NEW d \in Clients \ {c}, ThreadOK(d)
    PROVE  ThreadOK(d)'
<1>1. /\ pc'[d] = pc[d] /\ frame'[d] = frame[d] /\ answer'[d] = answer[d]
      /\ req'[d] = req[d] /\ lease'[d] = lease[d] /\ now' = now
      /\ req[d].file \in Files
  BY StepKeeps, StepKeepsTime DEF OthersKept, TypeOK, Request
<1>2. /\ d # Nobody
      /\ Isolated /\ pc[d] # "idle" => locks'[req[d].file] = locks[req[d].file]
  BY OthersEntries, OwnerFacts DEF ThreadOK
<1>3. RequestInv(d)'
  BY <1>1 DEF ThreadOK, RequestInv, Refreshing
<1>4. ASSUME NEW f \in Files, Owner(f) = d, ~(Isolated /\ Expired(locks[f]))
      PROVE  locks'[f] = locks[f]
  BY <1>2, <1>4, EntryChange
<1>5. OwnerInv(d)'
  <2>1. pc[d] # "idle" /\ Owner(req[d].file) = d => locks'[req[d].file] = locks[req[d].file]
    BY <1>1, <1>2, <1>4
  <2> QED
    BY <1>1, <2>1
    DEF ThreadOK, OwnerInv, Refreshing, SawOwnLock, HasGrant, GrantedLock, Owner
<1>6. EvictInv(d)'
  BY <1>1, <1>2 DEF ThreadOK, EvictInv, Expired
<1>7. LeaseInv(d)'
  <2>1. ASSUME NEW f \in Files, Relies(d, f)
        PROVE  locks'[f] = locks[f]
    <3>1. /\ lease[d][f] \in Int /\ locks[f].dateCreated \in Int
          /\ now \in Int /\ Lifetime \in Int
      BY MemoryLocksAssumption DEF TypeOK, Time, NotHeld, Entry
    <3>2. Owner(f) = d /\ lease[d][f] <= locks[f].dateCreated
      BY <2>1 DEF ThreadOK, LeaseInv
    <3>3. ~Expired(locks[f])
      BY <2>1, <3>1, <3>2 DEF Relies, Expired
    <3> QED
      BY <1>4, <3>2, <3>3
  <2> QED
    BY <1>1, <2>1 DEF ThreadOK, LeaseInv, Relies, Owner, InFlight
<1>8. IsolatedInv(d)'
  <2>1. \A e \in Clients \ {c} : pc'[e] = pc[e] /\ req'[e] = req[e]
    BY StepKeeps DEF OthersKept
  <2>2. Isolated /\ pc[d] # "idle" /\ pc'[c] # "idle" => req[d].file # req'[c].file
    BY OthersElsewhere DEF ThreadOK
  <2> QED
    BY <1>1, <2>1, <2>2 DEF ThreadOK, IsolatedInv, InFlight
<1> QED
  BY <1>3, <1>5, <1>6, <1>7, <1>8 DEF ThreadOK

-----------------------------------------------------------------------------
(* The thread that takes the step.                                         *)

LEMMA OwnOwner ==
    ASSUME TypeOK, NEW c \in Clients, ThreadOK(c), Step(c)
    PROVE  OwnerInv(c)'
<1> DEFINE f == req[c].file
<1>1. /\ f \in Files /\ c # Nobody /\ ~Present(NoEntry) /\ Seen(c) = frame[c].seen
      /\ locks[f] \in Entry /\ NewEntry(c).dateCreated = frame[c].date
      /\ NewEntry(c).lockId = req[c].new
  BY OwnerFacts DEF TypeOK, Request, Present, NoEntry, Seen, NewEntry
<1>2. ASSUME \/ Refused(c)
             \/ pc'[c] \in {"idle", "refetch", "rename", "delete"}
             \/ pc'[c] = "write" /\ req'[c].new = NoLock
             \/ pc'[c] = "reply" /\ req'[c].op \notin LockingOps
             \/ pc'[c] = "read" /\ frame'[c].call = "TryGetLock"
             \/ At(c, "handle", "none", NoEntry)
      PROVE  OwnerInv(c)'
  BY <1>1, <1>2
  DEF OwnerInv, Refreshing, SawOwnLock, HasGrant, GrantedLock, Refused, At
<1>3. CASE Arrive(c)
  BY <1>2, <1>3, ArriveOutcome
<1>4. CASE Deliver(c)
  BY <1>2, <1>4 DEF Deliver, TypeOK
<1>5. CASE Refetch(c) \/ Evict(c) \/ RemoveLock(c) \/ RenameFile(c) \/ DeleteFile(c)
  <2>1. req' = req
    BY <1>5 DEF Refetch, Evict, RemoveLock, RenameFile, DeleteFile
  <2>2. RemoveLock(c) \/ RenameFile(c) \/ DeleteFile(c) => req[c].op \notin LockingOps
    BY DEF RemoveLock, RenameFile, DeleteFile, ThreadOK, RequestInv, LockingOps
  <2> QED
    BY <1>2, <1>5, <2>1, <2>2, ProviderOutcome, StorageOutcome
<1>6. CASE WriteFile(c)
  <2>1. pc[c] = "write" /\ pc'[c] = "reply" /\ req' = req /\ locks' = locks
    BY <1>6, StorageOutcome DEF WriteFile
  <2> QED
    BY <2>1
    DEF ThreadOK, OwnerInv, Refreshing, SawOwnLock, HasGrant, GrantedLock, Owner
<1>7. CASE TryGetValue(c)
  <2>1. pc[c] = "read" /\ req' = req /\ locks' = locks
    BY <1>7 DEF TryGetValue
  <2>2. CASE Present(locks[f]) /\ At(c, "check", frame[c].call, locks[f])
    BY <1>1, <2>1, <2>2
    DEF ThreadOK, OwnerInv, Refreshing, SawOwnLock, HasGrant, Owner, At
  <2> QED
    BY <1>2, <1>7, <2>2, ProviderOutcome
<1>8. CASE CheckExpired(c)
  <2>1. pc[c] = "check" /\ req' = req /\ locks' = locks
    BY <1>8 DEF CheckExpired
  <2>2. CASE \/ At(c, "evict", frame[c].call, Seen(c))
             \/ At(c, "handle", "none", Seen(c))
             \/ frame[c].call # "TryGetLock" /\ At(c, "stamp", frame[c].call, Seen(c))
    BY <1>1, <2>1, <2>2
    DEF ThreadOK, OwnerInv, Refreshing, SawOwnLock, HasGrant, Owner, At
  <2> QED
    BY <1>2, <1>8, <2>2, ProviderOutcome
<1>9. CASE Stamp(c)
  <2>1. /\ pc[c] = "stamp" /\ req' = req /\ locks' = locks
        /\ At(c, "store", frame[c].call, Seen(c))
    BY <1>9, ProviderOutcome DEF Stamp
  <2> QED
    BY <1>1, <2>1
    DEF ThreadOK, OwnerInv, Refreshing, SawOwnLock, HasGrant, Owner, At
<1>10. CASE TryAdd(c) \/ TryUpdate(c)
  <2>1. pc[c] = "store" /\ req' = req
    BY <1>10 DEF TryAdd, Vacant, TryUpdate, AsSeen
  <2>2. ASSUME pc'[c] \in {"write", "reply"}, locks' = [locks EXCEPT ![f] = NewEntry(c)]
        PROVE  OwnerInv(c)'
    <3>1. locks'[f] = NewEntry(c)
      BY <1>1, <2>2 DEF TypeOK
    <3>2. /\ req[c].new # NoLock /\ SessionOf[req[c].new] = c
          /\ req[c].since <= frame[c].date
      BY <2>1 DEF ThreadOK, RequestInv, IdsOf
    <3> QED
      BY <1>1, <2>1, <2>2, <3>1, <3>2
      DEF OwnerInv, Refreshing, SawOwnLock, HasGrant, Owner, Present
  <2> QED
    BY <1>2, <1>10, <2>2, ProviderOutcome
<1>11. CASE \/ HandleGetLock(c) \/ HandleLockOrPut(c) \/ HandleRelock(c)
            \/ HandleUnlock(c) \/ HandleRefreshLock(c)
            \/ HandleRenameFile(c) \/ HandleDeleteFile(c)
  <2>1. pc[c] = "handle" /\ req' = req /\ locks' = locks /\ HandlerGoesOn(c)
    BY <1>11, HandlerOutcome
    DEF ThreadOK, HandleGetLock, HandleLockOrPut, HandleRelock, HandleUnlock,
        HandleRefreshLock, HandleRenameFile, HandleDeleteFile, Handling
  <2>2. CASE OwnSeen(c) /\ (pc'[c] = "remove" \/ At(c, "read", "RefreshLock", Seen(c)))
    BY <1>1, <2>1, <2>2
    DEF ThreadOK, OwnerInv, Refreshing, SawOwnLock, HasGrant, Owner, At, OwnSeen
  <2>3. CASE ~Present(Seen(c)) /\ At(c, "stamp", "AddLock", Seen(c))
    BY <1>1, <2>1, <2>3
    DEF OwnerInv, Refreshing, SawOwnLock, HasGrant, At
  <2> QED
    BY <1>2, <2>1, <2>2, <2>3 DEF HandlerGoesOn, LockingOps
<1> QED
  BY <1>3, <1>4, <1>5, <1>6, <1>7, <1>8, <1>9, <1>10, <1>11 DEF Step

LEMMA OwnEvict ==
    ASSUME TypeOK, NEW c \in Clients, ThreadOK(c), Step(c)
    PROVE  EvictInv(c)'
<1>1. CASE pc'[c] \notin {"check", "evict"}
  BY <1>1 DEF EvictInv
<1>2. CASE TryGetValue(c)
  BY <1>1, <1>2, ProviderOutcome DEF TryGetValue, EvictInv, At, Refused
<1>3. CASE CheckExpired(c)
  BY <1>1, <1>3, ProviderOutcome
  DEF CheckExpired, ThreadOK, EvictInv, At, Refused, Seen, Expired
<1>4. CASE ~TryGetValue(c) /\ ~CheckExpired(c)
  <2>1. CASE Arrive(c)
    BY <1>1, <2>1, ArriveOutcome DEF Refused
  <2>2. CASE Deliver(c)
    BY <1>1, <2>2 DEF Deliver, TypeOK
  <2>3. CASE WriteFile(c) \/ RenameFile(c) \/ DeleteFile(c)
    BY <1>1, <2>3, StorageOutcome
  <2>4. CASE \/ Refetch(c) \/ Evict(c) \/ Stamp(c) \/ TryAdd(c) \/ TryUpdate(c)
             \/ RemoveLock(c)
    BY <1>1, <2>4, ProviderOutcome DEF Refused, At
  <2> QED
    BY <1>1, <1>4, <2>1, <2>2, <2>3, <2>4, HandlerOutcome
    DEF Step, ThreadOK, HandlerGoesOn, Refused, At
<1> QED
  BY <1>2, <1>3, <1>4

LEMMA OwnLease ==
    ASSUME TypeOK, Guarded, NEW c \in Clients, ThreadOK(c), Step(c)
    PROVE  LeaseInv(c)'
<1>1. /\ req[c].file \in Files /\ c # Nobody /\ now' = now
      /\ now \in Int /\ Lifetime \in Int /\ 0 <= now /\ req[c].since \in Int
      /\ \A f \in Files : /\ lease[c][f] \in Int /\ locks[f].dateCreated \in Int
                          /\ locks[f] \in Entry
  BY StepKeepsTime, OwnerFacts, MemoryLocksAssumption
  DEF TypeOK, Request, Time, NotHeld, Entry
<1>2. CASE Arrive(c)
  <2>1. /\ pc[c] = "idle" /\ locks' = locks /\ req'[c].since = now
        /\ req'[c].op = "Unlock" => lease'[c] = [lease[c] EXCEPT ![req'[c].file] = NotHeld]
        /\ req'[c].op # "Unlock" => lease'[c] = lease[c]
        /\ req'[c].file \in Files
    BY <1>2, ArriveOutcome, ArriveType DEF TypeOK, Request
  <2>2. ASSUME NEW f \in Files
        PROVE  /\ lease'[c][f] = NotHeld \/ lease'[c][f] = lease[c][f]
               /\ req'[c].op = "Unlock" => lease'[c][req'[c].file] = NotHeld
    BY <2>1 DEF TypeOK
  <2> QED
    BY <1>1, <2>1, <2>2 DEF ThreadOK, LeaseInv, Relies, Owner, NotHeld, InFlight
<1>3. CASE Deliver(c)
  <2>1. /\ pc[c] = "reply" /\ pc'[c] = "idle" /\ locks' = locks
        /\ lease'[c] = IF GrantedLock(c)
                       THEN [lease[c] EXCEPT ![req[c].file] = req[c].since] ELSE lease[c]
    BY <1>3 DEF Deliver, TypeOK
  <2>2. GrantedLock(c) => /\ Owner(req[c].file) = c
                          /\ req[c].since <= locks[req[c].file].dateCreated
    BY <2>1 DEF ThreadOK, OwnerInv, HasGrant
  <2>3. req[c].since <= now
    BY DEF ThreadOK, RequestInv
  <2>4. ASSUME NEW f \in Files
        PROVE  \/ lease'[c][f] = lease[c][f]
               \/ GrantedLock(c) /\ f = req[c].file /\ lease'[c][f] = req[c].since
    BY <2>1 DEF TypeOK
  <2> QED
    BY <1>1, <2>1, <2>2, <2>3, <2>4 DEF ThreadOK, LeaseInv, Relies, Owner, InFlight
<1>4. CASE ~Arrive(c) /\ ~Deliver(c)
  <2>1. req' = req /\ lease' = lease /\ InFlight(c)
    BY <1>4, RequestKept
    DEF InFlight, Step, Refetch, TryGetValue, CheckExpired, Evict, Stamp, TryAdd, Vacant, TryUpdate, AsSeen,
        RemoveLock, HandleGetLock, HandleLockOrPut, HandleRelock, HandleUnlock,
        HandleRefreshLock, HandleRenameFile, HandleDeleteFile, Handling, WriteFile,
        RenameFile, DeleteFile
  <2>2. ASSUME NEW f \in Files, Relies(c, f), locks'[f] # locks[f]
        PROVE  /\ f = req[c].file /\ pc[c] = "store"
               /\ locks'[f] = NewEntry(c)
    <3>1. f = req[c].file
      BY <1>1, <2>2, LocksMove DEF TypeOK
    <3>2. Owner(f) = c /\ lease[c][f] <= locks[f].dateCreated /\ lease[c][f] # NotHeld
      BY <2>2 DEF ThreadOK, LeaseInv, Relies
    <3>3. pc[c] # "remove"
      BY <2>1, <3>1, <3>2 DEF ThreadOK, RequestInv, LeaseInv
    <3>4. pc[c] # "evict"
      <4>1. SUFFICES ASSUME pc[c] = "evict" PROVE FALSE
        OBVIOUS
      <4>2. CASE Isolated
        BY <1>1, <2>2, <3>1, <3>2, <4>1, <4>2 DEF ThreadOK, EvictInv, Expired, Relies
      <4>3. CASE ~Isolated
        <5>1. /\ frame[c].seen.dateCreated \in Nat /\ now <= MaxTime /\ MaxTime <= Lifetime
              /\ MaxTime \in Int
          BY <4>3, MemoryLocksAssumption DEF TypeOK, Frame, Entry, Time, Guarded
        <5> QED
          BY <1>1, <4>1, <5>1 DEF ThreadOK, EvictInv, Expired
      <4> QED
        BY <4>2, <4>3
    <3> QED
      BY <1>1, <2>2, <3>1, <3>3, <3>4, LocksMove DEF TypeOK
  <2>3. ASSUME NEW f \in Files, Relies(c, f)
        PROVE  Owner(f)' = c /\ lease[c][f] <= locks'[f].dateCreated
    <3>1. CASE locks'[f] = locks[f]
      BY <2>3, <3>1 DEF ThreadOK, LeaseInv, Owner
    <3>2. CASE locks'[f] # locks[f]
      <4>1. /\ pc[c] = "store" /\ locks'[f].dateCreated = frame[c].date
            /\ locks'[f].lockId = req[c].new
        BY <2>2, <2>3, <3>2 DEF NewEntry
      <4>2. /\ req[c].new # NoLock /\ SessionOf[req[c].new] = c
            /\ req[c].since <= frame[c].date /\ lease[c][f] <= req[c].since
            /\ frame[c].date \in Int
        BY <2>1, <4>1 DEF ThreadOK, RequestInv, LeaseInv, IdsOf, TypeOK, Frame, Time
      <4> QED
        BY <1>1, <4>1, <4>2 DEF Owner, Present
    <3> QED
      BY <3>1, <3>2
  <2> QED
    BY <1>1, <2>1, <2>3 DEF ThreadOK, LeaseInv, Relies
<1> QED
  BY <1>2, <1>3, <1>4

LEMMA OwnIsolated ==
    ASSUME TypeOK, NEW c \in Clients, ThreadOK(c), Step(c)
    PROVE  IsolatedInv(c)'
BY OthersElsewhere, StepKeeps DEF ThreadOK, IsolatedInv, InFlight, OthersKept

-----------------------------------------------------------------------------
(* The invariant, and what follows from it.                                *)

LEMMA NextLockInv ==
    ASSUME TypeOK, Guarded, LockInv, [Next]_vars
    PROVE  LockInv'
<1>1. CASE UNCHANGED vars
  BY <1>1
  DEF vars, LockInv, RequestInv, Refreshing, OwnerInv, SawOwnLock, HasGrant, GrantedLock,
      Owner, EvictInv, Expired, LeaseInv, Relies, IsolatedInv, InFlight
<1>2. CASE Tick
  <2>1. /\ now \in Int /\ now' = now + 1 /\ Lifetime \in Int
        /\ \A c \in Clients : /\ req[c].since \in Int /\ frame[c].seen.dateCreated \in Int
                              /\ \A f \in Files : lease[c][f] \in Int
    BY <1>2, MemoryLocksAssumption DEF Tick, TypeOK, Time, Request, Frame, Entry, NotHeld
  <2>2. UNCHANGED <<locks, pc, req, frame, answer, lease>>
    BY <1>2 DEF Tick
  <2> SUFFICES ASSUME NEW c \in Clients PROVE ThreadOK(c)'
    BY DEF LockInv, ThreadOK
  <2>3. RequestInv(c)' /\ EvictInv(c)'
    BY <2>1, <2>2 DEF LockInv, RequestInv, Refreshing, EvictInv, Expired
  <2>4. OwnerInv(c)' /\ IsolatedInv(c)'
    BY <2>2
    DEF LockInv, OwnerInv, Refreshing, SawOwnLock, HasGrant, GrantedLock, Owner, IsolatedInv,
        InFlight
  <2>5. LeaseInv(c)'
    BY <2>1, <2>2 DEF LockInv, LeaseInv, Relies, Owner, InFlight
  <2> QED
    BY <2>3, <2>4, <2>5 DEF ThreadOK
<1>3. ASSUME NEW c \in Clients, Step(c) PROVE LockInv'
  <2>1. \A d \in Clients : ThreadOK(d)
    BY DEF LockInv, ThreadOK
  <2>2. ThreadOK(c)'
    BY <1>3, <2>1, StepRequest, OwnOwner, OwnEvict, OwnLease, OwnIsolated DEF ThreadOK
  <2>3. \A d \in Clients \ {c} : ThreadOK(d)'
    BY <1>3, <2>1, OtherThread
  <2> QED
    BY <2>2, <2>3 DEF LockInv, ThreadOK
<1> QED
  BY <1>1, <1>2, <1>3 DEF Next

LEMMA InitLockInv ==
    ASSUME Init
    PROVE  LockInv
<1> SUFFICES ASSUME NEW c \in Clients PROVE ThreadOK(c)
  BY DEF LockInv, ThreadOK
<1>1. /\ req[c] = NoRequest /\ pc[c] = "idle" /\ now = 0
      /\ \A f \in Files : lease[c][f] = NotHeld
  BY DEF Init
<1>2. RequestInv(c)
  BY <1>1 DEF RequestInv, Refreshing, NoRequest
<1> QED
  BY <1>1, <1>2
  DEF ThreadOK, OwnerInv, Refreshing, SawOwnLock, HasGrant, EvictInv, LeaseInv, Relies,
      NotHeld, IsolatedInv, InFlight

\* The inductive invariant holds wherever eviction cannot hit a live lock.
THEOREM LockInvariant ==
    ASSUME Guarded
    PROVE  Spec => []LockInv
<1>1. TypeOK /\ LockInv /\ [Next]_vars => LockInv'
  BY NextLockInv
<1> QED
  BY <1>1, InitLockInv, TypeCorrect, PTL DEF Spec

\* ProcessLock and MemoryLockProvider: two sessions never both hold an answer
\* that says they have the same file locked.
THEOREM OneHolder ==
    ASSUME Guarded
    PROVE  Spec => []MutualExclusion
<1>1. LockInv => MutualExclusion
  BY DEF LockInv, LeaseInv, MutualExclusion
<1> QED
  BY <1>1, LockInvariant, PTL

\* PutFile: the lock it was granted is still its session's when it writes.
THEOREM PutHoldsItsLock ==
    ASSUME Guarded
    PROVE  Spec => []LockedPutHoldsLock
<1>1. LockInv => LockedPutHoldsLock
  BY DEF LockInv, OwnerInv, HasGrant, LockedPutHoldsLock
<1> QED
  BY <1>1, LockInvariant, PTL

-----------------------------------------------------------------------------
(* The lock host implements ExclusiveLease.                                *)

OwnerMap == [f \in Files |-> Owner(f)]
ReliesMap == [c \in Clients |-> {f \in Files : Relies(c, f)}]

LEMMA MapFacts ==
    /\ DOMAIN OwnerMap = Files /\ DOMAIN ReliesMap = Clients
    /\ \A f \in Files : OwnerMap[f] = Owner(f) /\ OwnerMap'[f] = Owner(f)'
    /\ \A c \in Clients : /\ ReliesMap[c] = {f \in Files : Relies(c, f)}
                          /\ ReliesMap'[c] = {f \in Files : Relies(c, f)'}
BY DEF OwnerMap, ReliesMap

\* A change of the dictionary acquires a free file, drops an owner that no
\* longer relies on the lock, or keeps the owner.
LEMMA LocksRefine ==
    ASSUME TypeOK, Guarded, LockInv, NEW c \in Clients, Step(c), locks' # locks
    PROVE  [Lease!Next]_(Lease!vars)
<1>0. PICK f \in Files : f = req[c].file
  BY DEF TypeOK, Request
<1>1. f \in Files /\ f = req[c].file /\ ThreadOK(c) /\ c # Nobody
  BY <1>0, OwnerFacts DEF LockInv, ThreadOK
<1>2. ~Arrive(c) /\ ~Deliver(c)
  BY DEF Arrive, Deliver
<1>3. ReliesMap' = ReliesMap
  BY <1>2, RequestKept DEF ReliesMap, Relies
<1>4. \A g \in Files \ {f} : Owner(g)' = Owner(g)
  BY <1>1, LocksMove DEF TypeOK, Owner
<1>5. ASSUME Owner(f)' = Owner(f)
      PROVE  [Lease!Next]_(Lease!vars)
  <2>1. OwnerMap' = OwnerMap
    BY <1>4, <1>5 DEF OwnerMap
  <2> QED
    BY <1>3, <2>1 DEF Lease!vars, OwnerMap, ReliesMap
<1>6. ASSUME pc[c] \in {"evict", "remove"}, locks' = [locks EXCEPT ![f] = NoEntry],
             Owner(f) # Nobody
      PROVE  [Lease!Next]_(Lease!vars)
  <2>1. Owner(f)' = Nobody
    BY <1>1, <1>6 DEF TypeOK, Owner, Present, NoEntry
  <2>2. OwnerMap' = [OwnerMap EXCEPT ![f] = Nobody]
    BY <1>1, <1>4, <2>1 DEF OwnerMap
  <2>3. Owner(f) \in Clients
    BY <1>1, <1>6, LockIdsAssumption DEF Owner, TypeOK, Entry, Present
  <2>4. ~Relies(Owner(f), f)
    <3>1. SUFFICES ASSUME Relies(Owner(f), f) PROVE FALSE
      OBVIOUS
    <3>2. /\ lease[Owner(f)][f] <= locks[f].dateCreated /\ lease[Owner(f)][f] # NotHeld
          /\ ThreadOK(Owner(f))
      BY <1>1, <2>3, <3>1 DEF LockInv, LeaseInv, Relies, ThreadOK
    <3>3. /\ lease[Owner(f)][f] \in Int /\ locks[f].dateCreated \in Int
          /\ now \in Int /\ Lifetime \in Int
      BY <1>1, <2>3, MemoryLocksAssumption DEF TypeOK, Time, NotHeld, Entry
    <3>4. CASE pc[c] = "remove"
      BY <1>1, <3>2, <3>4
      DEF ThreadOK, OwnerInv, RequestInv, LeaseInv, InFlight
    <3>5. CASE pc[c] = "evict" /\ Isolated
      BY <1>1, <3>1, <3>2, <3>3, <3>5 DEF ThreadOK, EvictInv, Expired, Relies
    <3>6. CASE pc[c] = "evict" /\ ~Isolated
      <4>1. /\ frame[c].seen.dateCreated \in Nat /\ now <= MaxTime /\ MaxTime <= Lifetime
            /\ MaxTime \in Int
        BY <3>6, MemoryLocksAssumption DEF TypeOK, Frame, Entry, Time, Guarded
      <4> QED
        BY <1>1, <3>3, <3>6, <4>1 DEF ThreadOK, EvictInv, Expired
    <3> QED
      BY <1>6, <3>4, <3>5, <3>6
  <2>5. OwnerMap[f] # Nobody /\ f \notin ReliesMap[OwnerMap[f]]
    BY <1>1, <1>6, <2>3, <2>4, MapFacts
  <2>6. Lease!Drop(f)
    BY <1>3, <2>2, <2>5 DEF Lease!Drop, OwnerMap, ReliesMap
  <2> QED
    BY <1>1, <2>6 DEF Lease!Next
<1>7. ASSUME pc[c] = "store", locks' = [locks EXCEPT ![f] = NewEntry(c)]
      PROVE  Owner(f)' = c
  <2>1. req[c].new # NoLock /\ SessionOf[req[c].new] = c
    BY <1>1, <1>7 DEF ThreadOK, RequestInv, IdsOf
  <2> QED
    BY <1>1, <1>7, <2>1 DEF TypeOK, Owner, Present, NewEntry
<1>8. ASSUME pc[c] = "store", ~Present(locks[f]), locks' = [locks EXCEPT ![f] = NewEntry(c)]
      PROVE  [Lease!Next]_(Lease!vars)
  <2>1. OwnerMap[f] = Nobody
    BY <1>1, <1>8, MapFacts DEF Owner
  <2>2. OwnerMap' = [OwnerMap EXCEPT ![f] = c]
    BY <1>1, <1>4, <1>7, <1>8 DEF OwnerMap
  <2>3. Lease!Acquire(c, f)
    BY <1>3, <2>1, <2>2 DEF Lease!Acquire, OwnerMap, ReliesMap
  <2> QED
    BY <1>1, <2>3 DEF Lease!Next
<1>9. ASSUME pc[c] = "store", frame[c].call = "RefreshLock",
             locks' = [locks EXCEPT ![f] = NewEntry(c)]
      PROVE  Owner(f)' = Owner(f)
  BY <1>1, <1>7, <1>9 DEF ThreadOK, OwnerInv, Refreshing
<1>10. ASSUME locks' = [locks EXCEPT ![f] = NoEntry], Owner(f) = Nobody
       PROVE  Owner(f)' = Owner(f)
  BY <1>1, <1>10 DEF TypeOK, Owner, Present, NoEntry
<1> QED
  BY <1>1, <1>5, <1>6, <1>8, <1>9, <1>10, LocksMove

\* A thread's other steps change no owner; only the answer that grants a lock
\* makes its client rely on more.
LEMMA ThreadRefines ==
    ASSUME TypeOK, LockInv, NEW c \in Clients, Step(c), locks' = locks
    PROVE  [Lease!Next]_(Lease!vars)
<1>1. OwnerMap' = OwnerMap
  BY DEF OwnerMap, Owner
<1>2. now' = now /\ \A d \in Clients \ {c} : lease'[d] = lease[d]
  BY StepKeeps, StepKeepsTime DEF OthersKept
<1>3. \A d \in Clients \ {c} : ReliesMap'[d] = ReliesMap[d]
  <2>1. \A d \in Clients \ {c} : \A f \in Files : Relies(d, f)' <=> Relies(d, f)
    BY <1>2 DEF Relies
  <2> QED
    BY <2>1 DEF ReliesMap
<1>4. ASSUME lease'[c] = lease[c]
      PROVE  [Lease!Next]_(Lease!vars)
  <2>1. ReliesMap' = ReliesMap
    BY <1>2, <1>4 DEF ReliesMap, Relies
  <2> QED
    BY <1>1, <2>1 DEF Lease!vars, OwnerMap, ReliesMap
<1>5. CASE Arrive(c)
  <2>1. PICK f \in Files : f = req'[c].file
    BY <1>5, ArriveType DEF TypeOK, Request
  <2>2. CASE lease'[c] = [lease[c] EXCEPT ![f] = NotHeld]
    <3>1. \A g \in Files : lease'[c][g] = lease[c][g] \/ lease'[c][g] = NotHeld
      BY <2>2 DEF TypeOK
    <3>2. ReliesMap'[c] \subseteq ReliesMap[c]
      BY <1>2, <3>1, MapFacts DEF Relies
    <3>3. /\ \A d \in Clients : ReliesMap'[d] \subseteq ReliesMap[d]
          /\ ReliesMap' \in [Clients -> SUBSET Files]
      BY <1>3, <3>2 DEF ReliesMap
    <3>4. Lease!Forget
      BY <1>1, <3>3 DEF Lease!Forget, OwnerMap, ReliesMap
    <3> QED
      BY <3>4 DEF Lease!Next
  <2> QED
    BY <1>4, <1>5, <2>1, <2>2, ArriveOutcome
<1>6. CASE Deliver(c)
  <2>1. PICK f \in Files : f = req[c].file
    BY DEF TypeOK, Request
  <2>2. /\ pc[c] = "reply"
        /\ lease'[c] = IF GrantedLock(c)
                       THEN [lease[c] EXCEPT ![f] = req[c].since] ELSE lease[c]
    BY <1>6, <2>1 DEF Deliver, TypeOK
  <2>3. CASE GrantedLock(c)
    <3>1. Owner(f) = c /\ lease[c][f] <= req[c].since
      BY <2>1, <2>2, <2>3 DEF LockInv, OwnerInv, HasGrant, LeaseInv, InFlight
    <3>2. /\ lease'[c][f] = req[c].since
          /\ \A g \in Files \ {f} : lease'[c][g] = lease[c][g]
      BY <2>2, <2>3 DEF TypeOK
    <3>3. /\ lease[c][f] \in Int /\ req[c].since \in Nat /\ now \in Int /\ Lifetime \in Int
      BY MemoryLocksAssumption DEF TypeOK, Time, NotHeld, Request
    <3>4. CASE now <= req[c].since + Lifetime
      <4>1. ReliesMap'[c] = ReliesMap[c] \cup {f}
        BY <1>2, <3>2, <3>3, <3>4, MapFacts DEF Relies, NotHeld
      <4>2. ReliesMap' = [ReliesMap EXCEPT ![c] = @ \cup {f}]
        BY <1>3, <4>1 DEF ReliesMap
      <4>3. OwnerMap[f] = c
        BY <3>1, MapFacts
      <4>4. Lease!Learn(c, f)
        BY <1>1, <4>2, <4>3 DEF Lease!Learn, OwnerMap, ReliesMap
      <4> QED
        BY <4>4 DEF Lease!Next
    <3>5. CASE ~(now <= req[c].since + Lifetime)
      <4>1. \A g \in Files : Relies(c, g)' <=> Relies(c, g)
        BY <1>2, <3>1, <3>2, <3>3, <3>5 DEF Relies
      <4>2. ReliesMap'[c] = ReliesMap[c]
        BY <4>1, MapFacts, ZenonT(30)
      <4>3. ReliesMap' = ReliesMap
        BY <1>3, <4>2 DEF ReliesMap
      <4> QED
        BY <1>1, <4>3 DEF Lease!vars, OwnerMap, ReliesMap
    <3> QED
      BY <3>4, <3>5
  <2> QED
    BY <1>4, <2>2, <2>3
<1> QED
  BY <1>4, <1>5, <1>6, RequestKept

LEMMA NextRefines ==
    ASSUME TypeOK, Guarded, LockInv, [Next]_vars
    PROVE  [Lease!Next]_(Lease!vars)
<1>1. CASE UNCHANGED vars
  <2>1. OwnerMap' = OwnerMap /\ ReliesMap' = ReliesMap
    BY <1>1 DEF vars, OwnerMap, Owner, ReliesMap, Relies
  <2> QED
    BY <2>1 DEF Lease!vars, OwnerMap, ReliesMap
<1>2. CASE Tick
  <2>1. /\ now \in Int /\ now' = now + 1 /\ Lifetime \in Int
        /\ \A c \in Clients : \A f \in Files : lease[c][f] \in Int
        /\ UNCHANGED <<locks, lease>>
    BY <1>2, MemoryLocksAssumption DEF Tick, TypeOK, Time, NotHeld
  <2>2. OwnerMap' = OwnerMap
    BY <2>1 DEF OwnerMap, Owner
  <2>3. \A c \in Clients : \A f \in Files : Relies(c, f)' => Relies(c, f)
    BY <2>1 DEF Relies
  <2>4. /\ \A c \in Clients : ReliesMap'[c] \subseteq ReliesMap[c]
        /\ ReliesMap' \in [Clients -> SUBSET Files]
    BY <2>3, MapFacts DEF ReliesMap
  <2>5. Lease!Forget
    BY <2>2, <2>4 DEF Lease!Forget, OwnerMap, ReliesMap
  <2> QED
    BY <2>5 DEF Lease!Next
<1> QED
  BY <1>1, <1>2, LocksRefine, ThreadRefines DEF Next

\* The controller's handlers and the lock provider together implement the
\* exclusive lease: a lock reaches another session only through being free, and
\* is dropped only when its client no longer relies on it.
THEOREM LeaseImplemented ==
    ASSUME Guarded
    PROVE  Spec => ImplementsLease
<1>1. Init => Lease!Init
  BY DEF Init, Lease!Init, Owner, Present, NoEntry, Relies
<1>2. TypeOK /\ LockInv /\ [Next]_vars => [Lease!Next]_(Lease!vars)
  BY NextRefines
<1> QED
  BY <1>1, <1>2, TypeCorrect, LockInvariant, PTL DEF Spec, ImplementsLease, Lease!Spec

-----------------------------------------------------------------------------
(* Files under a lock, when requests for one file do not overlap.          *)

\* A thread that has read the lock, or found none to read.
LEMMA LookedUp ==
    ASSUME TypeOK, NEW c \in Clients, ThreadOK(c), Isolated,
           TryGetValue(c) \/ CheckExpired(c) \/ Evict(c)
    PROVE  StorageInv(c)'
<1>1. /\ req' = req /\ req[c].file \in Files /\ ~Present(NoEntry)
      /\ pc'[c] \notin {"rename", "delete", "write"}
  <2>1. Expired(Seen(c)) \/ ~Expired(Seen(c))
    OBVIOUS
  <2>2. pc'[c] \in {"check", "handle", "evict", "stamp", "reply"}
    BY ProviderOutcome DEF Refused, At
  <2> QED
    BY <2>2
    DEF TryGetValue, CheckExpired, Evict, TypeOK, Request, Present, NoEntry
<1>2. pc'[c] = "handle" /\ Present(locks'[req[c].file])
        => locks'[req[c].file] = frame'[c].seen
  <2>1. CASE TryGetValue(c)
    <3>1. locks' = locks
      BY <2>1 DEF TryGetValue
    <3>2. Present(locks[req[c].file]) => pc'[c] = "check"
      <4>1. SUFFICES ASSUME Present(locks[req[c].file]) PROVE pc'[c] = "check"
        OBVIOUS
      <4>2. Enter(c, "check", [frame[c] EXCEPT !.seen = locks[req[c].file]])
        BY <2>1, <4>1 DEF TryGetValue
      <4> QED
        BY <4>2 DEF Enter, TypeOK
    <3> QED
      BY <3>1, <3>2
  <2>2. CASE CheckExpired(c)
    <3>1. locks' = locks /\ pc[c] = "check"
      BY <2>2 DEF CheckExpired
    <3>2. pc'[c] = "handle" => frame'[c].seen = Seen(c)
      BY <2>2, ProviderOutcome DEF At, Refused
    <3>3. locks[req[c].file] = frame[c].seen
      BY <3>1 DEF ThreadOK, EvictInv
    <3> QED
      BY <3>1, <3>2, <3>3 DEF Seen
  <2>3. CASE Evict(c)
    <3>1. locks'[req[c].file] = NoEntry
      BY <1>1, <2>3 DEF Evict, TypeOK
    <3> QED
      BY <1>1, <3>1
  <2> QED
    BY <2>1, <2>2, <2>3
<1> QED
  BY <1>1, <1>2 DEF StorageInv

\* A handler goes on to rename or delete the file only if the lock it has read,
\* which is still the file's, leaves it to its session.
LEMMA HandlerStores ==
    ASSUME TypeOK, NEW c \in Clients, ThreadOK(c), StorageInv(c),
           \/ HandleGetLock(c) \/ HandleLockOrPut(c) \/ HandleRelock(c)
           \/ HandleUnlock(c) \/ HandleRefreshLock(c)
           \/ HandleRenameFile(c) \/ HandleDeleteFile(c)
    PROVE  StorageInv(c)'
<1> DEFINE f == req[c].file
<1>1. /\ pc[c] = "handle" /\ req' = req /\ locks' = locks /\ HandlerGoesOn(c)
      /\ req[c].new \in IdsOf(c) \cup {NoLock}
  BY HandlerOutcome
  DEF ThreadOK, RequestInv, HandleGetLock, HandleLockOrPut, HandleRelock, HandleUnlock,
      HandleRefreshLock, HandleRenameFile, HandleDeleteFile, Handling
<1>2. Present(locks[f]) => Seen(c) = locks[f]
  BY <1>1 DEF StorageInv, Seen
<1>3. pc'[c] \notin {"handle", "write"}
  BY <1>1 DEF HandlerGoesOn, Refused, At
<1>4. ThreadType
  BY DEF TypeOK, ThreadType
<1>5. ASSUME pc'[c] = "rename"
      PROVE  Owner(f) \in {c, Nobody}
  <2>1. HandleRenameFile(c)
    BY <1>1, <1>5
    DEF HandlerGoesOn, Refused, At, HandleGetLock, HandleLockOrPut, HandleRelock, HandleUnlock,
        HandleRefreshLock, HandleRenameFile, HandleDeleteFile, Handling
  <2>2. ~Present(Seen(c)) \/ Seen(c).lockId = req[c].new
    BY <1>4, <1>5, <2>1, CallOutcome DEF HandleRenameFile, Refused
  <2> QED
    BY <1>1, <1>2, <2>2 DEF Owner, IdsOf, Present
<1>6. ASSUME pc'[c] = "delete"
      PROVE  Owner(f) = Nobody
  <2>1. HandleDeleteFile(c)
    BY <1>1, <1>6
    DEF HandlerGoesOn, Refused, At, HandleGetLock, HandleLockOrPut, HandleRelock, HandleUnlock,
        HandleRefreshLock, HandleRenameFile, HandleDeleteFile, Handling
  <2>2. ~Present(Seen(c))
    BY <1>4, <1>6, <2>1, CallOutcome DEF HandleDeleteFile, Refused
  <2> QED
    BY <1>2, <2>2 DEF Owner
<1> QED
  BY <1>1, <1>3, <1>5, <1>6 DEF StorageInv, Owner

\* PutFile without a lock finds the file empty as it arrives.
LEMMA ArrivesAtEmpty ==
    ASSUME TypeOK, NEW c \in Clients, Arrive(c)
    PROVE  StorageInv(c)'
<1>1. PICK op \in Ops, f \in Files : \E h \in Headers(c, op) :
         /\ req' = [req EXCEPT ![c] = [op |-> op, file |-> f, old |-> h[1],
                                       new |-> h[2], since |-> now]]
         /\ Fetch(c, op, f, h[2])
  BY DEF Arrive
<1>2. PICK h \in Headers(c, op) :
         /\ req' = [req EXCEPT ![c] = [op |-> op, file |-> f, old |-> h[1],
                                       new |-> h[2], since |-> now]]
         /\ Fetch(c, op, f, h[2])
  BY <1>1
<1>3. req'[c].file = f /\ content' = content
  BY <1>2 DEF Arrive, TypeOK, storage
<1>4. pc'[c] \in {"reply", "read", "refetch", "write"}
  BY ArriveOutcome DEF Refused
<1>5. ThreadType
  BY DEF TypeOK, ThreadType
<1>6. ASSUME pc'[c] = "write"
      PROVE  content[f] = "empty"
  <2>1. CASE content[f] = "gone"
    BY <1>2, <1>5, <1>6, <2>1, MoveOutcome DEF Fetch
  <2>2. CASE content[f] # "gone" /\ op # "PutFile"
    BY <1>2, <1>5, <1>6, <2>2, MoveOutcome DEF Fetch, At
  <2>3. CASE content[f] # "gone" /\ op = "PutFile" /\ h[2] # NoLock
    BY <1>2, <1>5, <1>6, <2>3, MoveOutcome DEF Fetch
  <2>4. CASE content[f] \notin {"gone", "empty"} /\ op = "PutFile" /\ h[2] = NoLock
    BY <1>2, <1>5, <1>6, <2>4, MoveOutcome DEF Fetch
  <2> QED
    BY <2>1, <2>2, <2>3, <2>4
<1> QED
  BY <1>3, <1>4, <1>6 DEF StorageInv

\* What a step of d does to the files, and what that takes.
LEMMA StorageMove ==
    ASSUME TypeOK, NEW d \in Clients, Step(d), NEW f \in Files
    PROVE  \/ names'[f] = names[f] /\ content'[f] = content[f]
           \/ f = req[d].file /\ pc[d] \in {"rename", "delete"}
           \/ /\ f = req[d].file /\ pc[d] = "write" /\ names' = names
              /\ content'[f] = "gone" => content[f] = "gone"
<1>1. CASE WriteFile(d)
  <2>1. d # "gone"
    BY MemoryLocksAssumption
  <2> QED
    BY <1>1, <2>1 DEF WriteFile, TypeOK
<1>2. CASE RenameFile(d)
  BY <1>2 DEF RenameFile, TypeOK
<1>3. CASE DeleteFile(d)
  BY <1>3 DEF DeleteFile, TypeOK
<1>4. CASE ~WriteFile(d) /\ ~RenameFile(d) /\ ~DeleteFile(d)
  <2>1. UNCHANGED storage
    BY <1>4
    DEF Step, Arrive, Refetch, TryGetValue, CheckExpired, Evict, Stamp, TryAdd, TryUpdate,
        RemoveLock, HandleGetLock, HandleLockOrPut, HandleRelock, HandleUnlock,
        HandleRefreshLock, HandleRenameFile, HandleDeleteFile, Handling, Deliver
  <2> QED
    BY <2>1 DEF storage
<1> QED
  BY <1>1, <1>2, <1>3, <1>4

LEMMA NextStorage ==
    ASSUME TypeOK, Isolated, LockInv, FilesInv, [Next]_vars
    PROVE  FilesInv'
<1>1. CASE UNCHANGED vars \/ Tick
  BY <1>1 DEF vars, storage, Tick, FilesInv, StorageInv, Owner
<1>2. ASSUME NEW c \in Clients, Step(c) PROVE FilesInv'
  <2>1. ThreadOK(c) /\ StorageInv(c)
    BY DEF LockInv, ThreadOK, FilesInv
  <2>2. ASSUME NEW d \in Clients \ {c} PROVE StorageInv(d)'
    <3>1. /\ pc'[d] = pc[d] /\ req'[d] = req[d] /\ frame'[d] = frame[d]
          /\ req[d].file \in Files /\ StorageInv(d)
      BY <1>2, StepKeeps DEF OthersKept, TypeOK, Request, FilesInv
    <3>2. CASE pc[d] = "idle"
      BY <3>1, <3>2 DEF StorageInv
    <3>3. CASE pc[d] # "idle"
      <4>1. locks'[req[d].file] = locks[req[d].file]
        BY <1>2, <2>1, <3>3, OthersEntries DEF ThreadOK
      <4>2. content'[req[d].file] = content[req[d].file]
        BY <1>2, <2>1, <3>1, <3>3, OthersElsewhere, StorageMove DEF ThreadOK
      <4> QED
        BY <3>1, <4>1, <4>2 DEF StorageInv, Owner
    <3> QED
      BY <3>2, <3>3
  <2>3. ASSUME pc'[c] \notin {"handle", "rename", "delete", "write"} PROVE StorageInv(c)'
    BY <2>3 DEF StorageInv
  <2>4. ASSUME Refetch(c) \/ Stamp(c) \/ RemoveLock(c) PROVE StorageInv(c)'
    BY <2>3, <2>4, ProviderOutcome DEF Refused, At
  <2>5. ASSUME TryAdd(c) \/ TryUpdate(c) PROVE StorageInv(c)'
    <3>1. req' = req /\ req[c].new # NoLock
      BY <2>1, <2>5 DEF TryAdd, Vacant, TryUpdate, AsSeen, ThreadOK, RequestInv
    <3>2. pc'[c] \in {"reply", "write"}
      BY <2>5, ProviderOutcome DEF Refused
    <3> QED
      BY <3>1, <3>2 DEF StorageInv
  <2>6. ASSUME WriteFile(c) \/ RenameFile(c) \/ DeleteFile(c) PROVE StorageInv(c)'
    BY <2>3, <2>6, StorageOutcome
  <2>7. ASSUME Deliver(c) PROVE StorageInv(c)'
    BY <2>3, <2>7 DEF Deliver, TypeOK
  <2>8. StorageInv(c)'
    BY <1>2, <2>1, <2>4, <2>5, <2>6, <2>7, LookedUp, HandlerStores, ArrivesAtEmpty DEF Step
  <2> QED
    BY <2>2, <2>8 DEF FilesInv
<1> QED
  BY <1>1, <1>2 DEF Next

\* If Isolated, RenameFile, DeleteFile and a PutFile without a lock act
\* on a file that is still as they found it: theirs, unlocked or empty.
THEOREM FilesInvariant ==
    ASSUME Isolated
    PROVE  Spec => []FilesInv
<1>1. Guarded
  BY DEF Guarded
<1>2. Init => FilesInv
  BY DEF Init, FilesInv, StorageInv
<1>3. TypeOK /\ LockInv /\ FilesInv /\ [Next]_vars => FilesInv'
  BY NextStorage
<1> QED
  BY <1>1, <1>2, <1>3, TypeCorrect, LockInvariant, PTL DEF Spec

\* If requests for one file do not overlap, RenameFile and DeleteFile leave a file
\* alone that another session counts on having locked, and PutFile does unless the file
\* is empty: without a lock it writes to an empty file, locked or not.
THEOREM LockedFilesAreLeftAlone ==
    ASSUME Isolated
    PROVE  Spec => LockedFileUntouched
<1> DEFINE Left == \A c, d \in Clients : \A f \in Files :
                     Relies(c, f) /\ d # c /\ pc'[d] # pc[d] =>
                       /\ names'[f] = names[f]
                       /\ content'[f] = "gone" => content[f] = "gone"
                       /\ content[f] \in {content'[f], "empty"}
<1>1. ASSUME TypeOK, LockInv, FilesInv, [Next]_vars,
             NEW c \in Clients, NEW d \in Clients \ {c}, NEW f \in Files,
             Relies(c, f), pc'[d] # pc[d]
      PROVE  /\ names'[f] = names[f]
             /\ content'[f] = "gone" => content[f] = "gone"
             /\ content[f] \in {content'[f], "empty"}
  <2>1. Step(d)
    <3>1. PICK e \in Clients : Step(e)
      BY <1>1 DEF Next, Tick, vars
    <3> QED
      BY <1>1, <3>1, StepKeeps DEF OthersKept
  <2>2. Owner(f) = c /\ c # Nobody
    BY <1>1, OwnerFacts DEF LockInv, LeaseInv
  <2>3. StorageInv(d) /\ OwnerInv(d)
    BY <1>1 DEF LockInv, FilesInv
  <2>4. ~(f = req[d].file /\ pc[d] \in {"rename", "delete"})
    BY <2>2, <2>3 DEF StorageInv
  <2>5. f = req[d].file /\ pc[d] = "write" => content[f] = "empty"
    BY <2>2, <2>3 DEF StorageInv, OwnerInv, HasGrant
  <2> QED
    BY <1>1, <2>1, <2>4, <2>5, StorageMove
<1>2. TypeOK /\ LockInv /\ FilesInv /\ [Next]_vars => [Left]_vars
  BY <1>1
<1>3. Guarded
  BY DEF Guarded
<1> QED
  BY <1>2, <1>3, TypeCorrect, LockInvariant, FilesInvariant, PTL DEF Spec, LockedFileUntouched
=============================================================================
