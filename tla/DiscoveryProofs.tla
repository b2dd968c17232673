-------------------------- MODULE DiscoveryProofs ---------------------------
(***************************************************************************)
(* Theorems about Discovery, for any number of threads and key changes and *)
(* all intervals.                                                          *)
(***************************************************************************)
EXTENDS Discovery, TLAPS

Inv == TypeOK /\ KeysInv

LEMMA Subtypes ==
    /\ Verdicts \subseteq Label
    /\ {"idle", "sent", "create", "look", "miss", "fetch", "store", "check"} \subseteq Label
    /\ 0 \in Generations /\ 0 \in Times
    /\ NoRequest \in Request /\ NoValue \in TemporaryValue
<1> USE DiscoveryAssumption
<1>1. 0 \in Generations /\ 0 \in Times /\ 0 \in 0 .. (MaxTime + RefreshInterval)
  BY DEF Generations, Times
<1> QED
  BY <1>1 DEF Verdicts, Label, NoRequest, Request, NoValue, TemporaryValue

-----------------------------------------------------------------------------
(* Types.                                                                  *)

LEMMA InitType == Init => TypeOK
BY Subtypes DEF Init, TypeOK, Keys

LEMMA ClockType ==
    ASSUME TypeOK, Tick \/ ChangeKeys
    PROVE  TypeOK'
<1>1. CASE Tick
  <2>1. now' \in Times
    BY <1>1, DiscoveryAssumption DEF Tick, TypeOK, Times
  <2> QED
    BY <1>1, <2>1 DEF Tick, TypeOK, thread
<1>2. CASE ChangeKeys
  <2>1. generation' \in Generations
    BY <1>2, DiscoveryAssumption DEF ChangeKeys, TypeOK, Generations
  <2>2. published' \in [Generations -> Times]
    BY <1>2 DEF ChangeKeys, TypeOK
  <2> QED
    BY <1>2, <2>1, <2>2 DEF ChangeKeys, TypeOK, thread
<1> QED
  BY <1>1, <1>2

LEMMA FinishType ==
    ASSUME TypeOK, NEW t \in Threads, NEW verdict \in Verdicts, Finish(t, verdict)
    PROVE  /\ pc' \in [Threads -> Label]
           /\ lazy' \in [Threads -> Threads]
           /\ keys' \in [Threads -> Keys]
           /\ request' \in [Threads -> Request]
BY Subtypes DEF Finish, Goto, TypeOK, Keys

LEMMA StepType ==
    ASSUME TypeOK, NEW t \in Threads, Sign(t) \/ Serve(t)
    PROVE  TypeOK'
<1> USE Subtypes
<1>1. CASE Sign(t)
  <2>1. [signed |-> now, by |-> generation] \in Request
    BY DEF TypeOK, Request
  <2> QED
    BY <1>1, <2>1 DEF Sign, Goto, TypeOK
<1>2. CASE GetField(t)
  BY <1>2 DEF GetField, Goto, TypeOK
<1>3. CASE Create(t)
  BY <1>3 DEF Create, Goto, TypeOK
<1>4. CASE Look(t)
  <2>1. value[lazy[t]] \in TemporaryValue
    BY DEF TypeOK
  <2>2. value[lazy[t]].result # None => value[lazy[t]].result \in Keys
    BY <2>1 DEF TemporaryValue
  <2> QED
    BY <1>4, <2>2 DEF Look, Goto, IsValueCreated, TypeOK
<1>5. CASE Enter(t)
  BY <1>5 DEF Enter, Goto, TypeOK
<1>6. CASE Fetch(t)
  <2>1. CASE Finish(t, "refused")
    <3>1. "refused" \in Verdicts /\ holder' \in Threads \cup {None} /\ read' \in [Threads -> Times]
      BY <1>6 DEF Fetch, Verdicts, AfterFailure, TypeOK
    <3>2. /\ pc' \in [Threads -> Label] /\ lazy' \in [Threads -> Threads]
          /\ keys' \in [Threads -> Keys] /\ request' \in [Threads -> Request]
      BY <2>1, <3>1, FinishType
    <3> QED
      BY <1>6, <3>1, <3>2 DEF Fetch, TypeOK
  <2>2. CASE /\ \E found \in {generation, NoKeys} : keys' = [keys EXCEPT ![t] = found]
             /\ read' = [read EXCEPT ![t] = now] /\ Goto(t, "store")
             /\ UNCHANGED <<holder, lazy, request>>
    <3>1. keys' \in [Threads -> Keys]
      BY <2>2 DEF TypeOK, Keys
    <3>2. read' \in [Threads -> Times] /\ pc' \in [Threads -> Label]
      BY <2>2 DEF TypeOK, Goto
    <3> QED
      BY <1>6, <2>2, <3>1, <3>2 DEF Fetch, TypeOK
  <2> QED
    BY <1>6, <2>1, <2>2 DEF Fetch
<1>7. CASE Store(t)
  <2>1. now + RefreshInterval \in 0 .. (MaxTime + RefreshInterval)
    BY DiscoveryAssumption DEF TypeOK, Times
  <2>2. keys[t] \in Keys
    BY DEF TypeOK
  <2>3. [result |-> keys[t], validUntil |-> now + RefreshInterval] \in TemporaryValue
    BY <2>1, <2>2 DEF TemporaryValue
  <2> QED
    BY <1>7, <2>3 DEF Store, Goto, TypeOK
<1>8. CASE Check(t)
  BY <1>8, FinishType DEF Check, Verdicts, TypeOK
<1>9. CASE Answer(t)
  BY <1>9 DEF Answer, Goto, TypeOK
<1> QED
  BY <1>1, <1>2, <1>3, <1>4, <1>5, <1>6, <1>7, <1>8, <1>9 DEF Serve

LEMMA NextType ==
    ASSUME TypeOK, [Next]_vars
    PROVE  TypeOK'
<1>1. CASE UNCHANGED vars
  BY <1>1 DEF vars, thread, TypeOK
<1> QED
  BY <1>1, ClockType, StepType DEF Next

\* Every variable keeps its type.
THEOREM DiscoveryTypes == Spec => []TypeOK
BY InitType, NextType, PTL DEF Spec

-----------------------------------------------------------------------------
(* The inductive invariant.                                                *)

LEMMA InitKeys == Init => KeysInv
<1> SUFFICES ASSUME Init PROVE KeysInv
  OBVIOUS
<1>1. Locked
  BY DiscoveryAssumption DEF Init, Locked
<1>2. History
  BY DiscoveryAssumption DEF Init, History, Generations
<1>3. \A i \in Threads : ValueInv(value[i])
  BY DiscoveryAssumption DEF Init, ValueInv, NoValue
<1> QED
  BY <1>1, <1>2, <1>3 DEF Init, KeysInv, SignedInv, FetchedInv, CheckInv

\* Keys stay where they are in the client's history.
LEMMA KeysAtStays ==
    ASSUME TypeOK, TypeOK', NEW g \in Generations, NEW s \in Times, KeysAt(g, s),
           Tick \/ ChangeKeys
    PROVE  KeysAt(g, s)'
<1>1. now \in Nat /\ generation \in Nat /\ g \in Nat /\ s \in Nat
  BY DiscoveryAssumption DEF TypeOK, Times, Generations
<1>2. CASE Tick
  BY <1>1, <1>2 DEF Tick, KeysAt
<1>3. CASE ChangeKeys
  <2>1. published'[g] = published[g] /\ (g < generation => published'[g + 1] = published[g + 1])
    BY <1>1, <1>3 DEF ChangeKeys, TypeOK, KeysAt, Generations
  <2>2. g = generation => published'[g + 1] = now
    BY <1>1, <1>3 DEF ChangeKeys, TypeOK, Generations
  <2> QED
    BY <1>1, <1>3, <2>1, <2>2 DEF ChangeKeys, KeysAt
<1> QED
  BY <1>2, <1>3

LEMMA ClockKeys ==
    ASSUME Inv, TypeOK', Tick \/ ChangeKeys
    PROVE  KeysInv'
<1> USE DiscoveryAssumption
<1>0. TypeOK /\ KeysInv
  BY DEF Inv
<1>1. UNCHANGED <<field, value, holder, thread>>
  BY DEF Tick, ChangeKeys
<1>2. Locked'
  BY <1>0, <1>1 DEF KeysInv, Locked, thread
<1>3. History'
  <2>1. CASE Tick
    BY <1>0, <2>1 DEF Tick, TypeOK, KeysInv, History, Times, Generations
  <2>2. CASE ChangeKeys
    <3>1. /\ generation' = generation + 1 /\ now' = now
          /\ published'[generation + 1] = now
          /\ \A g \in 0 .. generation : published'[g] = published[g] /\ published[g] \in Nat
          /\ published[generation] + Gap <= now
      BY <1>0, <2>2 DEF ChangeKeys, TypeOK, Times, Generations
    <3>2. ASSUME NEW g \in 0 .. generation PROVE published[g] + Gap <= now
      <4>0. generation \in Nat /\ now \in Nat /\ Gap \in Nat
        BY <1>0 DEF TypeOK, Times, Generations
      <4>1. generation \in Nat /\ published[g] \in Nat /\ published[generation] \in Nat
            /\ now \in Nat /\ Gap \in Nat
        <5>1. generation \in 0 .. generation
          BY <4>0
        <5> QED
          BY <3>1, <4>0, <5>1
      <4>2. g < generation => published[g] + Gap <= published[generation]
        BY <1>0, <4>1 DEF KeysInv, History
      <4>3. published[generation] <= published[generation] + Gap
        BY <4>1
      <4>4. CASE g = generation
        BY <3>1, <4>4
      <4>5. CASE g < generation
        BY <3>1, <4>1, <4>2, <4>3, <4>5
      <4> QED
        BY <4>1, <4>4, <4>5
    <3>3. \A g \in 0 .. generation' : g \in 0 .. generation \/ g = generation + 1
      BY <1>0, <3>1 DEF TypeOK, Generations
    <3>4. ASSUME NEW g \in 0 .. generation', NEW h \in 0 .. generation', g < h
          PROVE  published'[g] + Gap <= published'[h]
      <4>1. generation \in Nat /\ g \in 0 .. generation
        BY <1>0, <3>1, <3>3, <3>4 DEF TypeOK, Generations
      <4>2. CASE h = generation + 1
        BY <3>1, <3>2, <4>1, <4>2
      <4>3. CASE h \in 0 .. generation
        BY <1>0, <3>1, <3>4, <4>1, <4>3 DEF KeysInv, History
      <4> QED
        BY <3>3, <4>2, <4>3
    <3>5. ASSUME NEW g \in 0 .. generation' PROVE published'[g] <= now'
      BY <1>0, <3>1, <3>3 DEF KeysInv, History, TypeOK, Times
    <3> QED
      BY <3>4, <3>5 DEF History
  <2> QED
    BY <2>1, <2>2
<1>4. ASSUME NEW t \in Threads PROVE SignedInv(t)' /\ FetchedInv(t)' /\ CheckInv(t)'
  <2>1. request[t].by \in Generations /\ request[t].signed \in Times /\ read[t] \in Times
    BY <1>0 DEF TypeOK, Request
  <2>2. UNCHANGED <<pc[t], keys[t], read[t], request[t]>>
    BY <1>1 DEF thread
  <2>3. SignedInv(t)'
    BY <1>0, <2>1, <2>2, KeysAtStays DEF KeysInv, SignedInv
  <2>4. FetchedInv(t)'
    <3> SUFFICES ASSUME pc[t] = "store"
                 PROVE  FetchedInv(t)'
      BY <2>2 DEF FetchedInv
    <3>1. now' <= read[t] + FetchTime /\ read[t] <= now'
      BY <1>0, <2>1 DEF Tick, ChangeKeys, KeysInv, FetchedInv, TypeOK, Times
    <3> QED
      BY <1>0, <1>1, <2>1, <2>2, <3>1, KeysAtStays DEF KeysInv, FetchedInv
  <2>5. generation <= generation'
    BY <1>0 DEF Tick, ChangeKeys, TypeOK, Generations
  <2>6. CheckInv(t)'
    <3>1. ASSUME pc[t] = "check", keys[t] \in Generations
          PROVE  keys[t] <= generation' /\ (SlowRotation => request[t].by <= keys[t] + 1)
      <4>1. generation \in Nat /\ generation' \in Nat /\ keys[t] \in Nat
        BY <1>0, <3>1 DEF TypeOK, Generations
      <4>2. keys[t] <= generation /\ (SlowRotation => request[t].by <= keys[t] + 1)
        BY <1>0, <3>1 DEF KeysInv, CheckInv
      <4> QED
        BY <2>5, <4>1, <4>2
    <3> QED
      BY <2>2, <3>1 DEF CheckInv
  <2> QED
    BY <2>3, <2>4, <2>6
<1>5. ASSUME NEW i \in Threads PROVE ValueInv(value[i])'
  <2>0. value'[i] = value[i] /\ ValueInv(value[i]) /\ value[i] \in TemporaryValue
    BY <1>0, <1>1 DEF KeysInv, TypeOK
  <2>1. /\ now \in Nat /\ generation \in Nat /\ value[i].validUntil \in Nat
        /\ value[i].validUntil <= now + RefreshInterval
    BY <1>0, <2>0 DEF TypeOK, Times, Generations, TemporaryValue, ValueInv
  <2>2. CASE Tick
    BY <2>0, <2>1, <2>2 DEF Tick, ValueInv
  <2>3. CASE ChangeKeys
    <3> DEFINE g == value[i].result
    <3>1. generation' = generation + 1 /\ published' = [published EXCEPT ![generation + 1] = now] /\ now' = now
      BY <2>3 DEF ChangeKeys
    <3>2. CASE g \in Generations
      <4>1. g \in Nat /\ g <= generation
        BY <2>0, <3>2 DEF ValueInv, Generations
      <4>2. g < generation => published'[g + 1] = published[g + 1]
        BY <1>0, <2>1, <3>1, <4>1 DEF TypeOK, Generations
      <4>3. g = generation => published'[g + 1] = now
        BY <1>0, <2>1, <2>3, <3>1, <4>1 DEF ChangeKeys, TypeOK, Generations
      <4>4. g = generation => value[i].validUntil <= published'[g + 1] + FetchTime + RefreshInterval
        BY <2>1, <4>3
      <4>5. g < generation => value[i].validUntil <= published'[g + 1] + FetchTime + RefreshInterval
        BY <2>0, <3>2, <4>2 DEF ValueInv
      <4> QED
        BY <2>0, <2>1, <3>1, <3>2, <4>1, <4>4, <4>5 DEF ValueInv
    <3>3. CASE g \notin Generations
      BY <2>0, <2>1, <3>1, <3>3 DEF ValueInv
    <3> QED
      BY <3>2, <3>3
  <2> QED
    BY <2>2, <2>3
<1> QED
  BY <1>2, <1>3, <1>4, <1>5 DEF KeysInv

\* A thread's step tells the other threads nothing new about their own requests.
LEMMA OthersStay ==
    ASSUME Inv, NEW t \in Threads, Sign(t) \/ Serve(t), NEW u \in Threads, u # t
    PROVE  /\ UNCHANGED <<now, generation, published>>
           /\ UNCHANGED <<pc[u], keys[u], read[u], request[u]>>
           /\ SignedInv(u)' /\ CheckInv(u)'
<1>1. TypeOK /\ SignedInv(u) /\ CheckInv(u)
  BY DEF Inv, KeysInv
<1>2. UNCHANGED <<now, generation, published>>
  BY DEF Sign, Serve, GetField, Create, Look, Enter, Fetch, Store, Check, Answer
<1>3. UNCHANGED <<pc[u], keys[u], read[u], request[u]>>
  BY <1>1 DEF TypeOK, Sign, Serve, GetField, Create, Look, Enter, Fetch, Store, Check, Answer,
     Goto, Finish
<1> QED
  BY <1>1, <1>2, <1>3 DEF SignedInv, CheckInv, KeysAt

LEMMA StepLocked ==
    ASSUME Inv, NEW t \in Threads, Sign(t) \/ Serve(t)
    PROVE  Locked'
<1>1. TypeOK /\ Locked
  BY DEF Inv, KeysInv
<1>2. \A u \in Threads : u # t => pc'[u] = pc[u]
  BY OthersStay
<1>3. CASE Sign(t) \/ GetField(t) \/ Create(t) \/ Look(t)
  BY <1>1, <1>3 DEF Sign, GetField, Create, Look, Goto, Locked, TypeOK
<1>4. CASE Enter(t)
  BY <1>1, <1>4, DiscoveryAssumption DEF Enter, MayEnter, Goto, Locked, TypeOK
<1>5. CASE Fetch(t)
  BY <1>1, <1>5, DiscoveryAssumption DEF Fetch, AfterFailure, Goto, Finish, Locked, TypeOK
<1>6. CASE Store(t)
  BY <1>1, <1>6, DiscoveryAssumption DEF Store, Goto, Locked, TypeOK
<1>7. CASE Check(t) \/ Answer(t)
  BY <1>1, <1>7 DEF Check, Answer, Goto, Finish, Locked, TypeOK, Verdicts
<1> QED
  BY <1>3, <1>4, <1>5, <1>6, <1>7 DEF Serve

\* A request is signed with what the client signs with at the time.
LEMMA StepSigned ==
    ASSUME Inv, NEW t \in Threads, Sign(t) \/ Serve(t)
    PROVE  SignedInv(t)'
<1> USE DiscoveryAssumption
<1>1. TypeOK /\ History /\ SignedInv(t)
  BY DEF Inv, KeysInv
<1>2. UNCHANGED <<now, generation, published>>
  BY DEF Sign, Serve, GetField, Create, Look, Enter, Fetch, Store, Check, Answer
<1>3. CASE Sign(t)
  <2>1. request'[t] = [signed |-> now, by |-> generation]
    BY <1>1, <1>3 DEF Sign, TypeOK
  <2>2. KeysAt(generation, now)
    BY <1>1 DEF History, KeysAt, TypeOK, Times, Generations
  <2> QED
    BY <1>2, <2>1, <2>2 DEF SignedInv, KeysAt
<1>4. CASE pc'[t] \in {"idle"} \cup Verdicts
  BY <1>4 DEF SignedInv
<1>5. CASE Serve(t) /\ pc'[t] \notin {"idle"} \cup Verdicts
  <2>1. request'[t] = request[t]
    BY <1>1, <1>5 DEF Serve, GetField, Create, Look, Enter, Fetch, Store, Check, Answer,
       Goto, Finish, Verdicts, TypeOK
  <2>2. pc[t] \notin {"idle"} \cup Verdicts
    BY <1>1, <1>5 DEF Serve, GetField, Create, Look, Enter, Fetch, Store, Check, Answer,
       Goto, Finish, Verdicts, TypeOK
  <2> QED
    BY <1>1, <1>2, <2>1, <2>2 DEF SignedInv, KeysAt
<1> QED
  BY <1>3, <1>4, <1>5

\* Of two changes of keys the second comes at least Gap later.
LEMMA ChangesApart ==
    ASSUME TypeOK, History, NEW g \in 0 .. generation, NEW h \in 0 .. generation, g < h
    PROVE  /\ published[g] \in Nat /\ published[h] \in Nat /\ published[h] <= now
           /\ published[g] + Gap <= published[h]
BY DiscoveryAssumption DEF TypeOK, History, Times, Generations

\* What t reads in store was current within the last FetchTime + RefreshInterval,
\* so that a request signed before it expires is at most one change ahead.
LEMMA StoredKeysServe ==
    ASSUME Inv, SlowRotation, NEW i \in Threads, IsValueCreated(value[i]),
           value[i].result \in Generations, NEW s \in Times, NEW by \in Generations,
           KeysAt(by, s)
    PROVE  by <= value[i].result + 1
<1> USE DiscoveryAssumption
<1> DEFINE g == value[i].result
<1>1. TypeOK /\ History /\ ValueInv(value[i]) /\ value[i] \in TemporaryValue
  BY DEF Inv, KeysInv, TypeOK
<1>2. /\ generation \in Nat /\ by \in Nat /\ g \in Nat /\ now \in Nat /\ s \in Nat
      /\ value[i].validUntil \in Nat /\ by <= generation
  BY <1>1 DEF TypeOK, Generations, Times, TemporaryValue, KeysAt
<1> SUFFICES ASSUME g + 1 < by PROVE FALSE
  BY <1>2
<1>3. g + 1 \in 0 .. generation /\ by \in 0 .. generation
  BY <1>2
<1>4. published[g + 1] \in Nat /\ published[g + 1] + Gap <= published[by]
  BY <1>1, <1>3, ChangesApart
<1>5. published[by] \in Nat /\ published[by] <= s /\ s <= now
  BY <1>1, <1>3, ChangesApart DEF KeysAt
<1>6. now < value[i].validUntil
  BY <1>2 DEF IsValueCreated
<1>7. value[i].validUntil <= published[g + 1] + FetchTime + RefreshInterval
  BY <1>1, <1>2 DEF ValueInv
<1>8. RefreshInterval + FetchTime <= Gap
  BY DEF SlowRotation
<1> QED
  BY <1>2, <1>4, <1>5, <1>6, <1>7, <1>8

LEMMA FetchedKeysServe ==
    ASSUME Inv, SlowRotation, NEW g \in Generations, NEW r \in Times, KeysAt(g, r),
           NEW s \in Times, NEW by \in Generations, KeysAt(by, s), s <= r
    PROVE  by <= g + 1
<1> USE DiscoveryAssumption
<1>1. TypeOK /\ History
  BY DEF Inv, KeysInv
<1>2. generation \in Nat /\ by \in Nat /\ g \in Nat /\ s \in Nat /\ r \in Nat /\ by <= generation
  BY <1>1 DEF TypeOK, Generations, Times, KeysAt
<1> SUFFICES ASSUME g + 1 < by PROVE FALSE
  BY <1>2
<1>3. g + 1 \in 0 .. generation /\ by \in 0 .. generation /\ g + 1 < by
  BY <1>2
<1>4. published[g + 1] \in Nat /\ published[g + 1] + Gap <= published[by]
  BY <1>1, <1>3, ChangesApart
<1>5. published[by] \in Nat /\ published[by] <= s
  BY <1>1, <1>3, ChangesApart DEF KeysAt
<1>6. r <= published[g + 1]
  BY <1>2 DEF KeysAt
<1>7. Limit \in Nat /\ Limit < Gap
  BY DEF SlowRotation
<1> QED
  BY <1>2, <1>4, <1>5, <1>6, <1>7

LEMMA StepCheck ==
    ASSUME Inv, NEW t \in Threads, Sign(t) \/ Serve(t)
    PROVE  CheckInv(t)'
<1>1. TypeOK /\ SignedInv(t) /\ FetchedInv(t)
  BY DEF Inv, KeysInv
<1>2. UNCHANGED <<now, generation, published>>
  BY DEF Sign, Serve, GetField, Create, Look, Enter, Fetch, Store, Check, Answer
<1>3. request[t].by \in Generations /\ request[t].signed \in Times /\ read[t] \in Times
      /\ lazy[t] \in Threads
  BY <1>1 DEF TypeOK, Request
<1>4. CASE pc'[t] # "check"
  BY <1>4 DEF CheckInv
<1>5. CASE pc'[t] = "check"
  <2>1. Look(t) \/ Store(t)
    BY <1>1, <1>5 DEF Sign, Serve, GetField, Create, Enter, Fetch, Check, Answer, Goto,
       Finish, Verdicts, TypeOK
  <2>2. request'[t] = request[t]
    BY <2>1 DEF Look, Store
  <2>3. KeysAt(request[t].by, request[t].signed)
    BY <1>1, <2>1 DEF SignedInv, Look, Store, Verdicts
  <2>4. CASE Look(t)
    <3>1. /\ IsValueCreated(value[lazy[t]]) /\ keys'[t] = value[lazy[t]].result
      BY <1>1, <1>5, <2>4 DEF Look, Goto, TypeOK
    <3>2. keys'[t] \in Generations =>
             keys'[t] <= generation /\ (SlowRotation => request[t].by <= keys'[t] + 1)
      BY <1>3, <2>3, <3>1, StoredKeysServe DEF Inv, KeysInv, ValueInv
    <3> QED
      BY <1>2, <2>2, <3>2 DEF CheckInv
  <2>5. CASE Store(t)
    <3>1. keys'[t] = keys[t] /\ pc[t] = "store"
      BY <2>5 DEF Store
    <3>2. keys[t] \in Generations =>
             keys[t] <= generation /\ (SlowRotation => request[t].by <= keys[t] + 1)
      BY <1>1, <1>3, <2>3, <3>1, FetchedKeysServe DEF FetchedInv, KeysAt
    <3> QED
      BY <1>2, <2>2, <3>1, <3>2 DEF CheckInv
  <2> QED
    BY <2>1, <2>4, <2>5
<1> QED
  BY <1>4, <1>5

LEMMA StepValues ==
    ASSUME Inv, TypeOK', NEW t \in Threads, Sign(t) \/ Serve(t)
    PROVE  \A i \in Threads : ValueInv(value[i])'
<1> USE DiscoveryAssumption
<1>1. TypeOK /\ FetchedInv(t) /\ lazy[t] \in Threads /\ \A i \in Threads : ValueInv(value[i])
  BY DEF Inv, KeysInv, TypeOK
<1>2. UNCHANGED <<now, generation, published>>
  BY DEF Sign, Serve, GetField, Create, Look, Enter, Fetch, Store, Check, Answer
<1>3. CASE UNCHANGED value
  BY <1>1, <1>2, <1>3 DEF ValueInv
<1>4. CASE Store(t)
  <2>1. pc[t] = "store" /\ \A i \in Threads : i # lazy[t] => value'[i] = value[i]
    BY <1>1, <1>4 DEF Store, TypeOK
  <2>2. value'[lazy[t]].result = keys[t] /\ value'[lazy[t]].validUntil = now + RefreshInterval
    BY <1>1, <1>4 DEF Store, TypeOK
  <2>3. ASSUME keys[t] \in Generations, keys[t] < generation
        PROVE  now + RefreshInterval <= published[keys[t] + 1] + FetchTime + RefreshInterval
    <3>1. now <= read[t] + FetchTime /\ read[t] <= published[keys[t] + 1]
      BY <1>1, <2>1, <2>3 DEF FetchedInv, KeysAt
    <3>2. keys[t] + 1 \in Generations
      BY <1>1, <2>3 DEF TypeOK, Generations
    <3>3. now \in Nat /\ read[t] \in Nat /\ published[keys[t] + 1] \in Nat
      BY <1>1, <3>2 DEF TypeOK, Times
    <3> QED
      BY <3>1, <3>3
  <2>4. keys[t] \in Generations => keys[t] <= generation
    BY <1>1, <2>1 DEF FetchedInv, KeysAt
  <2>5. now + RefreshInterval <= now + RefreshInterval
    BY <1>1 DEF TypeOK, Times
  <2>6. ValueInv(value[lazy[t]])'
    <3>1. value[lazy[t]]' = value'[lazy'[t]] /\ lazy'[t] = lazy[t]
      BY <1>4 DEF Store
    <3> QED
      BY <1>2, <2>2, <2>3, <2>4, <2>5, <3>1 DEF ValueInv
  <2> QED
    BY <1>1, <1>2, <1>4, <2>1, <2>6 DEF ValueInv, Store
<1> QED
  BY <1>3, <1>4 DEF Sign, Serve, GetField, Create, Look, Enter, Fetch, Check, Answer

LEMMA StepFetched ==
    ASSUME Inv, NEW t \in Threads, Sign(t) \/ Serve(t)
    PROVE  \A u \in Threads : FetchedInv(u)'
<1> USE DiscoveryAssumption
<1>1. TypeOK /\ Locked /\ History /\ SignedInv(t) /\ \A i \in Threads : ValueInv(value[i])
  BY DEF Inv, KeysInv
<1>2. UNCHANGED <<now, generation, published>>
  BY DEF Sign, Serve, GetField, Create, Look, Enter, Fetch, Store, Check, Answer
<1>3. ASSUME NEW u \in Threads, u # t PROVE FetchedInv(u)'
  <2>1. FetchedInv(u) /\ UNCHANGED <<pc[u], keys[u], read[u], request[u]>>
    BY <1>3, OthersStay DEF Inv, KeysInv
  <2>2. pc[u] = "store" => UNCHANGED value
    BY <1>1, <1>3 DEF Locked, Sign, Serve, GetField, Create, Look, Enter, Fetch, Store, Check, Answer
  <2> QED
    BY <1>2, <2>1, <2>2 DEF FetchedInv, KeysAt
<1>4. FetchedInv(t)'
  <2>1. CASE pc'[t] # "store"
    BY <2>1 DEF FetchedInv
  <2>2. CASE pc'[t] = "store"
    <3>1. Fetch(t)
      BY <1>1, <2>2 DEF Sign, Serve, GetField, Create, Look, Enter, Store, Check, Answer, Goto,
         Finish, Verdicts, TypeOK
    <3>2. /\ read'[t] = now /\ request'[t] = request[t] /\ value' = value /\ pc[t] = "fetch"
          /\ keys'[t] \in {generation, NoKeys}
      BY <1>1, <2>2, <3>1 DEF Fetch, Finish, Goto, TypeOK
    <3>3. now \in Nat /\ generation \in Nat
      BY <1>1 DEF TypeOK, Times, Generations
    <3>4. KeysAt(request[t].by, request[t].signed)
      BY <1>1, <3>2 DEF SignedInv, Verdicts
    <3>5. KeysAt(generation, now)
      BY <1>1, <3>3 DEF History, KeysAt
    <3>6. \A i \in Threads : value[i].result \in Generations => value[i].result <= generation
      BY <1>1 DEF ValueInv
    <3>7. request[t].signed <= now /\ now <= now /\ now <= now + FetchTime
      BY <3>3, <3>4 DEF KeysAt
    <3>8. keys'[t] \in Generations => keys'[t] = generation
      BY <3>2
    <3> QED
      BY <1>2, <3>2, <3>5, <3>6, <3>7, <3>8 DEF FetchedInv, KeysAt
  <2> QED
    BY <2>1, <2>2
<1> QED
  BY <1>3, <1>4

LEMMA StepKeys ==
    ASSUME Inv, TypeOK', NEW t \in Threads, Sign(t) \/ Serve(t)
    PROVE  KeysInv'
<1>1. History'
  BY DEF Inv, KeysInv, History, Sign, Serve, GetField, Create, Look, Enter, Fetch, Store,
     Check, Answer
<1>2. \A u \in Threads : SignedInv(u)' /\ CheckInv(u)'
  BY OthersStay, StepSigned, StepCheck
<1> QED
  BY <1>1, <1>2, StepLocked, StepFetched, StepValues DEF KeysInv

LEMMA NextInv ==
    ASSUME Inv, [Next]_vars
    PROVE  Inv'
<1>1. TypeOK'
  BY NextType DEF Inv
<1>2. CASE UNCHANGED vars
  BY <1>1, <1>2 DEF vars, thread, Inv, KeysInv, Locked, History, SignedInv, FetchedInv,
     CheckInv, ValueInv, KeysAt
<1> QED
  BY <1>1, <1>2, ClockKeys, StepKeys DEF Inv, Next

LEMMA Invariant == Spec => []Inv
<1>1. Init => Inv
  BY InitType, InitKeys DEF Inv
<1> QED
  BY <1>1, NextInv, PTL DEF Spec

\* The client's history, the host's copies and the requests fit together.
THEOREM KeysInvariant == Spec => []KeysInv
BY Invariant, PTL DEF Inv

\* One document at a time is asked for, over all instances.
THEOREM FetchesExclusive == Spec => []OneFetchAtATime
<1>1. Inv => OneFetchAtATime
  BY DEF Inv, KeysInv, Locked, OneFetchAtATime
<1> QED
  BY <1>1, Invariant, PTL

\* No copy of the keys is replaced by an older one.
THEOREM NoOlderKeys == Spec => KeysNeverGoBack
<1>1. ASSUME Inv, [Next]_vars, NEW i \in Threads,
             value[i].result \in Generations, value'[i].result \in Generations
      PROVE  value[i].result <= value'[i].result
  <2>0. TypeOK
    BY <1>1 DEF Inv
  <2>1. CASE value'[i] = value[i]
    BY <1>1, <2>1, DiscoveryAssumption DEF Generations
  <2>2. CASE value'[i] # value[i]
    <3>1. PICK t \in Threads : Store(t)
      BY <1>1, <2>2 DEF Next, Tick, ChangeKeys, Sign, Serve, GetField, Create, Look, Enter,
         Fetch, Check, Answer, vars, thread
    <3>2. i = lazy[t] /\ value'[i].result = keys[t] /\ pc[t] = "store"
      BY <2>0, <2>2, <3>1 DEF Store, TypeOK
    <3>3. FetchedInv(t)
      BY <1>1 DEF Inv, KeysInv
    <3> QED
      BY <1>1, <3>2, <3>3 DEF FetchedInv
  <2> QED
    BY <2>1, <2>2
<1>2. Inv /\ [Next]_vars =>
        [\A i \in Threads :
            value[i].result \in Generations /\ value'[i].result \in Generations
            => value[i].result <= value'[i].result]_vars
  BY <1>1
<1> QED
  BY <1>2, Invariant, PTL DEF Spec, KeysNeverGoBack

\* With slow enough key changes no genuine request in time is refused, unless
\* the client published no keys.
THEOREM GenuineRequestsPass == Spec => GenuineVerified
<1> USE DiscoveryAssumption
<1>1. ASSUME Inv, [Next]_vars, NEW t \in Threads, SlowRotation,
             pc[t] = "check", pc'[t] = "refused", keys[t] # NoKeys,
             ~(now - request[t].signed > Limit)
      PROVE  FALSE
  <2>1. TypeOK /\ History /\ SignedInv(t) /\ CheckInv(t)
    BY <1>1 DEF Inv, KeysInv
  <2>2. Check(t)
    <3>1. pc'[t] # pc[t]
      BY <1>1
    <3>2. PICK u \in Threads : Sign(u) \/ Serve(u)
      BY <1>1, <3>1 DEF Next, Tick, ChangeKeys, vars, thread
    <3>3. u = t
      BY <1>1, <3>1, <3>2, OthersStay
    <3> QED
      BY <1>1, <3>2, <3>3 DEF Sign, Serve, GetField, Create, Look, Enter, Fetch, Store,
         Answer, Verdicts
  <2>3. /\ keys[t] \in Generations /\ request[t].by \in Generations
        /\ request[t].signed \in Times
    BY <1>1, <2>1 DEF TypeOK, Keys, Request
  <2> DEFINE g == keys[t]
  <2> DEFINE by == request[t].by
  <2> DEFINE s == request[t].signed
  <2>4. /\ now \in Nat /\ s \in Nat /\ g \in Nat /\ by \in Nat /\ generation \in Nat
        /\ KeysAt(by, s) /\ g <= generation /\ by <= g + 1
    BY <1>1, <2>1, <2>3 DEF SignedInv, CheckInv, Verdicts, TypeOK, Times, Generations
  <2>5. g <= by + 1
    <3> SUFFICES ASSUME by + 1 < g PROVE FALSE
      BY <2>4
    <3>1. by + 1 \in 0 .. generation /\ g \in 0 .. generation
      BY <2>4
    <3>2. /\ published[by + 1] \in Nat /\ published[g] \in Nat
          /\ published[by + 1] + Gap <= published[g] /\ published[g] <= now
      BY <2>1, <3>1, ChangesApart
    <3>3. s <= published[by + 1]
      BY <2>4, <3>1 DEF KeysAt
    <3> QED
      BY <1>1, <2>4, <3>2, <3>3 DEF SlowRotation
  <2>6. Verifies(by, g)
    BY <2>4, <2>5 DEF Verifies
  <2>7. now - s <= Limit
    BY <1>1, <2>4
  <2> QED
    BY <1>1, <2>1, <2>2, <2>6, <2>7 DEF Check, Finish, Goto, TypeOK
<1>2. Inv /\ [Next]_vars =>
        [\A t \in Threads :
            SlowRotation /\ pc[t] = "check" /\ pc'[t] = "refused"
            => keys[t] = NoKeys \/ now - request[t].signed > Limit]_vars
  BY <1>1
<1> QED
  BY <1>2, Invariant, PTL DEF Spec, GenuineVerified
=============================================================================
