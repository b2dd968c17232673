------------------------------ MODULE Discovery ------------------------------
(***************************************************************************)
(* The proof keys a WOPI client publishes, as the host caches them and     *)
(* validates requests with them: WopiDiscoverer keeps the keys in an       *)
(* AsyncExpiringLazy, WopiProofValidator reads them there.  The client     *)
(* replaces its keys now and then; it then signs with the new key and, in  *)
(* X-WOPI-ProofOld, with the one before, and publishes both.               *)
(***************************************************************************)
EXTENDS Integers

CONSTANTS
    Threads,          \* threads that validate requests
    RefreshInterval,  \* DiscoveryOptions.RefreshInterval
    Limit,            \* the age at which a request is refused, 20 minutes in the code
    FetchTime,        \* from the client's answer to the moment the keys are stored
    Gap,              \* time between two key changes of the client
    MaxGeneration,    \* bound on the key changes
    MaxTime,          \* bound on the time
    NoKeys,           \* in place of keys: the client's document has none
    None              \* null; nobody

Generations == 0 .. MaxGeneration
Times == 0 .. MaxTime

ASSUME DiscoveryAssumption ==
    /\ RefreshInterval \in Nat /\ Limit \in Nat /\ FetchTime \in Nat /\ Gap \in Nat
    /\ MaxGeneration \in Nat /\ MaxTime \in Nat
    /\ NoKeys \notin Generations
    /\ None \notin Generations \cup {NoKeys} \cup Threads

\* What GenuineAccepted needs of the client: keys outlive the host's copy of
\* them and the requests they sign.
SlowRotation == Gap >= RefreshInterval + FetchTime /\ Gap > Limit

VARIABLES
    now,
    generation,   \* the keys the client signs with; generation - 1 are the old ones
    published,    \* published[g]: when the client changed to g
    field,        \* WopiDiscoverer._proofKey: named after the thread that created it
    value,        \* value[i]: the _value of the lazy that thread i created
    holder,       \* the thread that holds SyncLock, static, one for all instances
    pc,
    lazy,         \* lazy[t]: the instance its call of Value() is on
    keys,         \* keys[t]: the generation whose document it has got
    read,         \* read[t]: when the client sent that document
    request       \* request[t]: the request it validates

thread == <<pc, lazy, keys, read, request>>
vars == <<now, generation, published, field, value, holder, thread>>

Keys == Generations \cup {NoKeys}
TemporaryValue == [result : Keys \cup {None}, validUntil : 0 .. (MaxTime + RefreshInterval)]
Request == [signed : Times, by : Generations]
Verdicts == {"accepted", "refused"}
Label == {"idle", "sent", "create", "look", "miss", "fetch", "store", "check"} \cup Verdicts

NoValue == [result |-> None, validUntil |-> 0]
NoRequest == [signed |-> 0, by |-> 0]

TypeOK ==
    /\ now \in Times
    /\ generation \in Generations
    /\ published \in [Generations -> Times]
    /\ field \in Threads \cup {None}
    /\ value \in [Threads -> TemporaryValue]
    /\ holder \in Threads \cup {None}
    /\ pc \in [Threads -> Label]
    /\ lazy \in [Threads -> Threads]
    /\ keys \in [Threads -> Keys]
    /\ read \in [Threads -> Times]
    /\ request \in [Threads -> Request]

Init ==
    /\ now = 0
    /\ generation = 0
    /\ published = [g \in Generations |-> 0]
    /\ field = None
    /\ value = [t \in Threads |-> NoValue]
    /\ holder = None
    /\ pc = [t \in Threads |-> "idle"]
    /\ lazy = [t \in Threads |-> t]
    /\ keys = [t \in Threads |-> NoKeys]
    /\ read = [t \in Threads |-> 0]
    /\ request = [t \in Threads |-> NoRequest]

-----------------------------------------------------------------------------
(* The clock and the client.                                               *)

\* Assumption: a document on its way to the host arrives within FetchTime.
Tick ==
    /\ now < MaxTime
    /\ \A t \in Threads : pc[t] = "store" => now < read[t] + FetchTime
    /\ now' = now + 1
    /\ UNCHANGED <<generation, published, field, value, holder, thread>>

\* Assumption: the client changes its keys no sooner than Gap after a change.
ChangeKeys ==
    /\ generation < MaxGeneration
    /\ now >= published[generation] + Gap
    /\ generation' = generation + 1
    /\ published' = [published EXCEPT ![generation + 1] = now]
    /\ UNCHANGED <<now, field, value, holder, thread>>

Goto(t, label) == pc' = [pc EXCEPT ![t] = label]

\* The request is decided; its thread forgets what it had.
Finish(t, verdict) ==
    /\ Goto(t, verdict)
    /\ lazy' = [lazy EXCEPT ![t] = t]
    /\ keys' = [keys EXCEPT ![t] = NoKeys]
    /\ request' = [request EXCEPT ![t] = NoRequest]

\* The client signs a request, which may take its time to reach the host.
Sign(t) ==
    /\ pc[t] = "idle"
    /\ request' = [request EXCEPT ![t] = [signed |-> now, by |-> generation]]
    /\ Goto(t, "sent")
    /\ UNCHANGED <<now, generation, published, field, value, holder, lazy, keys, read>>

-----------------------------------------------------------------------------
(* WopiDiscoverer.ProofKey: _proofKey ??= new AsyncExpiringLazy(...), which *)
(* reads the field, and creates and assigns an instance if it was null.    *)

GetField(t) ==
    /\ pc[t] = "sent"
    /\ IF field = None
       THEN Goto(t, "create") /\ UNCHANGED lazy
       ELSE Goto(t, "look") /\ lazy' = [lazy EXCEPT ![t] = field]
    /\ UNCHANGED <<now, generation, published, field, value, holder, keys, read, request>>

Create(t) ==
    /\ pc[t] = "create"
    /\ field' = t
    /\ lazy' = [lazy EXCEPT ![t] = t]
    /\ Goto(t, "look")
    /\ UNCHANGED <<now, generation, published, value, holder, keys, read, request>>

-----------------------------------------------------------------------------
(* AsyncExpiringLazy.Value()                                               *)

\* Variant with a bug: no test for null, and valid until the last moment included.
NotOver(v) == v.validUntil >= now

IsValueCreated(v) == v.result # None /\ v.validUntil > now

\* The first section under SyncLock awaits nothing, and so is one step.
Look(t) ==
    /\ pc[t] = "look"
    /\ holder = None
    /\ LET v == value[lazy[t]] IN
       IF IsValueCreated(v)
       THEN Goto(t, "check") /\ keys' = [keys EXCEPT ![t] = v.result]
       ELSE Goto(t, "miss") /\ UNCHANGED keys
    /\ UNCHANGED <<now, generation, published, field, value, holder, lazy, read, request>>

\* Variant with a bug: the value is renewed outside SyncLock.
GoesAhead == TRUE

\* SyncLock.WaitAsync() returns.
MayEnter == holder = None

\* The value is not looked at again.
Enter(t) ==
    /\ pc[t] = "miss"
    /\ MayEnter
    /\ holder' = t
    /\ Goto(t, "fetch")
    /\ UNCHANGED <<now, generation, published, field, value, lazy, keys, read, request>>

\* Variant with a bug: SyncLock is released on the way out of a success only.
KeepIfFailed == holder

\* finally: SyncLock.Release()
AfterFailure == None

\* The client answers GetDiscoveryXmlAsync, or does not.  A document without
\* keys is as good as any other: the host makes up an empty proof-key element.
Fetch(t) ==
    /\ pc[t] = "fetch"
    /\ \/ /\ \E found \in {generation, NoKeys} : keys' = [keys EXCEPT ![t] = found]
          /\ read' = [read EXCEPT ![t] = now]
          /\ Goto(t, "store")
          /\ UNCHANGED holder
          /\ UNCHANGED <<lazy, request>>
       \/ /\ holder' = AfterFailure
          /\ Finish(t, "refused")
          /\ UNCHANGED read
    /\ UNCHANGED <<now, generation, published, field, value>>

\* The document has been read.
Store(t) ==
    /\ pc[t] = "store"
    /\ value' = [value EXCEPT ![lazy[t]] =
                   [result |-> keys[t], validUntil |-> now + RefreshInterval]]
    /\ holder' = None
    /\ read' = [read EXCEPT ![t] = 0]
    /\ Goto(t, "check")
    /\ UNCHANGED <<now, generation, published, field, lazy, keys, request>>

-----------------------------------------------------------------------------
(* WopiProofValidator.ValidateProofAsync, from where it has the keys.      *)

\* Variant with a bug: X-WOPI-ProofOld is not looked at.
VerifiesNew(by, g) == by = g \/ by = g - 1

\* The signature in X-WOPI-Proof is of generation by, that in X-WOPI-ProofOld of
\* by - 1; the host has the keys of g and of g - 1.
Verifies(by, g) == by = g \/ by = g - 1 \/ by - 1 = g

Check(t) ==
    /\ pc[t] = "check"
    /\ Finish(t, IF /\ keys[t] # NoKeys
                    /\ now - request[t].signed <= Limit
                    /\ Verifies(request[t].by, keys[t])
                 THEN "accepted" ELSE "refused")
    /\ UNCHANGED <<now, generation, published, field, value, holder, read>>

Answer(t) ==
    /\ pc[t] \in Verdicts
    /\ Goto(t, "idle")
    /\ UNCHANGED <<now, generation, published, field, value, holder, lazy, keys, read, request>>

\* What thread t does for the request it has been sent.
Serve(t) ==
    \/ GetField(t) \/ Create(t) \/ Look(t) \/ Enter(t)
    \/ Fetch(t) \/ Store(t) \/ Check(t) \/ Answer(t)

Next ==
    \/ Tick \/ ChangeKeys
    \/ \E t \in Threads : Sign(t) \/ Serve(t)

Spec == Init /\ [][Next]_vars

\* SemaphoreSlim lets its waiters in one after the other; other steps of a
\* request run when they can, and the client answers or the call fails.
FairSpec ==
    /\ Spec
    /\ \A t \in Threads : SF_vars(Look(t)) /\ SF_vars(Enter(t)) /\ WF_vars(Serve(t))

-----------------------------------------------------------------------------
(* Properties.                                                             *)

\* ValidateProofAsync with cached keys: a request the client has signed is not
\* taken for another's while the keys change as slowly as SlowRotation says,
\* however old the host's copy of them and however long the request took.
GenuineVerified ==
    [][\A t \in Threads :
          SlowRotation /\ pc[t] = "check" /\ pc'[t] = "refused"
          => keys[t] = NoKeys \/ now - request[t].signed > Limit]_vars

\* AsyncExpiringLazy: with every caller that found nothing fetching in its turn,
\* and the two instances that _proofKey ??= may make, a copy of the keys is
\* never replaced by an older one.
KeysNeverGoBack ==
    [][\A i \in Threads :
          value[i].result \in Generations /\ value'[i].result \in Generations
          => value[i].result <= value'[i].result]_vars

\* The host asks the client for one document at a time, the instance that lost
\* in _proofKey ??= included, and no failed fetch leaves the next one waiting.
OneFetchAtATime ==
    \A t, u \in Threads :
        /\ pc[t] \in {"fetch", "store"} /\ pc[u] \in {"fetch", "store"} => t = u
        /\ holder = t => pc[t] \in {"fetch", "store"}

\* Every request is validated, whoever else waits for the keys.
EveryRequestValidated ==
    \A t \in Threads : pc[t] = "sent" ~> pc[t] \in Verdicts

-----------------------------------------------------------------------------
(* The inductive invariant behind the safety properties.                   *)

Locked == \A t \in Threads : holder = t <=> pc[t] \in {"fetch", "store"}

\* When keys were changed.
History ==
    \A g \in 0 .. generation :
        /\ published[g] <= now
        /\ \A h \in 0 .. generation : g < h => published[g] + Gap <= published[h]

\* g were the client's keys at time s.
KeysAt(g, s) ==
    /\ g <= generation /\ published[g] <= s /\ s <= now
    /\ g < generation => s <= published[g + 1]

\* When the request was signed, and that by then its keys were the client's.
SignedInv(t) ==
    pc[t] \notin {"idle"} \cup Verdicts => KeysAt(request[t].by, request[t].signed)

\* What is being fetched is as new as anything in store, and newer than the request.
FetchedInv(t) ==
    pc[t] = "store" =>
        /\ request[t].signed <= read[t] /\ read[t] <= now /\ now <= read[t] + FetchTime
        /\ keys[t] \in Generations =>
              /\ KeysAt(keys[t], read[t])
              /\ \A i \in Threads : value[i].result \in Generations => value[i].result <= keys[t]

\* A copy outlives its keys by no more than it takes to fetch and to expire.
ValueInv(v) ==
    /\ v.validUntil <= now + RefreshInterval
    /\ v.result \in Generations =>
          /\ v.result <= generation
          /\ v.result < generation =>
                v.validUntil <= published[v.result + 1] + FetchTime + RefreshInterval

\* The keys a request is validated with are at most one change behind it.
CheckInv(t) ==
    pc[t] = "check" /\ keys[t] \in Generations =>
        /\ keys[t] <= generation
        /\ SlowRotation => request[t].by <= keys[t] + 1

KeysInv ==
    /\ Locked /\ History
    /\ \A t \in Threads : SignedInv(t) /\ FetchedInv(t) /\ CheckInv(t)
    /\ \A i \in Threads : ValueInv(value[i])
=============================================================================
