------------------------- MODULE ModelRegistry_proofs -------------------------
(***************************************************************************)
(* What holds of the registry of model clients for any models, callers,    *)
(* bound and number of permits, and of what is offered to be registered    *)
(* (module ModelDiscovery) for any providers, models, number of checks,    *)
(* changes and faults.                                                     *)
(***************************************************************************)
EXTENDS ModelRegistry, ModelDiscovery, FiniteSetTheorems, TLAPS

\* The callers that hold a permit of the local inference server.
Holders == {t \in Tasks : task[t].step \in {"posting", "retrying"} /\ task[t].key[2] \in LocalModels}

\* Every permit is free or held by one caller.
PermitsAccounted == free \in Nat /\ free + Cardinality(Holders) = Permits

\* What is registered is open, under one key, and in use under no other key.
RegisteredIsOpen == \A k \in Registered : client[registry[k]] = "open"
OneKeyEach == \A k, l \in Registered : registry[k] = registry[l] => k = l
UsedUnderItsKey ==
  \A t \in Tasks : task[t] # Idle =>
    /\ task[t].key \in Keys /\ task[t].uses \in Clients /\ client[task[t].uses] # "unborn"
    /\ \A k \in Registered : registry[k] = task[t].uses => k = task[t].key

\* Only a local call waits for a permit.
WaitersAreLocal == \A t \in Tasks : task[t].step = "waiting" => task[t].key[2] \in LocalModels

IInv ==
  /\ RegistryTypeOK
  /\ PermitsAccounted
  /\ LocalsBounded
  /\ RegisteredIsOpen
  /\ OneKeyEach
  /\ NoneIsLost
  /\ UsedUnderItsKey
  /\ WaitersAreLocal

-----------------------------------------------------------------------------
(* Facts about finite sets of keys. *)

LEMMA KeysFinite == IsFiniteSet(Keys)
<1>1. IsFiniteSet({"llm", "verify"})
  <2>1. IsFiniteSet({"llm"} \cup {"verify"})
    BY FS_Singleton, FS_AddElement
  <2>2. {"llm"} \cup {"verify"} = {"llm", "verify"}
    OBVIOUS
  <2> QED BY <2>1, <2>2
<1>2. IsFiniteSet(LocalModels \cup CloudModels)
  BY FS_Union, RegistryAssumption
<1> QED BY <1>1, <1>2, FS_Product DEF Keys

LEMMA RegisteredFinite ==
  /\ IsFiniteSet(Registered) /\ Cardinality(Registered) \in Nat
  /\ IsFiniteSet(Bounded) /\ Cardinality(Bounded) \in Nat
  /\ Cardinality(Bounded) <= Cardinality(Registered)
<1>1. Registered \subseteq Keys /\ Bounded \subseteq Registered
  BY DEF Registered, Bounded
<1>2. IsFiniteSet(Registered)
  BY <1>1, KeysFinite, FS_Subset
<1> QED BY <1>1, <1>2, FS_Subset, FS_CardinalityType

\* An insertion replaces what is evicted by the new entry and touches nothing
\* else.
LEMMA InsertEffect ==
  ASSUME RegistryTypeOK, NEW k \in Keys, NEW c \in Clients,
         NEW W \in SUBSET Registered, k \notin Registered, Insert(k, c, W)
  PROVE  /\ registry' \in [Keys -> Clients \cup {None}]
         /\ older' \subseteq Keys \X Keys
         /\ Registered' = (Registered \ W) \cup {k}
         /\ registry'[k] = c
         /\ \A r \in Registered \ W : registry'[r] = registry[r]
<1>1. c # None
  BY RegistryAssumption DEF Clients
<1>2. /\ registry' \in [Keys -> Clients \cup {None}]
      /\ registry'[k] = c
      /\ \A r \in Keys \ {k} : registry'[r] = IF r \in W THEN None ELSE registry[r]
  BY DEF Insert, RegistryTypeOK
<1>3. Registered' = (Registered \ W) \cup {k}
  BY <1>1, <1>2 DEF Registered
<1>4. Registered \subseteq Keys
  BY DEF Registered
<1>5. older' \subseteq Keys \X Keys
  <2>1. older \in SUBSET (Keys \X Keys)
    BY DEF RegistryTypeOK
  <2>2. \A a \in Registered \ W : <<a, k>> \in Keys \X Keys
    BY <1>4
  <2>3. {<<a, k>> : a \in (Registered \ W) \ {k}} \subseteq Keys \X Keys
    BY <2>2
  <2>4. Forget({p \in older : p[1] \notin W /\ p[2] \notin W}, k) \subseteq older
    BY DEF Forget
  <2> QED BY <2>1, <2>3, <2>4 DEF Insert, Used
<1> QED BY <1>2, <1>3, <1>4, <1>5

\* The three ways put_llm_instance goes.
LEMMA PutCases ==
  ASSUME NEW k \in Keys, NEW c \in Clients, Put(k, c)
  PROVE  \/ /\ client' = [client EXCEPT ![c] = "closing"]
            /\ UNCHANGED <<registry, older>>
         \/ \E v \in Bounded :
              /\ Cardinality(Registered) >= MaxInstances
              /\ Insert(k, c, {v})
              /\ client' = [client EXCEPT ![c] = "open", ![registry[v]] = "closing"]
         \/ /\ IsCloud(k) \/ Cardinality(Registered) < MaxInstances \/ Bounded = {} \/ k \in Registered
            /\ Insert(k, c, {})
            /\ client' = [client EXCEPT ![c] = "open"]
<1>1. Cardinality(Registered) \in Nat /\ MaxInstances \in Nat
  BY RegisteredFinite, RegistryAssumption
<1>2. CASE sealed
  BY <1>2 DEF Put
<1>3. CASE ~sealed /\ MustEvict(k) /\ Bounded # {}
  <2>1. PICK v \in Oldest : Insert(k, c, {v})
                           /\ client' = [client EXCEPT ![c] = "open", ![registry[v]] = "closing"]
    BY <1>3 DEF Put
  <2>2. v \in Bounded
    BY DEF Oldest
  <2>3. Cardinality(Registered) >= MaxInstances
    BY <1>3 DEF MustEvict
  <2> QED BY <2>1, <2>2, <2>3
<1>4. CASE ~sealed /\ ~(MustEvict(k) /\ Bounded # {})
  <2>1. Insert(k, c, {}) /\ client' = [client EXCEPT ![c] = "open"]
    BY <1>4 DEF Put
  <2>2. IsCloud(k) \/ Cardinality(Registered) < MaxInstances \/ Bounded = {} \/ k \in Registered
    BY <1>1, <1>4 DEF MustEvict
  <2> QED BY <2>1, <2>2
<1> QED BY <1>2, <1>3, <1>4

-----------------------------------------------------------------------------
(* Steps that leave the registry and the clients alone. *)

LEMMA HoldersFinite ==
  ASSUME NEW S \in SUBSET Tasks
  PROVE  IsFiniteSet(S) /\ Cardinality(S) \in Nat
BY FS_Subset, FS_CardinalityType, RegistryAssumption

\* A caller that starts takes no permit yet.
LEMMA StartsEffect ==
  ASSUME IInv, NEW t \in Tasks, NEW k \in Keys, NEW c \in Clients,
         task[t] = Idle, Starts(t, k, c)
  PROVE  /\ task' \in [Tasks -> [step: Steps, key: Keys \cup {None}, uses: Clients \cup {None}]]
         /\ task'[t].key = k /\ task'[t].uses = c
         /\ \A u \in Tasks \ {t} : task'[u] = task[u]
         /\ Holders' = Holders
         /\ WaitersAreLocal'
<1>1. /\ task' = [task EXCEPT ![t] = [step |-> "waiting", key |-> k, uses |-> c]]
         /\ k[2] \in LocalModels
      \/ /\ task' = [task EXCEPT ![t] = [step |-> "posting", key |-> k, uses |-> c]]
         /\ k[2] \notin LocalModels
  BY DEF Starts
<1>2. task \in [Tasks -> [step: Steps, key: Keys \cup {None}, uses: Clients \cup {None}]]
  BY DEF IInv, RegistryTypeOK
<1>3. "waiting" \in Steps /\ "posting" \in Steps
  BY DEF Steps
<1>4. /\ task'[t].key = k /\ task'[t].uses = c
      /\ \A u \in Tasks \ {t} : task'[u] = task[u]
      /\ task' \in [Tasks -> [step: Steps, key: Keys \cup {None}, uses: Clients \cup {None}]]
  BY <1>1, <1>2, <1>3
<1>5. t \notin Holders /\ t \notin Holders'
  BY <1>1, <1>2 DEF Holders, Idle
<1>6. \A u \in Tasks \ {t} : u \in Holders <=> u \in Holders'
  BY <1>4 DEF Holders
<1>7. WaitersAreLocal'
  BY <1>1, <1>2, <1>4 DEF IInv, WaitersAreLocal
<1> QED BY <1>4, <1>5, <1>6, <1>7 DEF Holders

LEMMA HitStep ==
  ASSUME IInv, NEW t \in Tasks, NEW k \in Keys, Hit(t, k)
  PROVE  IInv'
<1>1. registry[k] \in Clients /\ client[registry[k]] = "open"
  BY DEF Hit, IInv, RegistryTypeOK, Registered, RegisteredIsOpen
<1>2. /\ task' \in [Tasks -> [step: Steps, key: Keys \cup {None}, uses: Clients \cup {None}]]
      /\ task'[t].key = k /\ task'[t].uses = registry[k]
      /\ \A u \in Tasks \ {t} : task'[u] = task[u]
      /\ Holders' = Holders
      /\ WaitersAreLocal'
  BY <1>1, StartsEffect DEF Hit
<1>3. older' \subseteq Keys \X Keys
  <2>1. Registered \subseteq Keys /\ older \subseteq Keys \X Keys
    BY DEF Registered, IInv, RegistryTypeOK
  <2>2. {<<a, k>> : a \in Registered \ {k}} \subseteq Keys \X Keys
    BY <2>1
  <2>3. Forget(older, k) \subseteq older
    BY DEF Forget
  <2> QED BY <2>1, <2>2, <2>3 DEF Hit, Used
<1>4. UNCHANGED <<registry, sealed, client, pending, free, life>> /\ Registered' = Registered
  BY DEF Hit, Registered
<1>5. RegistryTypeOK'
  BY <1>2, <1>3, <1>4 DEF IInv, RegistryTypeOK
<1>6. UsedUnderItsKey'
  BY <1>1, <1>2, <1>4 DEF IInv, UsedUnderItsKey, OneKeyEach, Hit
<1>7. PermitsAccounted'
  BY <1>2, <1>4 DEF IInv, PermitsAccounted
<1>8. (LocalsBounded /\ RegisteredIsOpen /\ OneKeyEach /\ NoneIsLost)'
  BY <1>4 DEF IInv, LocalsBounded, RegisteredIsOpen, OneKeyEach, NoneIsLost, Bounded
<1> QED BY <1>2, <1>5, <1>6, <1>7, <1>8 DEF IInv

\* The steps of a call in flight move one permit with one holder.
LEMMA CallStep ==
  ASSUME IInv, NEW t \in Tasks, Acquire(t) \/ NotFound(t) \/ Answered(t)
  PROVE  IInv'
<1>1. task \in [Tasks -> [step: Steps, key: Keys \cup {None}, uses: Clients \cup {None}]]
  BY DEF IInv, RegistryTypeOK
<1>2. UNCHANGED <<registry, older, sealed, client, pending, life>> /\ Registered' = Registered
  BY DEF Acquire, NotFound, Answered, Registered
<1>3. \A u \in Tasks \ {t} : task'[u] = task[u]
  BY <1>1 DEF Acquire, NotFound, Answered
<1>4. /\ task' \in [Tasks -> [step: Steps, key: Keys \cup {None}, uses: Clients \cup {None}]]
      /\ task'[t] = Idle \/ (task'[t].key = task[t].key /\ task'[t].uses = task[t].uses /\ task[t] # Idle)
  BY <1>1 DEF Acquire, NotFound, Answered, Idle, Steps
<1>5. \A u \in Tasks \ {t} : u \in Holders <=> u \in Holders'
  BY <1>3 DEF Holders
<1>6. /\ free \in Nat /\ Permits \in Nat
      /\ free + Cardinality(Holders) = Permits
      /\ IsFiniteSet(Holders) /\ Cardinality(Holders) \in Nat
  <2>1. Holders \in SUBSET Tasks
    BY DEF Holders
  <2> QED BY <2>1, HoldersFinite, RegistryAssumption DEF IInv, PermitsAccounted
<1>7. PermitsAccounted'
  <2>1. CASE Acquire(t)
    <3>1. /\ task'[t].step = "posting" /\ task'[t].key = task[t].key /\ task[t].step = "waiting"
          /\ free' = free - 1 /\ free > 0
      BY <2>1, <1>1 DEF Acquire
    <3>2. task[t].key[2] \in LocalModels
      BY <3>1 DEF IInv, WaitersAreLocal
    <3>3. Holders' = Holders \cup {t} /\ t \notin Holders
      BY <1>5, <3>1, <3>2 DEF Holders
    <3>4. Cardinality(Holders') = Cardinality(Holders) + 1
      BY <1>6, <3>3, FS_AddElement
    <3>5. free' \in Nat /\ free' + Cardinality(Holders') = Permits
      BY <1>6, <3>1, <3>4
    <3> QED BY <3>5 DEF PermitsAccounted
  <2>2. CASE NotFound(t)
    <3>1. Holders' = Holders /\ free' = free
      BY <1>1, <1>5, <2>2 DEF Holders, NotFound
    <3> QED BY <1>6, <3>1 DEF PermitsAccounted
  <2>3. CASE Answered(t)
    <3>1. t \notin Holders'
      BY <1>1, <2>3 DEF Answered, Idle, Holders
    <3>2. Holders' = Holders \ {t}
      BY <1>5, <3>1 DEF Holders
    <3>3. free' = IF t \in Holders THEN free + 1 ELSE free
      BY <2>3 DEF Answered, Holders
    <3> QED BY <1>6, <3>2, <3>3, FS_RemoveElement DEF PermitsAccounted
  <2> QED BY <2>1, <2>2, <2>3
<1>8. free' \in 0..Permits
  <2>1. Holders' \in SUBSET Tasks
    BY DEF Holders
  <2>2. Cardinality(Holders') \in Nat
    BY <2>1, HoldersFinite
  <2> QED BY <1>6, <1>7, <2>2 DEF PermitsAccounted
<1>9. RegistryTypeOK'
  BY <1>2, <1>4, <1>8 DEF IInv, RegistryTypeOK
<1>10. UsedUnderItsKey'
  BY <1>2, <1>3, <1>4 DEF IInv, UsedUnderItsKey
<1>11. (LocalsBounded /\ RegisteredIsOpen /\ OneKeyEach /\ NoneIsLost)'
  BY <1>2 DEF IInv, LocalsBounded, RegisteredIsOpen, OneKeyEach, NoneIsLost, Bounded
<1>12. WaitersAreLocal'
  BY <1>1, <1>3 DEF IInv, WaitersAreLocal, Acquire, NotFound, Answered, Idle
<1> QED BY <1>7, <1>9, <1>10, <1>11, <1>12 DEF IInv

-----------------------------------------------------------------------------
(* Steps that change the registry or the clients. *)

\* Registering a new client keeps the bound on the local ones: at the bound a
\* local client gives way, unless there is none.
LEMMA InsertBounded ==
  ASSUME IInv, NEW k \in Keys, NEW W \in SUBSET Bounded, k \notin Registered,
         Registered' = (Registered \ W) \cup {k},
         \/ \E v \in Bounded : W = {v}
         \/ W = {} /\ (IsCloud(k) \/ Cardinality(Registered) < MaxInstances \/ Bounded = {})
  PROVE  LocalsBounded'
<1> DEFINE B == Bounded
           Old == Bounded \ W
<1>1. /\ IsFiniteSet(B) /\ Cardinality(B) \in Nat /\ Cardinality(B) <= MaxInstances
      /\ Cardinality(Registered) \in Nat /\ Cardinality(B) <= Cardinality(Registered)
      /\ MaxInstances \in Nat /\ MaxInstances >= 1
  BY RegisteredFinite, RegistryAssumption DEF IInv, LocalsBounded
<1>2. Bounded' = IF IsCloud(k) THEN Old ELSE Old \cup {k}
  BY DEF Bounded
<1>3. k \notin Old
  BY DEF Bounded
<1>4. IsFiniteSet(Old) /\ Cardinality(Old) \in Nat /\ Cardinality(Old) <= Cardinality(B)
  BY <1>1, FS_Subset, FS_CardinalityType
<1>5. Cardinality(Old \cup {k}) = Cardinality(Old) + 1
  BY <1>3, <1>4, FS_AddElement
<1>6. CASE IsCloud(k)
  BY <1>1, <1>2, <1>4, <1>6 DEF LocalsBounded
<1>7. CASE ~IsCloud(k) /\ \E v \in Bounded : W = {v}
  <2>1. PICK v \in Bounded : W = {v}
    BY <1>7
  <2>2. Cardinality(Old) = Cardinality(B) - 1
    BY <2>1, <1>1, FS_RemoveElement
  <2> QED BY <1>1, <1>2, <1>4, <1>5, <1>7, <2>2 DEF LocalsBounded
<1>8. CASE ~IsCloud(k) /\ W = {} /\ Cardinality(Registered) < MaxInstances
  <2>1. Old = B
    BY <1>8
  <2> QED BY <1>1, <1>2, <1>5, <1>8, <2>1 DEF LocalsBounded
<1>9. CASE ~IsCloud(k) /\ W = {} /\ Bounded = {}
  <2>1. Cardinality(Old) = 0
    BY <1>9, FS_EmptySet
  <2> QED BY <1>1, <1>2, <1>5, <1>9, <2>1 DEF LocalsBounded
<1> QED BY <1>6, <1>7, <1>8, <1>9

\* What a new client, registered in the place of the clients in W, does to the
\* rest of the invariant.
LEMMA InsertKeeps ==
  ASSUME IInv, NEW t \in Tasks, NEW k \in Keys, NEW c \in Clients, NEW W \in SUBSET Bounded,
         task[t] = Idle, k \notin Registered, client[c] = "unborn",
         Insert(k, c, W), Starts(t, k, c),
         client' \in [Clients -> ClientStates], client'[c] = "open",
         \A d \in Clients \ {c} :
           client'[d] = IF \E v \in W : registry[v] = d THEN "closing" ELSE client[d]
  PROVE  RegisteredIsOpen' /\ OneKeyEach' /\ NoneIsLost' /\ UsedUnderItsKey'
<1>1. W \in SUBSET Registered
  BY DEF Bounded
<1>2. /\ registry' \in [Keys -> Clients \cup {None}]
      /\ Registered' = (Registered \ W) \cup {k}
      /\ registry'[k] = c
      /\ \A r \in Registered \ W : registry'[r] = registry[r]
  BY <1>1, InsertEffect DEF IInv
<1>3. \A r \in Registered : registry[r] \in Clients /\ registry[r] # c /\ client[registry[r]] = "open"
  BY DEF IInv, RegistryTypeOK, RegisteredIsOpen, Registered
<1>4. \A r, q \in Registered : registry[r] = registry[q] => r = q
  BY DEF IInv, OneKeyEach
<1>5. \A r \in Registered \ W : client'[registry[r]] = "open"
  BY <1>1, <1>3, <1>4
<1>6. RegisteredIsOpen'
  BY <1>2, <1>5 DEF RegisteredIsOpen
<1>7. OneKeyEach'
  BY <1>2, <1>3, <1>4 DEF OneKeyEach
<1>8. NoneIsLost'
  <2> SUFFICES ASSUME NEW d \in Clients, client'[d] = "open"
               PROVE  \E r \in Registered' : registry'[r] = d
    BY DEF NoneIsLost
  <2>1. CASE d = c
    BY <1>2, <2>1
  <2>2. CASE d # c
    <3>1. client[d] = "open" /\ \A v \in W : registry[v] # d
      BY <2>2
    <3>2. PICK r \in Registered : registry[r] = d
      BY <3>1 DEF IInv, NoneIsLost
    <3> QED BY <1>2, <3>1, <3>2
  <2> QED BY <2>1, <2>2
<1>9. /\ task'[t].key = k /\ task'[t].uses = c
      /\ \A u \in Tasks \ {t} : task'[u] = task[u]
  BY StartsEffect
<1>10. UsedUnderItsKey'
  <2> SUFFICES ASSUME NEW u \in Tasks, task'[u] # Idle
               PROVE  /\ task'[u].key \in Keys /\ task'[u].uses \in Clients
                      /\ client'[task'[u].uses] # "unborn"
                      /\ \A r \in Registered' : registry'[r] = task'[u].uses => r = task'[u].key
    BY DEF UsedUnderItsKey
  <2>1. CASE u = t
    BY <1>2, <1>3, <1>9, <2>1
  <2>2. CASE u # t
    <3>1. /\ task'[u] = task[u] /\ task[u].key \in Keys /\ task[u].uses \in Clients
          /\ client[task[u].uses] # "unborn" /\ task[u].uses # c
          /\ \A r \in Registered : registry[r] = task[u].uses => r = task[u].key
      BY <1>9, <2>2 DEF IInv, UsedUnderItsKey
    <3> QED BY <1>2, <3>1
  <2> QED BY <2>1, <2>2
<1> QED BY <1>6, <1>7, <1>8, <1>10

LEMMA MissStep ==
  ASSUME IInv, NEW t \in Tasks, NEW k \in Keys, Miss(t, k)
  PROVE  IInv'
<1>1. PICK c \in Clients : client[c] = "unborn" /\ Put(k, c) /\ Starts(t, k, c)
  BY DEF Miss
<1>2. /\ task[t] = Idle /\ k \notin Registered
      /\ UNCHANGED <<sealed, pending, free, life>>
      /\ RegistryTypeOK
  BY DEF Miss, IInv
<1>3. /\ task' \in [Tasks -> [step: Steps, key: Keys \cup {None}, uses: Clients \cup {None}]]
      /\ task'[t].key = k /\ task'[t].uses = c
      /\ \A u \in Tasks \ {t} : task'[u] = task[u]
      /\ Holders' = Holders
      /\ WaitersAreLocal'
  BY <1>1, <1>2, StartsEffect
<1>4. PermitsAccounted'
  BY <1>2, <1>3 DEF IInv, PermitsAccounted
<1>5. client \in [Clients -> ClientStates] /\ "open" \in ClientStates /\ "closing" \in ClientStates
  BY DEF IInv, RegistryTypeOK, ClientStates
<1>6. \A r \in Registered : registry[r] \in Clients /\ registry[r] # c /\ client[registry[r]] = "open"
  BY <1>1 DEF IInv, RegistryTypeOK, RegisteredIsOpen, Registered
<1>7. CASE client' = [client EXCEPT ![c] = "closing"] /\ UNCHANGED <<registry, older>>
  <2>1. Registered' = Registered /\ Bounded' = Bounded
    BY <1>7 DEF Registered, Bounded
  <2>2. RegistryTypeOK'
    BY <1>2, <1>3, <1>5, <1>7 DEF RegistryTypeOK
  <2>3. client'[c] = "closing" /\ \A d \in Clients \ {c} : client'[d] = client[d]
    BY <1>5, <1>7
  <2>4. RegisteredIsOpen' /\ OneKeyEach' /\ LocalsBounded'
    BY <1>6, <1>7, <2>1, <2>3 DEF IInv, RegisteredIsOpen, OneKeyEach, LocalsBounded
  <2>5. NoneIsLost'
    BY <1>7, <2>1, <2>3 DEF IInv, NoneIsLost
  <2>6. UsedUnderItsKey'
    BY <1>3, <1>6, <1>7, <2>1, <2>3 DEF IInv, UsedUnderItsKey
  <2> QED BY <1>3, <1>4, <2>2, <2>4, <2>5, <2>6 DEF IInv
<1>8. ASSUME NEW W \in SUBSET Bounded, Insert(k, c, W),
             \/ \E v \in Bounded : W = {v}
             \/ W = {} /\ (IsCloud(k) \/ Cardinality(Registered) < MaxInstances \/ Bounded = {}),
             client' \in [Clients -> ClientStates], client'[c] = "open",
             \A d \in Clients \ {c} :
               client'[d] = IF \E v \in W : registry[v] = d THEN "closing" ELSE client[d]
      PROVE  IInv'
  <2>1. W \in SUBSET Registered
    BY DEF Bounded
  <2>2. /\ registry' \in [Keys -> Clients \cup {None}] /\ older' \subseteq Keys \X Keys
        /\ Registered' = (Registered \ W) \cup {k}
    BY <1>2, <1>8, <2>1, InsertEffect
  <2>3. LocalsBounded'
    BY <1>2, <1>8, <2>2, InsertBounded
  <2>4. RegisteredIsOpen' /\ OneKeyEach' /\ NoneIsLost' /\ UsedUnderItsKey'
    BY <1>1, <1>2, <1>8, InsertKeeps
  <2>5. RegistryTypeOK'
    BY <1>2, <1>3, <1>8, <2>2 DEF RegistryTypeOK
  <2> QED BY <1>3, <1>4, <2>3, <2>4, <2>5 DEF IInv
<1>9. CASE \E v \in Bounded : /\ Insert(k, c, {v})
                             /\ client' = [client EXCEPT ![c] = "open", ![registry[v]] = "closing"]
  <2>1. PICK v \in Bounded : /\ Insert(k, c, {v})
                             /\ client' = [client EXCEPT ![c] = "open", ![registry[v]] = "closing"]
    BY <1>9
  <2>2. registry[v] \in Clients /\ registry[v] # c
    BY <1>6 DEF Bounded
  <2>3. /\ client' \in [Clients -> ClientStates] /\ client'[c] = "open"
        /\ \A d \in Clients \ {c} :
             client'[d] = IF \E x \in {v} : registry[x] = d THEN "closing" ELSE client[d]
    BY <1>5, <2>1, <2>2
  <2> QED BY <1>8, <2>1, <2>3
<1>10. CASE /\ IsCloud(k) \/ Cardinality(Registered) < MaxInstances \/ Bounded = {}
            /\ Insert(k, c, {}) /\ client' = [client EXCEPT ![c] = "open"]
  <2>1. /\ client' \in [Clients -> ClientStates] /\ client'[c] = "open"
        /\ \A d \in Clients \ {c} :
             client'[d] = IF \E x \in {} : registry[x] = d THEN "closing" ELSE client[d]
    BY <1>5, <1>10
  <2> QED BY <1>8, <1>10, <2>1
<1> QED BY <1>1, <1>2, <1>7, <1>9, <1>10, PutCases

\* The task of a close touches no client that is open.
LEMMA CloseStep ==
  ASSUME IInv, NEW c \in Clients, Close(c)
  PROVE  IInv'
<1>1. /\ client \in [Clients -> ClientStates] /\ client[c] = "closing"
      /\ client' = [client EXCEPT ![c] = "closed"]
      /\ UNCHANGED <<registry, older, sealed, pending, task, free, life>>
      /\ Registered' = Registered /\ Holders' = Holders
  BY DEF IInv, RegistryTypeOK, Close, Registered, Holders
<1>2. client' \in [Clients -> ClientStates]
  BY <1>1 DEF ClientStates
<1>3. \A d \in Clients : /\ client'[d] = "open" <=> client[d] = "open"
                         /\ client[d] # "unborn" => client'[d] # "unborn"
  BY <1>1
<1>4. \A k \in Registered : registry[k] \in Clients
  BY DEF IInv, RegistryTypeOK, Registered
<1>5. RegistryTypeOK' /\ PermitsAccounted' /\ LocalsBounded' /\ OneKeyEach' /\ WaitersAreLocal'
  BY <1>1, <1>2 DEF IInv, RegistryTypeOK, PermitsAccounted, LocalsBounded, Bounded, OneKeyEach,
                    WaitersAreLocal
<1>6. RegisteredIsOpen' /\ NoneIsLost' /\ UsedUnderItsKey'
  BY <1>1, <1>3, <1>4 DEF IInv, RegisteredIsOpen, NoneIsLost, UsedUnderItsKey
<1> QED BY <1>5, <1>6 DEF IInv

\* A drain leaves no client open: those that were, were registered.
LEMMA DrainStep ==
  ASSUME IInv, ClearModelCaches \/ Seal
  PROVE  IInv'
<1>1. /\ registry' = [k \in Keys |-> None] /\ older' = {}
      /\ UNCHANGED <<task, free>> /\ Holders' = Holders
      /\ sealed' \in BOOLEAN /\ life' \in {"up", "pools closed", "drained", "down"}
  BY DEF IInv, RegistryTypeOK, ClearModelCaches, Seal, Holders
<1>2. pending' \subseteq Clients
  <2>1. pending \subseteq Clients /\ \A k \in Registered : registry[k] \in Clients
    BY DEF IInv, RegistryTypeOK, Registered
  <2>2. CASE ClearModelCaches
    BY <2>1, <2>2 DEF ClearModelCaches
  <2>3. CASE Seal
    BY <2>1, <2>3 DEF Seal
  <2> QED BY <2>2, <2>3
<1>3. Registered' = {}
  BY <1>1 DEF Registered
<1>4. /\ client' \in [Clients -> ClientStates]
      /\ \A d \in Clients : /\ client'[d] # "open"
                            /\ client[d] # "unborn" => client'[d] # "unborn"
  <2>1. \A d \in Clients : client[d] = "open" => \E k \in Registered : registry[k] = d
    BY DEF IInv, NoneIsLost
  <2>2. client \in [Clients -> ClientStates]
    BY DEF IInv, RegistryTypeOK
  <2>3. CASE ClearModelCaches
    BY <2>1, <2>2, <2>3 DEF ClearModelCaches, ClientStates
  <2>4. CASE Seal
    BY <2>1, <2>2, <2>4 DEF Seal, Drained, ClientStates
  <2> QED BY <2>3, <2>4
<1>5. LocalsBounded'
  <2>1. Bounded' = {}
    BY <1>3 DEF Bounded
  <2> QED BY <2>1, FS_EmptySet, RegistryAssumption DEF LocalsBounded
<1>6. RegistryTypeOK' /\ PermitsAccounted' /\ WaitersAreLocal'
  BY <1>1, <1>2, <1>4, RegistryAssumption DEF IInv, RegistryTypeOK, PermitsAccounted, WaitersAreLocal
<1>7. RegisteredIsOpen' /\ OneKeyEach' /\ NoneIsLost' /\ UsedUnderItsKey'
  BY <1>1, <1>3, <1>4 DEF IInv, RegisteredIsOpen, OneKeyEach, NoneIsLost, UsedUnderItsKey
<1> QED BY <1>5, <1>6, <1>7 DEF IInv

\* The other steps change neither.
LEMMA LifeStep ==
  ASSUME IInv, \/ ClosePools \/ Stop \/ UNCHANGED vars
  PROVE  IInv'
<1>1. UNCHANGED <<registry, older, sealed, client, pending, task, free>>
  BY DEF ClosePools, Stop, vars
<1>2. life' \in {"up", "pools closed", "drained", "down"}
  BY DEF ClosePools, Stop, vars, IInv, RegistryTypeOK
<1>3. Registered' = Registered /\ Bounded' = Bounded /\ Holders' = Holders
  BY <1>1 DEF Registered, Bounded, Holders
<1> QED BY <1>1, <1>2, <1>3 DEF IInv, RegistryTypeOK, PermitsAccounted, LocalsBounded,
        RegisteredIsOpen, OneKeyEach, NoneIsLost, UsedUnderItsKey, WaitersAreLocal

-----------------------------------------------------------------------------
(* Theorems *)

THEOREM RegistryInvariant == Spec => []IInv
<1>1. Init => IInv
  <2> SUFFICES ASSUME Init PROVE IInv
    OBVIOUS
  <2>1. Registered = {} /\ Bounded = {} /\ Holders = {}
    BY DEF Init, Registered, Bounded, Holders, Idle
  <2>2. Cardinality({}) = 0
    BY FS_EmptySet
  <2>3. RegistryTypeOK
    <3>1. None \in Keys \cup {None} /\ None \in Clients \cup {None} /\ Idle \in [step: Steps, key: Keys \cup {None}, uses: Clients \cup {None}]
      BY DEF Idle, Steps
    <3>2. Permits \in 0..Permits
      BY RegistryAssumption
    <3>3. /\ registry \in [Keys -> Clients \cup {None}] /\ client \in [Clients -> ClientStates]
          /\ task \in [Tasks -> [step: Steps, key: Keys \cup {None}, uses: Clients \cup {None}]]
      BY <3>1 DEF Init, ClientStates
    <3> QED BY <3>2, <3>3 DEF Init, RegistryTypeOK
  <2>4. PermitsAccounted /\ LocalsBounded
    BY <2>1, <2>2, RegistryAssumption DEF Init, PermitsAccounted, LocalsBounded
  <2>5. RegisteredIsOpen /\ OneKeyEach /\ NoneIsLost /\ UsedUnderItsKey /\ WaitersAreLocal
    BY <2>1 DEF Init, RegisteredIsOpen, OneKeyEach, NoneIsLost, UsedUnderItsKey, WaitersAreLocal, Idle
  <2> QED BY <2>3, <2>4, <2>5 DEF IInv
<1>2. IInv /\ [Next]_vars => IInv'
  BY HitStep, MissStep, CallStep, CloseStep, DrainStep, LifeStep DEF Next
<1> QED BY <1>1, <1>2, PTL DEF Spec

\* Types, for any models, callers and permits.
THEOREM RegistryTypes == Spec => []RegistryTypeOK
<1>1. IInv => RegistryTypeOK
  BY DEF IInv
<1> QED BY <1>1, RegistryInvariant, PTL

\* However many models callers name, at most MaxInstances clients that count
\* against the memory of the host are registered.
THEOREM LocalsStayBounded == Spec => []LocalsBounded
<1>1. IInv => LocalsBounded
  BY DEF IInv
<1> QED BY <1>1, RegistryInvariant, PTL

\* No open client is ever dropped from the registry unclosed.
THEOREM NoClientIsLost == Spec => []NoneIsLost
<1>1. IInv => NoneIsLost
  BY DEF IInv
<1> QED BY <1>1, RegistryInvariant, PTL

\* A billed generation call in flight loses its client to a drain alone.
THEOREM CloudCallsAreUncut == Spec => CloudCallsUncut
<1>1. IInv /\ [Next]_vars => [CutsNoCloudCall]_vars
  <2> SUFFICES ASSUME IInv, [Next]_vars, NEW t \in Tasks,
                      task[t].step = "posting", IsCloud(task[t].key),
                      client[task[t].uses] = "open", registry' # [k \in Keys |-> None]
               PROVE  client'[task[t].uses] = "open"
    BY DEF CutsNoCloudCall
  <2> DEFINE d == task[t].uses
  <2>1. task[t] # Idle
    BY DEF Idle
  <2>2. /\ d \in Clients
        /\ \A k \in Registered : registry[k] = d => IsCloud(k)
    BY <2>1 DEF IInv, UsedUnderItsKey
  <2>3. client \in [Clients -> ClientStates]
    BY DEF IInv, RegistryTypeOK
  <2>4. CASE \E u \in Tasks, k \in Keys : Miss(u, k)
    <3>1. PICK k \in Keys, c \in Clients : client[c] = "unborn" /\ Put(k, c)
      BY <2>4 DEF Miss
    <3>2. d # c
      BY <3>1
    <3>3. \A v \in Bounded : registry[v] # d
      BY <2>2 DEF Bounded
    <3>4. \/ client' = [client EXCEPT ![c] = "closing"]
          \/ client' = [client EXCEPT ![c] = "open"]
          \/ \E v \in Bounded : client' = [client EXCEPT ![c] = "open", ![registry[v]] = "closing"]
      BY <3>1, PutCases
    <3> QED BY <2>2, <2>3, <3>2, <3>3, <3>4
  <2>5. CASE \E c \in Clients : Close(c)
    BY <2>2, <2>3, <2>5 DEF Close
  <2>6. CASE ClearModelCaches \/ Seal
    BY <2>6 DEF ClearModelCaches, Seal
  <2>7. CASE UNCHANGED client
    BY <2>7
  <2>8. \/ \E u \in Tasks, k \in Keys : Miss(u, k)
        \/ \E c \in Clients : Close(c)
        \/ ClearModelCaches \/ Seal
        \/ UNCHANGED client
    BY DEF Next, vars, Hit, Acquire, NotFound, Answered, ClosePools, Stop
  <2> QED BY <2>4, <2>5, <2>6, <2>7, <2>8
<1> QED BY <1>1, RegistryInvariant, PTL DEF Spec, CloudCallsUncut

-----------------------------------------------------------------------------
(* The models on offer (module ModelDiscovery).                            *)


\* Whatever is in memory or on its way there was once on the disk.
EverythingOnce ==
  \A p \in Providers :
    /\ installed[p] \subseteq once[p] /\ serving[p] \subseteq once[p]
    /\ seed.found[p] \subseteq once[p]
    /\ \A t \in Polls : poll[t] # NoPoll /\ poll[t].of = p => poll[t].lists \subseteq once[p]

\* What a check would read now, after its first and after its second step.
DiskNow == [p \in Providers |-> OnDisk(p)]
OfferNow == [p \in Providers |-> Servable(p)]

\* A check that nothing overtook has read what is there now.
FreshIsTrue ==
  \A t \in Polls : poll[t] # NoPoll /\ poll[t].fresh =>
    poll[t].lists = IF poll[t].step = "disk" THEN DiskNow[poll[t].of] ELSE OfferNow[poll[t].of]

DiscoveryInv == DiscoveryTypeOK /\ OfferedOnceInstalled /\ EverythingOnce /\ FreshIsTrue

-----------------------------------------------------------------------------
LEMMA MergeIsWithin ==
  ASSUME NEW bucket, NEW models, NEW replace, NEW S,
         bucket \subseteq S \ Embeddings, models \subseteq S
  PROVE  Merge(bucket, models, replace) \subseteq S \ Embeddings
  BY DEF Merge, Generative

LEMMA MergeKeepsSomething ==
  ASSUME NEW bucket, NEW models, NEW replace, bucket # {}
  PROVE  Merge(bucket, models, replace) # {}
  BY DEF Merge

LEMMA OfferIsWithin ==
  ASSUME NEW p, NEW disk, NEW listed, NEW S, disk \subseteq S, listed \subseteq S
  PROVE  Offer(p, disk, listed) \subseteq S \ Embeddings
  BY DEF Offer, Generative

\* What is to be read depends on the host alone.
LEMMA HostDecides ==
  ASSUME UNCHANGED host
  PROVE  UNCHANGED <<DiskNow, OfferNow>>
  BY DEF host, DiskNow, OfferNow, OnDisk, Servable, Listed, Offer, Generative

LEMMA FaultsBounded ==
  ASSUME DiscoveryInv, Fault \/ UNCHANGED faults
  PROVE  faults' \in 0..MaxFaults
  BY DiscoveryAssumption DEF Fault, DiscoveryInv, DiscoveryTypeOK

\* What a host lists was on its disk.
LEMMA ListsAreOnce ==
  ASSUME DiscoveryInv, NEW p \in Providers
  PROVE  OnDisk(p) \subseteq once[p] /\ Listed(p) \subseteq once[p]
  BY DEF DiscoveryInv, EverythingOnce, OnDisk, Listed

-----------------------------------------------------------------------------
(* The host. *)

\* A change at one provider: its checks are overtaken, nothing else of the
\* host or of memory moves.
LEMMA ChangeStep ==
  ASSUME DiscoveryInv, NEW p \in Providers, Change(p),
         installed' \in Lists, serving' \in Lists, up' \in [Providers -> BOOLEAN],
         serving'[p] \subseteq once[p] \cup installed'[p],
         \A q \in Providers \ {p} :
           installed'[q] = installed[q] /\ serving'[q] = serving[q] /\ up'[q] = up[q]
  PROVE  DiscoveryInv'
<1>1. once' = [once EXCEPT ![p] = @ \cup installed'[p]]
      /\ UNCHANGED <<discovered, snapshot, seed, faults>> /\ changes' \in 0..MaxChanges
  BY DiscoveryAssumption DEF Change, DiscoveryInv, DiscoveryTypeOK
<1>2. once' \in Lists /\ \A q \in Providers : once[q] \subseteq once'[q]
  BY <1>1 DEF DiscoveryInv, DiscoveryTypeOK, Lists
<1>3. installed'[p] \subseteq once'[p] /\ serving'[p] \subseteq once'[p]
  BY <1>1 DEF DiscoveryInv, DiscoveryTypeOK, Lists
<1>4. poll' = [t \in Polls |-> IF poll[t].step # "idle" /\ poll[t].of = p
                               THEN [poll[t] EXCEPT !.fresh = FALSE] ELSE poll[t]]
  BY DEF Change, Overtake
<1>5. \A t \in Polls : poll[t] \in {NoPoll} \cup Busy
  BY DEF DiscoveryInv, DiscoveryTypeOK
<1>6. \A t \in Polls :
        \/ poll'[t] = poll[t] /\ (poll[t] = NoPoll \/ poll[t].of # p)
        \/ /\ poll[t] \in Busy /\ poll[t].of = p
           /\ poll'[t] = [poll[t] EXCEPT !.fresh = FALSE]
  BY <1>4, <1>5 DEF NoPoll, Busy
<1>7. \A t \in Polls : poll[t] \in Busy =>
        LET b == [poll[t] EXCEPT !.fresh = FALSE]
        IN b \in Busy /\ b.of = poll[t].of /\ b.lists = poll[t].lists /\ ~b.fresh /\ b # NoPoll
  BY DEF Busy, NoPoll
<1>8. poll' \in [Polls -> {NoPoll} \cup Busy]
  BY <1>4, <1>5, <1>6, <1>7
<1>9. DiscoveryTypeOK'
  BY <1>1, <1>2, <1>8 DEF DiscoveryInv, DiscoveryTypeOK
<1>10. OfferedOnceInstalled'
  BY <1>1, <1>2 DEF DiscoveryInv, OfferedOnceInstalled
<1>11. EverythingOnce'
  <2> SUFFICES ASSUME NEW q \in Providers
               PROVE  /\ installed'[q] \subseteq once'[q] /\ serving'[q] \subseteq once'[q]
                      /\ seed'.found[q] \subseteq once'[q]
                      /\ \A t \in Polls : poll'[t] # NoPoll /\ poll'[t].of = q
                           => poll'[t].lists \subseteq once'[q]
    BY DEF EverythingOnce
  <2>1. installed'[q] \subseteq once'[q] /\ serving'[q] \subseteq once'[q]
    BY <1>2, <1>3 DEF DiscoveryInv, EverythingOnce
  <2>2. seed'.found[q] \subseteq once'[q]
    BY <1>1, <1>2 DEF DiscoveryInv, EverythingOnce
  <2>3. ASSUME NEW t \in Polls, poll'[t] # NoPoll, poll'[t].of = q
        PROVE  poll'[t].lists \subseteq once'[q]
    <3>1. CASE poll'[t] = poll[t]
      BY <1>2, <2>3, <3>1 DEF DiscoveryInv, EverythingOnce
    <3>2. CASE poll[t] \in Busy /\ poll'[t] = [poll[t] EXCEPT !.fresh = FALSE]
      <4>1. poll'[t].of = poll[t].of /\ poll'[t].lists = poll[t].lists
        BY <3>2 DEF Busy
      <4>2. poll[t] # NoPoll
        BY <3>2 DEF Busy, NoPoll
      <4> QED BY <1>2, <2>3, <4>1, <4>2 DEF DiscoveryInv, EverythingOnce
    <3> QED BY <1>6, <3>1, <3>2
  <2> QED BY <2>1, <2>2, <2>3
<1>12. FreshIsTrue'
  <2> SUFFICES ASSUME NEW t \in Polls, poll'[t] # NoPoll, poll'[t].fresh
               PROVE  poll'[t].lists = IF poll'[t].step = "disk"
                        THEN DiskNow'[poll'[t].of] ELSE OfferNow'[poll'[t].of]
    BY DEF FreshIsTrue
  <2>1. poll'[t] = poll[t] /\ poll[t] # NoPoll /\ poll[t].of # p
    BY <1>6, <1>7
  <2>2. poll[t].of \in Providers
    BY <1>5, <2>1 DEF Busy
  <2>3. \A q \in Providers \ {p} : DiskNow'[q] = DiskNow[q] /\ OfferNow'[q] = OfferNow[q]
    BY DEF DiskNow, OfferNow, OnDisk, Servable, Listed, Offer, Generative
  <2> QED BY <2>1, <2>2, <2>3 DEF DiscoveryInv, FreshIsTrue
<1> QED BY <1>9, <1>10, <1>11, <1>12 DEF DiscoveryInv

LEMMA HostStep ==
  ASSUME DiscoveryInv, NEW p \in Providers,
         Quit(p) \/ \E m \in Models : Install(p, m) \/ Remove(p, m) \/ Serve(p, m)
  PROVE  DiscoveryInv'
<1>0. installed \in Lists /\ serving \in Lists /\ up \in [Providers -> BOOLEAN]
  BY DEF DiscoveryInv, DiscoveryTypeOK
<1>1. serving[p] \subseteq once[p] /\ installed[p] \subseteq once[p]
  BY DEF DiscoveryInv, EverythingOnce
<1>2. CASE Quit(p)
  <2>1. PICK others \in SUBSET serving[p] :
          /\ serving' = [serving EXCEPT ![p] = others]
          /\ up' = [up EXCEPT ![p] = others # {}]
    BY <1>2 DEF Quit
  <2>2. others \in SUBSET Models /\ (others # {}) \in BOOLEAN
    BY <1>0, <2>1 DEF Lists
  <2>3. installed' = installed /\ Change(p)
    BY <1>2 DEF Quit
  <2>4. serving' \in Lists /\ up' \in [Providers -> BOOLEAN] /\ serving'[p] = others
    BY <1>0, <2>1, <2>2 DEF Lists
  <2>5. \A q \in Providers : q # p => serving'[q] = serving[q] /\ up'[q] = up[q]
    BY <1>0, <2>1 DEF Lists
  <2> QED BY <1>0, <1>1, <2>1, <2>3, <2>4, <2>5, ChangeStep
<1>3. ASSUME NEW m \in Models, Install(p, m) PROVE DiscoveryInv'
  BY <1>0, <1>1, <1>3, ChangeStep DEF Install, Lists
<1>4. ASSUME NEW m \in Models, Remove(p, m) PROVE DiscoveryInv'
  BY <1>0, <1>1, <1>4, ChangeStep DEF Remove, Lists
<1>5. ASSUME NEW m \in Models, Serve(p, m) PROVE DiscoveryInv'
  <2>1. PICK others \in {{}, serving[p]} :
          serving' = [serving EXCEPT ![p] = IF p \in Loaded THEN others \cup {m} ELSE {}]
    BY <1>5 DEF Serve
  <2> DEFINE served == IF p \in Loaded THEN others \cup {m} ELSE {}
  <2>2. served \in SUBSET Models /\ served \subseteq once[p]
    BY <1>0, <1>1, <1>5, <2>1 DEF Lists, Serve
  <2>3. installed' = installed /\ up' = [up EXCEPT ![p] = TRUE] /\ Change(p)
    BY <1>5 DEF Serve
  <2> HIDE DEF served
  <2>4. serving' = [serving EXCEPT ![p] = served]
    BY <2>1 DEF served
  <2>5. serving' \in Lists /\ up' \in [Providers -> BOOLEAN] /\ serving'[p] = served
    BY <1>0, <2>2, <2>3, <2>4 DEF Lists
  <2>6. \A q \in Providers : q # p => serving'[q] = serving[q] /\ up'[q] = up[q]
    BY <1>0, <2>3, <2>4 DEF Lists
  <2> QED BY <1>0, <1>1, <2>2, <2>3, <2>5, <2>6, ChangeStep
<1> QED BY <1>2, <1>3, <1>4, <1>5

-----------------------------------------------------------------------------
(* The checks. *)

\* One check moves on; the host and the seeding do not.
LEMMA OneCheck ==
  ASSUME DiscoveryInv, NEW t \in Polls, NEW b \in {NoPoll} \cup Busy,
         poll' = [poll EXCEPT ![t] = b], UNCHANGED <<host, seed, snapshot, once, changes>>,
         faults' \in 0..MaxFaults,
         discovered' \in [Providers -> SUBSET (Models \ Embeddings)],
         \A p \in Providers : discovered'[p] \subseteq once[p] \ Embeddings,
         b # NoPoll => /\ b.lists \subseteq once[b.of]
                       /\ b.fresh => b.lists = IF b.step = "disk" THEN DiskNow[b.of]
                                               ELSE OfferNow[b.of]
  PROVE  DiscoveryInv'
<1>1. poll \in [Polls -> {NoPoll} \cup Busy]
  BY DEF DiscoveryInv, DiscoveryTypeOK
<1>2. poll'[t] = b /\ \A s \in Polls : s # t => poll'[s] = poll[s]
  BY <1>1
<1>3. DiscoveryTypeOK'
  BY <1>1 DEF DiscoveryInv, DiscoveryTypeOK, host
<1>4. OfferedOnceInstalled'
  BY DEF DiscoveryInv, OfferedOnceInstalled
<1>5. EverythingOnce'
  BY <1>2 DEF DiscoveryInv, EverythingOnce, host
<1>6. UNCHANGED <<DiskNow, OfferNow>>
  BY HostDecides
<1>7. FreshIsTrue'
  <2> SUFFICES ASSUME NEW s \in Polls, poll'[s] # NoPoll, poll'[s].fresh
               PROVE  poll'[s].lists = IF poll'[s].step = "disk"
                        THEN DiskNow'[poll'[s].of] ELSE OfferNow'[poll'[s].of]
    BY DEF FreshIsTrue
  <2>1. CASE s = t
    BY <1>2, <1>6, <2>1
  <2>2. CASE s # t
    BY <1>2, <1>6, <2>2 DEF DiscoveryInv, FreshIsTrue
  <2> QED BY <2>1, <2>2
<1> QED BY <1>3, <1>4, <1>5, <1>7 DEF DiscoveryInv

LEMMA PollDiskStep ==
  ASSUME DiscoveryInv, NEW t \in Polls, NEW p \in Providers, PollDisk(t, p)
  PROVE  DiscoveryInv'
<1>1. OnDisk(p) \subseteq once[p] /\ OnDisk(p) \in SUBSET Models
  BY ListsAreOnce DEF DiscoveryInv, DiscoveryTypeOK, Lists
<1>2. faults' \in 0..MaxFaults
  BY FaultsBounded DEF PollDisk
<1>3. discovered' \in [Providers -> SUBSET (Models \ Embeddings)]
      /\ \A q \in Providers : discovered'[q] \subseteq once[q] \ Embeddings
  BY DEF PollDisk, DiscoveryInv, DiscoveryTypeOK, OfferedOnceInstalled
<1>4. PICK lists \in {OnDisk(p), OnDisk(p) \cap HubOnly[p]}, fresh \in BOOLEAN :
        /\ poll' = [poll EXCEPT ![t] =
             [step |-> "disk", of |-> p, lists |-> lists, fresh |-> fresh]]
        /\ fresh => lists = OnDisk(p)
  BY DEF PollDisk
<1> DEFINE b == [step |-> "disk", of |-> p, lists |-> lists, fresh |-> fresh]
<1>5. b \in Busy /\ b.lists \subseteq once[b.of] /\ (b.fresh => b.lists = DiskNow[b.of])
  BY <1>1, <1>4 DEF Busy, DiskNow
<1>6. UNCHANGED <<host, seed, snapshot, once, changes>>
  BY DEF PollDisk
<1> QED BY <1>2, <1>3, <1>4, <1>5, <1>6, OneCheck

LEMMA PollServerStep ==
  ASSUME DiscoveryInv, NEW t \in Polls, PollServer(t)
  PROVE  DiscoveryInv'
<1> DEFINE p == poll[t].of
<1>1. poll[t] \in Busy /\ poll[t] # NoPoll
  BY DEF PollServer, DiscoveryInv, DiscoveryTypeOK, NoPoll
<1>2. p \in Providers /\ poll[t].lists \subseteq once[p]
  BY <1>1 DEF Busy, DiscoveryInv, EverythingOnce
<1>3. PICK listed \in SUBSET Listed(p), fresh \in BOOLEAN :
        /\ poll' = [poll EXCEPT ![t] = [step |-> "server", of |-> p,
                      lists |-> Offer(p, poll[t].lists, listed), fresh |-> fresh]]
        /\ fresh => poll[t].fresh /\ listed = Listed(p)
  <2>1. poll[t].fresh \in BOOLEAN
    BY <1>1 DEF Busy
  <2>2. CASE Heard(t, Listed(p), poll[t].fresh)
    BY <2>1, <2>2 DEF Heard
  <2>3. ASSUME NEW part \in SUBSET Listed(p), Heard(t, part, FALSE)
        PROVE  /\ poll' = [poll EXCEPT ![t] = [step |-> "server", of |-> p,
                             lists |-> Offer(p, poll[t].lists, part), fresh |-> FALSE]]
               /\ part \in SUBSET Listed(p)
    BY <2>3 DEF Heard
  <2> QED BY <2>2, <2>3 DEF PollServer
<1> DEFINE b == [step |-> "server", of |-> p, lists |-> Offer(p, poll[t].lists, listed),
                 fresh |-> fresh]
<1>4. Listed(p) \subseteq once[p] /\ once[p] \subseteq Models
  BY <1>2, ListsAreOnce DEF DiscoveryInv, DiscoveryTypeOK, Lists
<1>5. Offer(p, poll[t].lists, listed) \subseteq once[p]
  BY <1>2, <1>4, OfferIsWithin
<1>6. b \in Busy /\ b.lists \subseteq once[b.of]
  BY <1>2, <1>4, <1>5 DEF Busy
<1>7. b.fresh => b.lists = OfferNow[b.of]
  <2> SUFFICES ASSUME fresh PROVE Offer(p, poll[t].lists, listed) = Servable(p)
    BY <1>2 DEF OfferNow
  <2>1. poll[t].lists = OnDisk(p) /\ listed = Listed(p)
    BY <1>1, <1>2, <1>3 DEF DiscoveryInv, FreshIsTrue, PollServer, DiskNow
  <2> QED BY <2>1 DEF Servable
<1>8. faults' \in 0..MaxFaults
  BY FaultsBounded DEF PollServer
<1>9. /\ UNCHANGED <<host, seed, snapshot, once, changes>>
      /\ discovered' \in [Providers -> SUBSET (Models \ Embeddings)]
      /\ \A q \in Providers : discovered'[q] \subseteq once[q] \ Embeddings
  BY DEF PollServer, DiscoveryInv, DiscoveryTypeOK, OfferedOnceInstalled
<1> QED BY <1>3, <1>6, <1>7, <1>8, <1>9, OneCheck

LEMMA PollEndStep ==
  ASSUME DiscoveryInv, NEW t \in Polls, PollBreaks(t) \/ PollMerge(t)
  PROVE  DiscoveryInv'
<1>1. poll[t] \in Busy /\ poll[t] # NoPoll
  <2>1. poll[t].step \in {"disk", "server"}
    BY DEF PollBreaks, PollMerge
  <2> QED BY <2>1 DEF DiscoveryInv, DiscoveryTypeOK, NoPoll
<1>2. poll[t].of \in Providers /\ poll[t].lists \subseteq once[poll[t].of]
  BY <1>1 DEF Busy, DiscoveryInv, EverythingOnce
<1>3. faults' \in 0..MaxFaults
  BY FaultsBounded DEF PollBreaks, PollMerge
<1>4. /\ discovered' \in [Providers -> SUBSET (Models \ Embeddings)]
      /\ \A q \in Providers : discovered'[q] \subseteq once[q] \ Embeddings
  <2>1. CASE PollBreaks(t)
    BY <2>1 DEF PollBreaks, DiscoveryInv, DiscoveryTypeOK, OfferedOnceInstalled
  <2>2. CASE PollMerge(t)
    <3> DEFINE p == poll[t].of
               new == Merge(discovered[p], poll[t].lists, TRUE)
    <3>1. discovered' = [discovered EXCEPT ![p] = new]
      BY <2>2 DEF PollMerge
    <3>2. discovered[p] \subseteq once[p] \ Embeddings
      BY <1>2 DEF DiscoveryInv, OfferedOnceInstalled
    <3>3. new \subseteq once[p] \ Embeddings
      BY <1>2, <3>2, MergeIsWithin
    <3>4. once[p] \subseteq Models
      BY <1>2 DEF DiscoveryInv, DiscoveryTypeOK, Lists
    <3> QED BY <1>2, <3>1, <3>3, <3>4 DEF DiscoveryInv, DiscoveryTypeOK, OfferedOnceInstalled
  <2> QED BY <2>1, <2>2
<1>5. poll' = [poll EXCEPT ![t] = NoPoll] /\ UNCHANGED <<host, seed, snapshot, once, changes>>
  BY DEF PollBreaks, PollMerge
<1> QED BY <1>3, <1>4, <1>5, OneCheck

-----------------------------------------------------------------------------
(* The seeding and the restart. *)

LEMMA SeedDiskStep ==
  ASSUME DiscoveryInv, NEW p \in Providers, SeedDisk(p)
  PROVE  DiscoveryInv'
<1>1. OnDisk(p) \subseteq once[p] /\ once \in Lists
  BY ListsAreOnce DEF DiscoveryInv, DiscoveryTypeOK
<1> DEFINE found == [seed.found EXCEPT ![p] = OnDisk(p) \ HubOnly[p]]
<1>0. seed.found \in Lists /\ seed \in [left: SUBSET Providers, found: Lists, over: BOOLEAN]
      /\ \A q \in Providers : seed.found[q] \subseteq once[q]
  BY DEF DiscoveryInv, DiscoveryTypeOK, EverythingOnce
<1>a. found \in Lists /\ \A q \in Providers : found[q] \subseteq once[q]
  BY <1>0, <1>1 DEF Lists
<1>b. seed' = [seed EXCEPT !.left = @ \ {p}, !.found[p] = OnDisk(p) \ HubOnly[p]]
      \/ seed' = [seed EXCEPT !.left = @ \ {p}]
  BY DEF SeedDisk
<1>c. seed'.found \in {found, seed.found}
      /\ seed' \in [left: SUBSET Providers, found: {found, seed.found}, over: BOOLEAN]
  BY <1>0, <1>b
<1>2. seed'.found \in Lists /\ \A q \in Providers : seed'.found[q] \subseteq once[q]
  BY <1>0, <1>a, <1>c
<1>3. seed' \in [left: SUBSET Providers, found: Lists, over: BOOLEAN]
  <2> HIDE DEF found
  <2> QED BY <1>0, <1>a, <1>c
<1>4. UNCHANGED <<host, discovered, snapshot, poll, once, changes>> /\ faults' \in 0..MaxFaults
  BY FaultsBounded DEF SeedDisk
<1>5. DiscoveryTypeOK'
  BY <1>3, <1>4 DEF DiscoveryInv, DiscoveryTypeOK, host
<1>6. OfferedOnceInstalled' /\ EverythingOnce'
  BY <1>2, <1>4 DEF DiscoveryInv, OfferedOnceInstalled, EverythingOnce, host
<1>7. FreshIsTrue'
  BY <1>4, HostDecides DEF DiscoveryInv, FreshIsTrue
<1> QED BY <1>5, <1>6, <1>7 DEF DiscoveryInv

\* Memory and snapshot take what was once installed, the seeding starts anew or
\* is over.
LEMMA RefilledStep ==
  ASSUME DiscoveryInv, UNCHANGED <<host, once, changes>>, faults' \in 0..MaxFaults,
         discovered' \in [Providers -> SUBSET (Models \ Embeddings)],
         snapshot' \in [Providers -> SUBSET (Models \ Embeddings)],
         \A p \in Providers : discovered'[p] \cup snapshot'[p] \subseteq once[p] \ Embeddings,
         seed' \in [left: SUBSET Providers, found: {Nothing}, over: BOOLEAN],
         poll' = poll \/ poll' = [t \in Polls |-> NoPoll]
  PROVE  DiscoveryInv'
<1>1. Nothing \in Lists
  BY DEF Nothing, Lists
<1>2. DiscoveryTypeOK'
  BY <1>1 DEF DiscoveryInv, DiscoveryTypeOK, host
<1>3. OfferedOnceInstalled'
  BY DEF OfferedOnceInstalled
<1>4. \A p \in Providers : seed'.found[p] = {}
  BY DEF Nothing
<1>5. EverythingOnce'
  BY <1>4 DEF DiscoveryInv, EverythingOnce, host
<1>6. FreshIsTrue'
  BY HostDecides DEF DiscoveryInv, FreshIsTrue, NoPoll
<1> QED BY <1>2, <1>3, <1>5, <1>6 DEF DiscoveryInv

LEMMA SeedMergeStep ==
  ASSUME DiscoveryInv, SeedMerge
  PROVE  DiscoveryInv'
<1>1. \A p \in Providers :
        /\ discovered[p] \subseteq once[p] \ Embeddings /\ snapshot[p] \subseteq once[p] \ Embeddings
        /\ seed.found[p] \subseteq once[p] /\ once[p] \subseteq Models
  BY DEF DiscoveryInv, OfferedOnceInstalled, EverythingOnce, DiscoveryTypeOK, Lists
<1>2. discovered' = [p \in Providers |-> Merge(discovered[p], seed.found[p], FALSE)]
  BY DEF SeedMerge
<1>3. \A p \in Providers : discovered'[p] \subseteq once[p] \ Embeddings
  BY <1>1, <1>2, MergeIsWithin
<1>4. discovered' \in [Providers -> SUBSET (Models \ Embeddings)]
  BY <1>1, <1>2, <1>3
<1>5. snapshot' = discovered' \/ snapshot' = snapshot
  BY DEF SeedMerge
<1>6. /\ snapshot' \in [Providers -> SUBSET (Models \ Embeddings)]
      /\ \A p \in Providers : snapshot'[p] \subseteq once[p] \ Embeddings
  BY <1>1, <1>3, <1>4, <1>5 DEF DiscoveryInv, DiscoveryTypeOK
<1>7. seed' \in [left: SUBSET Providers, found: {Nothing}, over: BOOLEAN]
  BY DEF SeedMerge, DiscoveryInv, DiscoveryTypeOK
<1>8. UNCHANGED <<host, poll, once, changes>> /\ faults' \in 0..MaxFaults
  BY FaultsBounded DEF SeedMerge
<1> QED BY <1>3, <1>4, <1>6, <1>7, <1>8, RefilledStep

LEMMA RestartStep ==
  ASSUME DiscoveryInv, Restart
  PROVE  DiscoveryInv'
<1>1. \A p \in Providers : snapshot[p] \subseteq once[p] \ Embeddings /\ once[p] \subseteq Models
  BY DEF DiscoveryInv, OfferedOnceInstalled, DiscoveryTypeOK, Lists
<1>2. discovered' = [p \in Providers |-> Merge({}, snapshot[p], FALSE)]
  BY DEF Restart
<1>3. \A p \in Providers : Merge({}, snapshot[p], FALSE) \subseteq once[p] \ Embeddings
  BY <1>1, MergeIsWithin
<1>4. /\ discovered' \in [Providers -> SUBSET (Models \ Embeddings)]
      /\ \A p \in Providers : discovered'[p] \subseteq once[p] \ Embeddings
  BY <1>1, <1>2, <1>3
<1>5. /\ seed' \in [left: SUBSET Providers, found: {Nothing}, over: BOOLEAN]
      /\ poll' = [t \in Polls |-> NoPoll] /\ UNCHANGED <<host, snapshot, once, changes>>
      /\ faults' \in 0..MaxFaults
  BY FaultsBounded DEF Restart
<1> QED BY <1>1, <1>4, <1>5, RefilledStep DEF DiscoveryInv, DiscoveryTypeOK

-----------------------------------------------------------------------------
\* What is in memory, in the snapshot and on its way to either was once
\* installed, and a check that nothing overtook has read the truth.
THEOREM DiscoveryInvariant == DiscoverySpec => []DiscoveryInv
<1>1. DiscoveryInit => DiscoveryInv
  <2> SUFFICES ASSUME DiscoveryInit PROVE DiscoveryInv
    OBVIOUS
  <2>1. installed \in Lists /\ once = installed /\ Nothing \in Lists
    BY DiscoveryAssumption DEF DiscoveryInit, Lists, Providers, Nothing
  <2>2. serving \in Lists /\ \A p \in Providers : serving[p] \subseteq installed[p]
    <3> DEFINE Started == {{}} \cup {{m} : m \in Models \ Embeddings}
    <3>1. serving \in [Providers -> Started] /\ \A p \in Providers : serving[p] \subseteq installed[p]
      BY DEF DiscoveryInit
    <3>2. \A x \in Started : x \subseteq Models
      OBVIOUS
    <3>3. serving \in [Providers -> SUBSET Models]
      <4> HIDE DEF Started
      <4> QED BY <3>1, <3>2
    <3> QED BY <3>1, <3>3 DEF Lists
  <2>3. DiscoveryTypeOK
    BY <2>1, <2>2, DiscoveryAssumption DEF DiscoveryInit, DiscoveryTypeOK
  <2>4. OfferedOnceInstalled /\ FreshIsTrue
    BY DEF DiscoveryInit, OfferedOnceInstalled, FreshIsTrue
  <2>5. EverythingOnce
    BY <2>1, <2>2 DEF DiscoveryInit, EverythingOnce, Nothing
  <2> QED BY <2>3, <2>4, <2>5 DEF DiscoveryInv
<1>2. DiscoveryInv /\ [DiscoveryNext]_discoveryVars => DiscoveryInv'
  <2> SUFFICES ASSUME DiscoveryInv, [DiscoveryNext]_discoveryVars PROVE DiscoveryInv'
    OBVIOUS
  <2>1. CASE \E p \in Providers :
               Quit(p) \/ \E m \in Models : Install(p, m) \/ Remove(p, m) \/ Serve(p, m)
    BY <2>1, HostStep
  <2>2. CASE \E t \in Polls : Check(t) \/ \E p \in Providers : PollDisk(t, p)
    BY <2>2, PollDiskStep, PollServerStep, PollEndStep DEF Check
  <2>3. CASE Seeding \/ Restart
    BY <2>3, SeedDiskStep, SeedMergeStep, RestartStep DEF Seeding
  <2>4. CASE UNCHANGED discoveryVars
    <3>1. DiscoveryTypeOK' /\ OfferedOnceInstalled' /\ EverythingOnce'
      BY <2>4 DEF discoveryVars, host, DiscoveryInv, DiscoveryTypeOK, OfferedOnceInstalled, EverythingOnce
    <3>2. FreshIsTrue'
      BY <2>4, HostDecides DEF discoveryVars, DiscoveryInv, FreshIsTrue
    <3> QED BY <3>1, <3>2 DEF DiscoveryInv
  <2> QED BY <2>1, <2>2, <2>3, <2>4 DEF DiscoveryNext
<1> QED BY <1>1, <1>2, PTL DEF DiscoverySpec

\* No model can be named that was never on the disk of the host.
THEOREM OffersWereInstalled == DiscoverySpec => []OfferedOnceInstalled
<1>1. DiscoveryInv => OfferedOnceInstalled
  BY DEF DiscoveryInv
<1> QED BY <1>1, DiscoveryInvariant, PTL

\* An undisturbed check leaves exactly what can be served.
THEOREM ChecksAreExact == DiscoverySpec => CheckIsExact
<1>1. DiscoveryInv /\ [DiscoveryNext]_discoveryVars => [ChecksExactly]_discoveryVars
  <2> SUFFICES ASSUME DiscoveryInv, [DiscoveryNext]_discoveryVars, ~UNCHANGED discoveryVars, NEW t \in Polls,
                      poll[t].step = "server", poll'[t].step = "idle", ~Restart,
                      poll[t].fresh, Servable(poll[t].of) # {}
               PROVE  discovered'[poll[t].of] = Servable(poll[t].of)
    BY DEF ChecksExactly
  <2>1. poll \in [Polls -> {NoPoll} \cup Busy] /\ poll[t] # NoPoll /\ poll[t] \in Busy
    BY DEF DiscoveryInv, DiscoveryTypeOK, NoPoll
  <2>2. poll[t].lists = Servable(poll[t].of) /\ poll[t].of \in Providers
    BY <2>1 DEF DiscoveryInv, FreshIsTrue, Busy, OfferNow
  <2>3. PollMerge(t)
    <3>1. ASSUME NEW p \in Providers, Change(p) PROVE FALSE
      BY <2>1, <3>1 DEF Change, Overtake, Busy
    <3>2. ASSUME NEW s \in Polls, Check(s) PROVE PollMerge(t)
      <4>1. CASE PollServer(s)
        BY <2>1, <4>1 DEF PollServer, Heard
      <4>2. CASE PollBreaks(s)
        BY <2>1, <4>2 DEF PollBreaks
      <4>3. CASE PollMerge(s)
        BY <2>1, <4>3 DEF PollMerge
      <4> QED BY <3>2, <4>1, <4>2, <4>3 DEF Check
    <3>3. ASSUME NEW s \in Polls, NEW p \in Providers, PollDisk(s, p) PROVE FALSE
      BY <2>1, <3>3 DEF PollDisk, NoPoll
    <3>4. ASSUME Seeding PROVE FALSE
      BY <3>4 DEF Seeding, SeedMerge, SeedDisk
    <3> QED BY <3>1, <3>2, <3>3, <3>4 DEF DiscoveryNext, Quit, Install, Remove, Serve
  <2>4. discovered' = [discovered EXCEPT ![poll[t].of] = Merge(@, poll[t].lists, TRUE)]
    BY <2>3 DEF PollMerge
  <2>5. Generative(Servable(poll[t].of)) = Servable(poll[t].of)
    BY DEF Servable, Offer, Generative
  <2>6. Merge(discovered[poll[t].of], poll[t].lists, TRUE) = Servable(poll[t].of)
    BY <2>2, <2>5 DEF Merge
  <2> QED BY <2>2, <2>4, <2>6 DEF DiscoveryInv, DiscoveryTypeOK
<1> QED BY <1>1, DiscoveryInvariant, PTL DEF DiscoverySpec, CheckIsExact

\* Within a process the last model of a provider is never taken away.
THEOREM OffersAreNeverEmptied == DiscoverySpec => NeverEmptied
<1> DEFINE Kept == \A p \in Providers : discovered[p] # {} => discovered'[p] # {} \/ Restart
<1>1. DiscoveryInv /\ [DiscoveryNext]_discoveryVars => [Kept]_discoveryVars
  <2> SUFFICES ASSUME DiscoveryInv, [DiscoveryNext]_discoveryVars, ~UNCHANGED discoveryVars, ~Restart, NEW p \in Providers,
                      discovered[p] # {}
               PROVE  discovered'[p] # {}
    OBVIOUS
  <2>1. discovered \in [Providers -> SUBSET (Models \ Embeddings)]
    BY DEF DiscoveryInv, DiscoveryTypeOK
  <2>2. CASE discovered' = discovered
    BY <2>2
  <2>3. ASSUME NEW t \in Polls, PollMerge(t) PROVE discovered'[p] # {}
    BY <2>1, <2>3, MergeKeepsSomething DEF PollMerge
  <2>4. CASE SeedMerge
    BY <2>1, <2>4, MergeKeepsSomething DEF SeedMerge
  <2> QED BY <2>2, <2>3, <2>4 DEF DiscoveryNext, Quit, Install, Remove, Serve, Change, Check, PollServer,
      PollBreaks, PollDisk, Seeding, SeedDisk
<1> QED BY <1>1, DiscoveryInvariant, PTL DEF DiscoverySpec, NeverEmptied
=============================================================================
