---------------------------- MODULE ModelRegistry ----------------------------
(***************************************************************************)
(* The bounded registry of model clients (core/model_registry.py) and the  *)
(* calls made through it (core/local_llm.py), from the first request of a  *)
(* process to its orderly shutdown (main.py).                              *)
(*                                                                         *)
(* get_llm and get_verification_model are synchronous and every caller is  *)
(* a coroutine of the one event loop, so looking a client up, constructing *)
(* it, registering it and evicting another is one step; a client that is   *)
(* evicted is closed by a task of its own, some time later, whoever may be *)
(* using it by then.                                                       *)
(***************************************************************************)
EXTENDS Integers, FiniteSets

CONSTANTS
  LocalModels,   \* a provider of LOCAL_LLM_PROVIDERS with a model id
  CloudModels,   \* a provider of CLOUD_LLM_PROVIDERS with a model id
  Tasks,         \* coroutines that call a model
  MaxClients,    \* bound: the client objects a behaviour may construct
  None,
  MaxInstances,  \* get_max_llm_instances(): 1, 2 or 4 by the memory of the host
  Permits        \* size of the semaphore of the local inference server

ASSUME RegistryAssumption ==
  /\ IsFiniteSet(LocalModels) /\ IsFiniteSet(CloudModels) /\ IsFiniteSet(Tasks)
  /\ LocalModels \cap CloudModels = {}
  /\ None \notin 1..MaxClients /\ MaxClients \in Nat
  /\ MaxInstances \in Nat \ {0}
  /\ Permits \in Nat \ {0}

\* Client objects, numbered as they are constructed.
Clients == 1..MaxClients

\* _llm_registry_key: "provider:model" for generation, "verify:provider:model"
\* for verification.
Keys == {"llm", "verify"} \X (LocalModels \cup CloudModels)

\* _is_cloud_provider, applied to the text before the first colon of a key: the
\* key of a verification client starts with "verify", whatever its provider.
IsCloud(k) == k[1] = "llm" /\ k[2] \in CloudModels

VARIABLES
  registry,  \* _LLM_REGISTRY: the client under each key
  older,     \* its order: <<a, b>> when a was used less recently than b
  sealed,    \* _LLM_REGISTRY_CLOSED
  client,    \* how far each client object is
  pending,   \* _PENDING_CLOSE
  task,      \* what each caller is doing, with which client
  free,      \* permits left of the semaphore
  life       \* the lifespan of the application

vars == <<registry, older, sealed, client, pending, task, free, life>>

Registered == {k \in Keys : registry[k] # None}
Bounded == {k \in Registered : ~IsCloud(k)}

ClientStates == {"unborn", "open", "closing", "closed"}
Steps == {"idle", "waiting", "posting", "retrying"}
Idle == [step |-> "idle", key |-> None, uses |-> None]

RegistryTypeOK ==
  /\ registry \in [Keys -> Clients \cup {None}]
  /\ older \subseteq Keys \X Keys
  /\ sealed \in BOOLEAN
  /\ client \in [Clients -> ClientStates]
  /\ pending \subseteq Clients
  /\ task \in [Tasks -> [step: Steps, key: Keys \cup {None}, uses: Clients \cup {None}]]
  /\ free \in 0..Permits
  /\ life \in {"up", "pools closed", "drained", "down"}

Init ==
  /\ registry = [k \in Keys |-> None]
  /\ older = {}
  /\ sealed = FALSE
  /\ client = [c \in Clients |-> "unborn"]
  /\ pending = {}
  /\ task = [t \in Tasks |-> Idle]
  /\ free = Permits
  /\ life = "up"

-----------------------------------------------------------------------------
(* The order of an OrderedDict. *)

Forget(order, k) == {p \in order : p[1] # k /\ p[2] # k}

\* move_to_end, or an insertion at the end.
Used(order, k, present) == Forget(order, k) \cup {<<a, k>> : a \in present \ {k}}

\* Evicts without regard to the kind of client.
OldestOfAll == {k \in Registered : \A a \in Registered : <<a, k>> \notin older}

\* The first key in the registry's order that is not of a cloud provider.
Oldest == {k \in Bounded : \A a \in Bounded : <<a, k>> \notin older}

-----------------------------------------------------------------------------
(* put_llm_instance *)

\* One entry too late.
MustEvictLate(k) ==
  ~IsCloud(k) /\ k \notin Registered /\ Cardinality(Registered) > MaxInstances

\* The registry is at its bound and k would be a new entry of it.
MustEvict(k) ==
  ~IsCloud(k) /\ k \notin Registered /\ Cardinality(Registered) >= MaxInstances

Insert(k, c, without) ==
  /\ registry' = [r \in Keys |->
       IF r = k THEN c ELSE IF r \in without THEN None ELSE registry[r]]
  /\ older' = Used({p \in older : p[1] \notin without /\ p[2] \notin without}, k,
                   Registered \ without)

\* The evicted client is dropped without being closed.
PutWithoutClose(k, c) ==
  IF MustEvict(k) /\ Bounded # {}
    THEN \E victim \in Oldest :
           Insert(k, c, {victim}) /\ client' = [client EXCEPT ![c] = "open"]
    ELSE Insert(k, c, {}) /\ client' = [client EXCEPT ![c] = "open"]

\* Registers c, new, under k. A sealed registry takes nothing and has c closed.
Put(k, c) ==
  IF sealed
    THEN /\ client' = [client EXCEPT ![c] = "closing"]
         /\ UNCHANGED <<registry, older>>
    ELSE IF MustEvict(k) /\ Bounded # {}
           THEN \E victim \in Oldest :
                  /\ Insert(k, c, {victim})
                  /\ client' = [client EXCEPT ![c] = "open", ![registry[victim]] = "closing"]
           ELSE Insert(k, c, {}) /\ client' = [client EXCEPT ![c] = "open"]

-----------------------------------------------------------------------------
(* Calls. A local call waits for a permit of the shared semaphore, posts to
   the server and, on a 404, lists the models of the server and posts once
   more for the first that has the same name; it keeps the permit meanwhile. *)

Starts(t, k, c) ==
  IF k[2] \in LocalModels
    THEN task' = [task EXCEPT ![t] = [step |-> "waiting", key |-> k, uses |-> c]]
    ELSE task' = [task EXCEPT ![t] = [step |-> "posting", key |-> k, uses |-> c]]

\* get_llm or get_verification_model finds the client.
Hit(t, k) ==
  /\ task[t] = Idle /\ life # "down" /\ k \in Registered
  /\ older' = Used(older, k, Registered)
  /\ Starts(t, k, registry[k])
  /\ UNCHANGED <<registry, sealed, client, pending, free, life>>

\* It does not: _create_llm constructs one and put_llm_instance registers it.
\* When the constructor fails (no API key, a rejected model) nothing changes
\* and the caller gets a ConfigurationError.
Miss(t, k) ==
  /\ task[t] = Idle /\ life # "down" /\ k \notin Registered
  /\ \E c \in Clients :
       /\ client[c] = "unborn" /\ \A d \in Clients : client[d] = "unborn" => c <= d
       /\ Put(k, c)
       /\ Starts(t, k, c)
  /\ UNCHANGED <<sealed, pending, free, life>>

Acquire(t) ==
  /\ task[t].step = "waiting" /\ free > 0
  /\ free' = free - 1
  /\ task' = [task EXCEPT ![t].step = "posting"]
  /\ UNCHANGED <<registry, older, sealed, client, pending, life>>

\* 404: the tags of the server name another model of that name.
NotFound(t) ==
  /\ task[t].step = "posting" /\ task[t].key[2] \in LocalModels
  /\ task' = [task EXCEPT ![t].step = "retrying"]
  /\ UNCHANGED <<registry, older, sealed, client, pending, free, life>>

\* The answer, or a ConfigurationError for whatever went wrong: the permit is
\* returned in either case.
Answered(t) ==
  /\ task[t].step \in {"posting", "retrying"}
  /\ free' = IF task[t].key[2] \in LocalModels THEN free + 1 ELSE free
  /\ task' = [task EXCEPT ![t] = Idle]
  /\ UNCHANGED <<registry, older, sealed, client, pending, life>>

-----------------------------------------------------------------------------
(* Closing. *)

\* The task made by _schedule_close runs.
Close(c) ==
  /\ client[c] = "closing"
  /\ client' = [client EXCEPT ![c] = "closed"]
  /\ UNCHANGED <<registry, older, sealed, pending, task, free, life>>

\* clear_model_caches drains the registry so that new keys and models take
\* effect: each client waits in _PENDING_CLOSE and is closed as well.
ClearModelCaches ==
  /\ life = "up" /\ Registered # {}
  /\ pending' = pending \cup {registry[k] : k \in Registered}
  /\ client' = [c \in Clients |-> IF \E k \in Registered : registry[k] = c
                                    THEN "closing" ELSE client[c]]
  /\ registry' = [k \in Keys |-> None]
  /\ older' = {}
  /\ UNCHANGED <<sealed, task, free, life>>

\* The lifespan ends: close_local_llm_clients closes the pools of connections.
\* Nothing holds off a coroutine that no request owns, from here on.
ClosePools ==
  /\ life = "up"
  /\ life' = "pools closed"
  /\ UNCHANGED <<registry, older, sealed, client, pending, task, free>>

\* The drain of the registry alone, without what waits in _PENDING_CLOSE.
Drained == {c \in Clients : \E k \in Registered : registry[k] = c}

\* close_all_llm_instances(seal=True) takes what is registered or pending and
\* awaits the closing of each.
Seal ==
  /\ life = "pools closed"
  /\ sealed' = TRUE
  /\ client' = [c \in Clients |-> IF c \in Drained \cup pending THEN "closed" ELSE client[c]]
  /\ registry' = [k \in Keys |-> None]
  /\ older' = {}
  /\ pending' = {}
  /\ life' = "drained"
  /\ UNCHANGED <<task, free>>

\* disconnect_db ends it.
Stop ==
  /\ life = "drained"
  /\ life' = "down"
  /\ UNCHANGED <<registry, older, sealed, client, pending, task, free>>

-----------------------------------------------------------------------------
Next ==
  \/ \E t \in Tasks, k \in Keys : Hit(t, k) \/ Miss(t, k)
  \/ \E t \in Tasks : Acquire(t) \/ NotFound(t) \/ Answered(t)
  \/ \E c \in Clients : Close(c)
  \/ ClearModelCaches \/ ClosePools \/ Seal \/ Stop

Spec == Init /\ [][Next]_vars

-----------------------------------------------------------------------------
(* Properties *)

\* However callers interleave and whatever models they name, no more than
\* MaxInstances clients that count against the memory of the host stay
\* registered, although cloud clients fill places and are never evicted
\* (put_llm_instance).
LocalsBounded == Cardinality(Bounded) <= MaxInstances

\* A client that was constructed and is not registered is on its way to being
\* closed: none that holds connections is dropped by an eviction, an overwrite,
\* a drain or the sealing.
NoneIsLost ==
  \A c \in Clients :
    client[c] = "open" => \E k \in Registered : registry[k] = c

\* A billed generation call in flight does not lose its client to the callers
\* that come after it: only a drain of the whole registry closes it (the note
\* above CLOUD_LLM_PROVIDERS).
CutsNoCloudCall ==
  \A t \in Tasks :
    task[t].step = "posting" /\ IsCloud(task[t].key) /\ client[task[t].uses] = "open"
      => client'[task[t].uses] = "open" \/ registry' = [k \in Keys |-> None]
CloudCallsUncut == [][CutsNoCloudCall]_vars
=============================================================================
