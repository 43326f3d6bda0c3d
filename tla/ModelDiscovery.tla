---------------------------- MODULE ModelDiscovery ----------------------------
(***************************************************************************)
(* What local models the service offers, and lets a request name, while    *)
(* models come and go on the host: the cache of discovered models of       *)
(* core/local_llm.py, its snapshot on disk, the seeding at startup and the *)
(* status checks behind GET /models/providers, which the open page repeats.*)
(*                                                                         *)
(* The checks are coroutines: what the command line and the server of a    *)
(* provider list is read at two moments and written at a third.  The ports *)
(* of mlx, asked one after the other, count as one server with several     *)
(* models that is asked at one moment.                                     *)
(***************************************************************************)
EXTENDS Integers, FiniteSets

CONSTANTS
  OnDemand,    \* providers whose server serves all that is installed: ollama
  Loaded,      \* providers whose server serves what it was started with: llama_cpp, mlx
  Models,      \* model ids
  Embeddings,  \* those of them that _is_embedding_model_name recognises
  HubOnly,     \* by provider, those that its command line does not list
  Disks,       \* what may be installed when the service is started first
  Polls,       \* status checks that may be under way at once
  MaxChanges,  \* bound: changes on the host
  MaxFaults    \* bound: timeouts, broken answers, failed writes, restarts

ASSUME DiscoveryAssumption ==
  /\ OnDemand \cap Loaded = {}
  /\ Embeddings \subseteq Models
  /\ HubOnly \in [OnDemand \cup Loaded -> SUBSET Models]
  /\ Disks \subseteq [OnDemand \cup Loaded -> SUBSET Models]
  /\ MaxChanges \in Nat /\ MaxFaults \in Nat

Providers == OnDemand \cup Loaded

VARIABLES
  installed,   \* the models on the disk of the host, by provider
  serving,     \* those the provider's server was started with
  up,          \* whether that server answers
  discovered,  \* _DISCOVERED_LLMS; an absent bucket is an empty one
  snapshot,    \* discovered_models.json
  seed,        \* the task of seed_local_model_discovery
  poll,        \* the status checks
  once,        \* history: what was ever on the disk
  changes, faults

host == <<installed, serving, up>>
discoveryVars == <<host, discovered, snapshot, seed, poll, once, changes, faults>>

NoPoll == [step |-> "idle"]
Lists == [Providers -> SUBSET Models]
Nothing == [p \in Providers |-> {}]

Busy == [step: {"disk", "server"}, of: Providers, lists: SUBSET Models, fresh: BOOLEAN]

DiscoveryTypeOK ==
  /\ installed \in Lists /\ serving \in Lists /\ up \in [Providers -> BOOLEAN]
  /\ discovered \in [Providers -> SUBSET (Models \ Embeddings)]
  /\ snapshot \in [Providers -> SUBSET (Models \ Embeddings)]
  /\ seed \in [left: SUBSET Providers, found: Lists, over: BOOLEAN]
  /\ poll \in [Polls -> {NoPoll} \cup Busy]
  /\ once \in Lists
  /\ changes \in 0..MaxChanges /\ faults \in 0..MaxFaults

DiscoveryInit ==
  /\ installed \in Disks
  /\ up \in [Providers -> BOOLEAN]
  /\ serving \in [Providers -> {{}} \cup {{m} : m \in Models \ Embeddings}]
  /\ \A p \in Providers : /\ serving[p] \subseteq installed[p]
                          /\ serving[p] # {} <=> (up[p] /\ p \in Loaded)
  /\ discovered = [p \in Providers |-> {}]
  /\ snapshot = [p \in Providers |-> {}]
  /\ seed = [left |-> Providers, found |-> Nothing, over |-> FALSE]
  /\ poll = [t \in Polls |-> NoPoll]
  /\ once = installed
  /\ changes = 0 /\ faults = 0

Generative(S) == S \ Embeddings

\* A fresh list takes the place of the bucket or adds to it, an empty one does
\* neither.
Merge(bucket, models, replace) ==
  IF replace /\ Generative(models) # {} THEN Generative(models)
  ELSE bucket \cup Generative(models)

-----------------------------------------------------------------------------
(* The host: a user installs and removes models and starts and stops the
   servers. A server keeps what it has loaded when the file is removed, and
   mlx has one server, on a port of its own, for each model. *)

\* Every check under way has read lists of before the change.
Overtake(p) ==
  poll' = [t \in Polls |-> IF poll[t].step # "idle" /\ poll[t].of = p
                             THEN [poll[t] EXCEPT !.fresh = FALSE] ELSE poll[t]]

Change(p) ==
  /\ changes < MaxChanges /\ changes' = changes + 1
  /\ Overtake(p)
  /\ once' = [once EXCEPT ![p] = @ \cup installed'[p]]
  /\ UNCHANGED <<discovered, snapshot, seed, faults>>

Install(p, m) ==
  /\ m \notin installed[p]
  /\ installed' = [installed EXCEPT ![p] = @ \cup {m}]
  /\ UNCHANGED <<serving, up>>
  /\ Change(p)

Remove(p, m) ==
  /\ m \in installed[p]
  /\ installed' = [installed EXCEPT ![p] = @ \ {m}]
  /\ UNCHANGED <<serving, up>>
  /\ Change(p)

Serve(p, m) ==
  /\ m \in installed[p]
  /\ \E others \in {{}, serving[p]} :
       serving' = [serving EXCEPT ![p] = IF p \in Loaded THEN others \cup {m} ELSE {}]
  /\ up' = [up EXCEPT ![p] = TRUE]
  /\ <<serving', up'>> # <<serving, up>>
  /\ UNCHANGED installed
  /\ Change(p)

Quit(p) ==
  /\ up[p]
  /\ \E others \in SUBSET serving[p] :
       /\ others = {} \/ others # serving[p]
       /\ serving' = [serving EXCEPT ![p] = others]
       /\ up' = [up EXCEPT ![p] = others # {}]
  /\ UNCHANGED installed
  /\ Change(p)

\* What the server of p lists, what the command line or the scan of the disk
\* lists, and what a user can therefore be offered.
Listed(p) == IF ~up[p] THEN {} ELSE IF p \in OnDemand THEN installed[p] ELSE serving[p]
OnDisk(p) == IF p \in OnDemand /\ ~up[p] THEN {} ELSE installed[p]

\* check_ollama_status joins both; check_llamacpp_status and check_mlx_status
\* take the disk only when the server lists nothing.
Offer(p, disk, listed) ==
  IF p \in OnDemand THEN Generative(disk \cup listed)
  ELSE IF Generative(listed) # {} THEN Generative(listed)
  ELSE Generative(disk)

\* What is right to offer now.
Servable(p) == Offer(p, OnDisk(p), Listed(p))

Fault == faults < MaxFaults /\ faults' = faults + 1

-----------------------------------------------------------------------------
(* A status check. *)

\* The command line answers; it fails or takes more than four seconds and the
\* list is what the scan of the hub adds.
PollDisk(t, p) ==
  /\ poll[t] = NoPoll
  /\ \/ /\ UNCHANGED faults
        /\ poll' = [poll EXCEPT ![t] =
             [step |-> "disk", of |-> p, lists |-> OnDisk(p), fresh |-> TRUE]]
     \/ /\ Fault
        /\ poll' = [poll EXCEPT ![t] =
             [step |-> "disk", of |-> p, lists |-> OnDisk(p) \cap HubOnly[p], fresh |-> FALSE]]
  /\ UNCHANGED <<host, discovered, snapshot, seed, once, changes>>

\* What the server of poll[t] lists is joined to what the disk held.
Heard(t, listed, fresh) ==
  LET p == poll[t].of IN
    poll' = [poll EXCEPT ![t] =
      [step |-> "server", of |-> p, lists |-> Offer(p, @.lists, listed), fresh |-> fresh]]

\* The server answers one of two attempts, or it is down; a fault is two
\* timeouts, of every port or of some.
PollServer(t) ==
  /\ poll[t].step = "disk"
  /\ \/ UNCHANGED faults /\ Heard(t, Listed(poll[t].of), poll[t].fresh)
     \/ Fault /\ \E part \in SUBSET Listed(poll[t].of) : Heard(t, part, FALSE)
  /\ UNCHANGED <<host, discovered, snapshot, seed, once, changes>>

\* An answer that is neither a list nor a failure to connect: the endpoint
\* reports a disconnected provider and nothing is merged.
PollBreaks(t) ==
  /\ poll[t].step = "disk"
  /\ Fault
  /\ poll' = [poll EXCEPT ![t] = NoPoll]
  /\ UNCHANGED <<host, discovered, snapshot, seed, once, changes>>

\* The check adds to the bucket, as the seeding does.
PollMergeAdding(t) ==
  /\ poll[t].step = "server"
  /\ LET p == poll[t].of IN
       discovered' = [discovered EXCEPT ![p] = Merge(@, poll[t].lists, FALSE)]
  /\ poll' = [poll EXCEPT ![t] = NoPoll]
  /\ UNCHANGED <<host, snapshot, seed, once, changes, faults>>

\* What the check has read replaces the bucket.
PollMerge(t) ==
  /\ poll[t].step = "server"
  /\ LET p == poll[t].of IN
       discovered' = [discovered EXCEPT ![p] = Merge(@, poll[t].lists, TRUE)]
  /\ poll' = [poll EXCEPT ![t] = NoPoll]
  /\ UNCHANGED <<host, snapshot, seed, once, changes, faults>>

-----------------------------------------------------------------------------
(* seed_local_model_discovery, in the background of the startup, and the
   snapshot: load_discovery_snapshot runs when the module is imported, when
   the application starts and when the seeding starts, and adds nothing the
   second time. *)

\* One command line after the other, without the scan of the hub that the check
\* of llama_cpp adds.
SeedDisk(p) ==
  /\ p \in seed.left
  /\ \/ /\ UNCHANGED faults
        /\ seed' = [seed EXCEPT !.left = @ \ {p}, !.found[p] = OnDisk(p) \ HubOnly[p]]
     \/ /\ Fault
        /\ seed' = [seed EXCEPT !.left = @ \ {p}]
  /\ UNCHANGED <<host, discovered, snapshot, poll, once, changes>>

\* Merges all it found, each list into the same bucket.
SeedMergeMixed ==
  /\ seed.left = {} /\ ~seed.over
  /\ discovered' = [p \in Providers |->
       Merge(discovered[p], UNION {seed.found[q] : q \in Providers}, FALSE)]
  /\ snapshot' = discovered'
  /\ seed' = [seed EXCEPT !.over = TRUE, !.found = Nothing]
  /\ UNCHANGED <<host, poll, once, changes, faults>>

\* What it found is added, nothing is taken away, and the whole cache is
\* saved; a failing write leaves the old file.
SeedMerge ==
  /\ seed.left = {} /\ ~seed.over
  /\ discovered' = [p \in Providers |-> Merge(discovered[p], seed.found[p], FALSE)]
  /\ \/ snapshot' = discovered' /\ UNCHANGED faults
     \/ Fault /\ UNCHANGED snapshot
  /\ seed' = [seed EXCEPT !.over = TRUE, !.found = Nothing]
  /\ UNCHANGED <<host, poll, once, changes>>

\* The process ends and is started again.
Restart ==
  /\ Fault
  /\ discovered' = [p \in Providers |-> Merge({}, snapshot[p], FALSE)]
  /\ poll' = [t \in Polls |-> NoPoll]
  /\ seed' = [left |-> Providers, found |-> Nothing, over |-> FALSE]
  /\ UNCHANGED <<host, snapshot, once, changes>>

-----------------------------------------------------------------------------
Check(t) == PollServer(t) \/ PollBreaks(t) \/ PollMerge(t)
Seeding == SeedMerge \/ \E p \in Providers : SeedDisk(p)

DiscoveryNext ==
  \/ \E p \in Providers : Quit(p)
  \/ \E p \in Providers, m \in Models : Install(p, m) \/ Remove(p, m) \/ Serve(p, m)
  \/ \E t \in Polls : Check(t) \/ \E p \in Providers : PollDisk(t, p)
  \/ Seeding \/ Restart

\* The page repeats the checks of all providers every eight seconds, the loop
\* of the server runs every task that can go on, and each wait has a timeout.
Fairness ==
  /\ \A t \in Polls : WF_discoveryVars(Check(t))
  /\ \A p \in Providers : SF_discoveryVars(\E t \in Polls : PollDisk(t, p))
  /\ WF_discoveryVars(Seeding)

DiscoverySpec == DiscoveryInit /\ [][DiscoveryNext]_discoveryVars /\ Fairness

-----------------------------------------------------------------------------
(* Properties *)

\* A request can name no model that was never on the disk of this host for this
\* provider, nor one that only embeds, through any number of restarts, snapshots and lists read too
\* early: discovery opens no path to a download (schemas/analysis.py:70).
OfferedOnceInstalled == \A p \in Providers : discovered[p] \cup snapshot[p] \subseteq once[p] \ Embeddings

\* A check that nothing on the host overtook and no fault disturbed leaves
\* exactly what can be served, whatever the bucket held before, unless that is
\* nothing (the comments of check_ollama_status and check_llamacpp_status).
ChecksExactly ==
  \A t \in Polls :
    (poll[t].step = "server" /\ poll'[t].step = "idle" /\ ~Restart)
      => LET p == poll[t].of
         IN poll[t].fresh /\ Servable(p) # {} => discovered'[p] = Servable(p)
CheckIsExact == [][ChecksExactly]_discoveryVars

\* Within a process, no failure of a check, a seeding or a list that comes back empty takes away
\* the last model a request in flight may name (merge_discovered_llms).
NeverEmptied ==
  [][\A p \in Providers : discovered[p] # {} => discovered'[p] # {} \/ Restart]_discoveryVars

\* When the host comes to rest the offer comes to be what can be served,
\* however the seeding, the snapshot and overtaken checks wrote before.
Converges ==
  \A p \in Providers : <>[](Servable(p) # {} => discovered[p] = Servable(p))
=============================================================================
