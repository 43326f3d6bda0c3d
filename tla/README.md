# A verification development for TrustRAG

TrustRAG answers questions over uploaded documents. It retrieves evidence,
generates an answer, splits the answer into claims, checks each claim against
the evidence, and either reports the answer with a reliability status or
retries with another strategy until its attempts, its time or its money are
used up. This directory models that machinery in TLA+, model-checks it with
TLC on small instances, and proves its most important properties with TLAPS
for every value of the constants.

Paths below are relative to `src/apps/api/app/` unless they begin with `src/`.

Contents: [1 the system](#1-the-system) · [2 the modules](#2-the-modules) ·
[3 the runs](#3-the-runs) · [4 bounds](#4-bounds-and-why-they-are-enough) ·
[5 fairness](#5-fairness) · [6 proofs](#6-proofs) ·
[7 disagreements](#7-where-the-code-and-its-documentation-disagree) ·
[8 not modelled](#8-what-is-not-modelled) · [9 plan](#9-plan) ·
[10 running it](#10-running-it)

## 1 The system

### 1.1 Components

| Component | State it keeps | Operations |
|---|---|---|
| Reliability loop (`agent/graph.py`) | the `AgentState` dictionary of one analysis, and the call ledger (`core/llm_ledger.py`) | four nodes (retrieval, generation, verification, recovery), each in a wrapper with a timeout and a fallback; routing; spend guard; the coordinator that consults and fills the answer cache |
| Claim verification (`verification/verifier.py`) | per call: the claims, a map of results by position, budgets; in MongoDB: the CLAIMS collection | decompose, fused call, batch call with a retry, targeted retrieval, individual fallback, insert |
| Verdict (`verification/verdict.py`) | none | `compute_verdict` |
| Analysis service (`services/analysis_service.py`) | the analysis record, the trace events, a background task per analysis, the queues of event streams | create, run, stream, exception handling |
| Local inference clients (`core/local_llm.py`, `core/concurrency.py`) | one process-wide semaphore | acquire, call, release |
| Model discovery (`core/local_llm.py`, `api/v1/models.py`) | the models found on this host by provider, and a snapshot of them on disk | status checks, seeding at startup, merge, save, load |
| Admission of an analysis (`api/v1/schemas/analysis.py`, `core/config.py`, `core/local_llm.py`) | the configuration; when each cloud model last answered | check a request against the policy, resolve its model, probe the server |
| Playground page (`src/apps/web/src/pages/PlaygroundPage.jsx`, `lib/api.js`) | what the page shows, its stream and its timers | submit, follow the stream, poll, fetch the final record |
| Semantic cache (`core/semantic_cache.py`) | a bounded deque of answers, a matrix of their vectors with a dirty flag, a JSON file | lookup, store, invalidate, sweep, load, save |
| Knowledge bases (`services/kb_service.py`) | MongoDB: knowledge bases, documents, chunks. Qdrant: one collection of points per knowledge base | create, upload, delete a document, delete a knowledge base, snapshot, roll back |
| Ingestion (`ingestion/pipeline.py`) | one background task per upload, admitted one at a time | parse, chunk, record, embed, upsert, complete |
| Hybrid retrieval (`agent/router.py`, `retrieval/retriever.py`, `verification/integrity.py`, the retrieval node) | the evidence records of a round | split a query, search with two legs each, fuse, filter, cut, merge, audit |
| Reranking (`retrieval/reranker.py`) | a bounded cache of scores | score in batches, stop early, slice |
| Web search (`services/search_service.py`) | none | ask one or both engines, join their results |
| Answer generation (`generation/generator.py`) | none | compress, answer, clean citations |
| LLM registry (`core/model_registry.py`) | a bounded map of clients, and those waiting to be closed | get, construct, evict, close, drain, seal |
| Outage classification (`core/llm_outage.py`) | none | classify an exception |
| Experiments, authentication, embeddings, parsers, the protocol of the MCP server, the other routes and pages | see section 8 | |

`PROJECT.json` lists each of them with its files and with what is modelled.

### 1.2 How they interact

A page posts a question. The schema of the request holds the model it names, or
the one it would get, against what is configured and discovered; the service
resolves the model, asks its server for a sign of life, inserts a record, stores
the first event and schedules a background task. The task waits for a permit of the
semaphore if the analysis runs on a local server, and then runs the
reliability loop. The loop looks the question up in the semantic cache, walks
its nodes, calls the retriever, the generator and the verifier, and stores a
verified answer in the cache. Every call goes through
a client of the registry, which may evict it meanwhile, and each local call
takes a permit of the same semaphore. Afterwards the service writes the record and the terminal
event, in an order that depends on the ending. The page follows the events by
SSE, polls the record beside it, and fetches the final record when either tells
of an end. Meanwhile other requests upload, delete, snapshot and roll back the
documents the loop retrieves from, and invalidate the cache when they are done,
and the open page asks every eight seconds which models the host has.

Everything on the server is one asyncio process: code between two `await`s is
atomic, and everything else interleaves. MongoDB and Qdrant share no
transaction, and nothing resumes a background task after a restart.

### 1.3 What is hard about each component, and what makes it correct

- **Reliability loop.** Fields of the state survive from round to round;
  every node may instead end in a timeout, an outage or an exhausted budget;
  each of these sets its own mix of verdict, diagnosis and attempt count. It
  is correct if TRUSTED is only said of an answer whose own claims were checked,
  if it always ends, if a search outage is never reported as a finding, if
  the claims shown are those of the answer shown, and if the money it spends is
  bounded.
- **Claim verification.** Four ways to a verdict fill one map by position;
  segment numbers mean something only in the context they were issued for; the
  budget may run out between two claims. It is correct if each verdict is about
  its own claim on its own context, and if nothing decided is undone.
- **Verdict.** Two thresholds and a score with integer boundaries. It is correct
  if better evidence never makes the result worse and padding never better.
- **Analysis service.** The record and the event are two writes, either may
  fail, and the handler of the exception writes too. Permits are held across
  calls that need permits. It is correct if what is announced is what is stored
  and final, if no permit is lost to a timeout, and if every run ends.
- **Page.** Stream, poll and final fetch race each other and the writes of the
  service. It is correct if it comes to rest and shows what is stored.
- **Semantic cache.** Vectors are addressed by position in a deque that moves,
  entries expire, the file is written rarely, the embedding model changes at a
  restart, and knowledge bases change while an analysis runs. It is correct if
  an answer never crosses knowledge bases, answers an equivalent question, and
  never outlives its evidence.
- **Retrieval and reranking.** Up to three sub-queries search with two legs each,
  any of which may be late or fail; fusion, temporal filter, adaptive window and
  merge follow each other; scores are cached and scoring stops early; verified
  chunks, external ones and evidence records are addressed by position. It is
  correct if a partial failure loses nothing that was found, a total one is an
  outage and no empty result, no chunk leads for a score it was not given, and
  the context cites its own evidence.
- **LLM registry.** A client may be evicted, drained or sealed away while a call
  uses it, and cloud clients live by another bound. It is correct if no client
  stays open unregistered, if the bound holds, and if no billed call is cut.
- **Model discovery.** Seeding, snapshot and overlapping checks write one table,
  each with what it read a while ago. It is correct if nothing is offered that
  was never installed, and if the offer becomes right when the host is quiet.
- **Admission.** Two classes derive the model from the same environment, at two
  moments; probes are reused. It is correct if what runs is what was allowed, on
  a server that answered recently.
- **Knowledge bases and ingestion.** A document lives in three places; each
  operation is a sequence of calls that may stop anywhere and overlap any other.
  It is correct if a completed document is searchable, if a removal that stops
  half way can be retried, and if snapshots and rollbacks lose nothing.

The list `hazards` in `PROJECT.json` has each of these at its line, with the
property that watches it or the reason why none does.

## 2 The modules

| Module | Models | Extends |
|---|---|---|
| `Verdict` | `verification/verdict.py` as operators over claim counts | |
| `VerdictChanges` | one claim changes its state, or claims are added, and the verdict follows | `Verdict` |
| `AgentGraph` | the reliability loop | `Verdict` |
| `AgentGraphInv` | its inductive invariant | `AgentGraph` |
| `ClaimCheck` | the abstract specification of one verification | `Verdict` |
| `ClaimVerification` | `execute_claim_verification`, proved to implement `ClaimCheck` | `Verdict` |
| `AnalysisRuns` | the analysis service with the local semaphore and event streams | |
| `AnalysisPages` | the page, composed with the service, proved to implement `AnalysisResult` | `AnalysisRuns` |
| `AnalysisResult` | the abstract specification of what an analysis promises to those who ask for it | |
| `SemanticCache` | the cache, with the analyses and removals around it | |
| `KnowledgeBase` | knowledge bases, ingestion, snapshots, re-indexing | |
| `ModelRegistry` | the registry of clients and the calls through them, up to the shutdown | |
| `ModelDiscovery` | the models of the host, the checks, the seeding and the snapshot | |
| `Admission` | policy, resolution and preflight of a request | |
| `Listing` | finite sets put in order: what a filter, a sort or a merge keeps of a list | |
| `RankFusion` | fusion of ranked lists, the merge of a fan-out, as operators on sequences | `Listing` |
| `Reranking` | batches, early end and cache of the reranker, as operators | `RankFusion` |
| `WebSearch` | the engines and their join, as operators | |
| `RetrievalRound` | the retrieval node from the search to the context | `Reranking`, `WebSearch` |
| `*_proofs` | theorems about `AgentGraph` (with `VerdictChanges`), `ClaimVerification`, `AnalysisRuns` (with `AnalysisPages`), `SemanticCache`, `KnowledgeBase`, `ModelRegistry` (with `ModelDiscovery`), `Admission`, `RetrievalRound` | |
| `MC*` | instances for TLC: definitions of constants, symmetry | |
| `AgentGraphClaims`, `SemanticCacheClaims` | statements of the repository that the code does not keep (section 7) | |

### 2.1 AgentGraph

`state` is the `AgentState` dictionary with its data reduced to what the
control flow tells apart: an answer is the kind of its text and the round that
produced it; chunks are *none*, *thin* (fewer than `max_context_chunks`) or
*full* and the round that fetched them; claims are the counts the verdict needs,
with the answer and the chunks they were checked on. `pc` names the next node.
Each node is a family of actions, one per way through it:

| Node in the code | Actions |
|---|---|
| `execute_agentic_rag_flow`, before the graph | `StartUncached`, `StartCached` |
| the wrapper `_execute_with_fallback`: spend guard, exception | `BudgetStop`, `NodeRaises` |
| `retrieval_node` | `RetrievalReuse`, `RetrievalSearch`, `RetrievalOutage`, `RetrievalEmptyKB`, `RetrievalFails`, `RetrievalLlmOutage` |
| `generation_node` | `GenerationSkip`, `GenerationNoContext`, `GenerationAnswers`, `GenerationUnreachable`, `GenerationFails`, `GenerationLlmOutage` |
| `verification_node` | `VerifyFastPath`, `VerifyRefusal`, `VerifyClaims`, `VerifyNoClaims`, `VerifyBreaksOff` |
| `recovery_node` | `RecoveryRound`, `RecoveryBudgetExhausted`, `RecoveryFails`, `RecoveryLlmOutage` |
| after the graph | `StoreAnswer` |

`VerifyClaims`, `VerifyNoClaims` and `VerifyBreaksOff` are the three ends of
`ClaimCheck`. `hist` and `round` are history that only properties read.

### 2.2 ClaimVerification and ClaimCheck

A claim is its position. A result carries its verdict, the claim the model was
asked about, the context it was asked on, and the segments it named. `todo` holds
the claims still to be retrieved for, `linked` the evidence found per claim. The actions
follow the code: the fused call answers or misses; decomposition; the batch
answers, has no chunks, or fails (with its retry); each NEUTRAL claim may be
retrieved for again, and may flip; then one turn of the loop per claim uses a
result, falls back to an individual check, is stopped by the budget, or is
skipped by the early exit; one insert; or an exception anywhere.

`ImplementsClaimCheck` instantiates `ClaimCheck` with the number of calls at
most `4 + MaxClaims`: a verification is, for the loop, some calls and then
counts, no claims, or a failure. The refinement closes the gap between the two
levels of detail: `AgentGraph` need not know how verdicts come about.

### 2.3 AnalysisRuns and AnalysisPages

`phase` is the position of the background task in `run_analysis_pipeline`:
scheduled, queued for a permit, admitted, running the loop, calling the local
server (waiting for a permit) or generating (holding it), returned, storing,
announcing, and the same for the exception handler. A pipeline inside the loop
holds one permit, and one more while it generates: `Held` counts them and `line`
is the first-in first-out line of waiters. `TimeOut` is the node timeout of the
loop, which cancels a call wherever it is. `Crash` loses tasks and streams and
keeps MongoDB. `AnalysisPages` adds the page: it opens the stream, follows it,
polls, fetches the final record up to `MaxFetches` times, and settles.

`ImplementsResult` instantiates `AnalysisResult`, which forgets phases, permits,
streams, polls and restarts: a record is accepted, begun and decided, the result
is told once it is stored, and a page shows no other. The alternative is to give
up, which is told before it is stored (the exception handler publishes first); a
result is taken back only that way, and only if nobody was told of it and a write
had failed. A crash or a lost task is a stutter: the promise says what may be told
and shown, and nothing of when. A page that runs out of fetches and shows a record
that is still being processed shows no result.

### 2.4 SemanticCache

`entries` is the deque, as the set of its entries: they stand in it in the order
of their stamps, the moments they were stored. `matrix` holds the rows of the last rebuild, `dirty` the flag,
`disk` the file. A lookup rebuilds the matrix if it is flagged or absent and
then selects an entry by the position of a row, exactly as the code does, so a
matrix out of step selects another entry. Analyses look up, work, and store;
knowledge bases lose evidence or gain a document and are invalidated later;
time passes; the server restarts, perhaps with another embedding model. All
functions of the cache run without awaiting, so each is one step.

### 2.5 KnowledgeBase

Uploads run as tasks (`ingest`), everything else as requests with a step
counter (`request`); `DeleteDocumentOrder`, `DeleteKbOrder`, `RollbackOrder`,
`SnapshotOrder` and `HealOrder` give the sequence of calls of each operation. One
step is one awaited call. `RequestFails`, `IngestionFails` and `Crash` may end an
operation between any two; a task that a restart ends, or whose failure mark
cannot be written, is lost. A snapshot and a re-indexing read with a limit
(`ReadLimit`, 10 000 in the code) and silently go on with what a read returned
(`Reads`): any of the records for a snapshot, those with the lowest index for a
re-indexing. `Served` is what retrieval can return: points whose
document has a record and whose chunk is in MongoDB. The history variables
`condemned` and `raced` record which documents a removal has taken data from
and which were written to during or after it, because the code promises nothing
for the latter.

### 2.6 ModelRegistry

Clients are numbered as they are constructed. `registry` maps a key (generation
or verification, and a model) to a client, and `older` is the order of the
`OrderedDict` as a relation. `Hit` and `Miss` are `get_llm` and
`get_verification_model`: look-up, construction, registration and eviction
do not await and are one step. A call then waits for a permit if it is local
(`Acquire`), may be repeated under another name after a 404 (`NotFound`), and
ends (`Answered`). `Close` is the task that closes an evicted client,
`ClearModelCaches` the drain, and `ClosePools`, `Seal`, `Stop` the shutdown.

### 2.7 ModelDiscovery

The host is `installed`, `serving` and `up`, which a user changes (`Install`,
`Remove`, `Serve`, `Quit`). A check reads the command line or the disk
(`PollDisk`), then the server (`PollServer`), then merges (`PollMerge`), and
`fresh` records that nothing overtook it. `SeedDisk` and `SeedMerge` are the task
of the startup, which also writes the snapshot that `Restart` loads. `Merge` and
`Offer` are the rules by which lists replace or extend each other: an empty list
replaces nothing, and embedding models are never kept. A provider that serves what
it was started with may serve several models (mlx, on up to five ports, of which
some may fail to answer), and some of its models are found by the scan of the hub
only (`HubOnly`), which the check of llama_cpp adds and the seeding does not.

### 2.8 Admission

`env` is any environment: which variables name a model, and how the provider was
written. `Override` is the model as `Settings` reads it, `ModelFor` as
`ModelConfig` does, and `VerifierFor` its model for verification, which has
defaults of its own (`Verifiers`). `Ask` is the policy; `PreflightLocal`, `PreflightReused` and
`PreflightCloud` are the three ways through the preflight, and `ProbeAnswers` and
`ProbeFails` the ends of a probe. `stamp` and `answered` count the time since, up
to the lifetime of a stamp.

### 2.9 RetrievalRound and its operators

A score is a fraction, so that the comparisons that decide the window are
exact, and a sort keeps the order of equals, as `list.sort` does. `Listing` gives
filters, sorts and merges as the set of what is kept and the order it comes in.
Assumed of the surroundings: a search returns a point once (`ListsAssumption`),
relevance is a number (`RelevanceAssumption`), an engine answers with addresses or
breaks (`WebAssumption`), and the score at which the reranker may stop early is
positive (`Sure`, 0.85 in `src/apps/api/config/models.yaml`). A round starts
with its sub-queries (`Start`); each leg answers, is late or fails
(`LegAnswers`, `LegIsLate`, `LegFails`); a sub-query is fused, filtered and cut
(`SubRetrieves`) or breaks (`SubBreaks`); `Collect` merges; an empty first attempt
is searched again after a re-indexing (`Heal`) or reported (`EmptyKB`), and a
later round is still the first attempt if the recovery before it failed; the
candidates are ranked in one of three ways (`RankByModel`, `RankFails`,
`RankUnchanged`), audited, grounded and saved. `NodeFails` is the timeout of the
node or a failing write; a thread that ranks at that moment cannot be stopped and
may store its scores (`CacheAfter`). Its outcomes are the ones that `AgentGraph` takes as
choices of its retrieval node: rows, nothing, an outage, an error.

## 3 The runs

Ten runs pass; their properties are the invariants and temporal properties of
their configuration.

| Run | Distinct states | Question and answer |
|---|---|---|
| `verdict_changes` | 165 | How does the verdict move when a claim changes? With the configured thresholds 80/20/50 and up to eight claims, support never lowers the reported reliability (`BetterEvidenceNeverHurts`), padding an answer with claims that are not supported never raises it (`PaddingNeverHelps`), and the contradiction threshold is redundant: coverage alone decides what passes (`CoverageDecides`). |
| `graph` | 1 034 649 | Can the loop lie, run away or overspend under a cap? No: `TrustedIsVerified`, `RoundsBounded`, `SearchOutageEndsRun`, `DisplayedMatchesVerdict`, `SpendCeiling` hold. |
| `claims` | 1 247 712 | Is each verdict its own claim's? Segment numbers of one context are never read in another (`LinksMatchContext`), the early exit is taken only for an answer that fails anyway, as long as the batch numbers its rows as told (`EarlyExitFails`), verdicts are about their own claim (`VerdictsAreOwn`) and are never undone (`DecidedStays`), and the whole implements `ClaimCheck`. |
| `pages` | 259 631 | Does everyone agree on the result, and come to rest? With a failing write and a restart: `ReportedIsStored`, `ShownIsStored`, `PermitsKept`, the whole implements `AnalysisResult` (`ImplementsResult`, by which no result that was told is ever taken back), and under fairness `EveryRunEnds` and `PageSettles`. |
| `cache` | 1 310 574 | Can a cached answer reach the wrong reader? Not across knowledge bases (`AnswersStayInKb`), not after an invalidation that found it in the cache, restarts included (`InvalidatedIsGone`), and not for a question on another topic while the deque is below its bound (`EquivalentUnlessFull`). |
| `kb` | 1 174 228 | Do documents survive interleaving, one fault or a restart? `CompletedIsSearchable`, `NoOrphanedVectors`, `UploadsAreSettled` (whichever call fails), and, for rollbacks and for snapshots within the limit of one read that nothing disturbs, `RollbackKeepsOwn` and `SnapshotIsComplete`. |
| `registry` | 264 190 | Does a client get lost, or a call lose its client? Under any interleaving of two callers with evictions, closings, a drain and the shutdown the bound holds (`LocalsBounded`), no client is dropped open (`NoneIsLost`), and no generation call of a cloud model is cut by an eviction (`CloudCallsUncut`). |
| `discovery` | 421 964 | Is the offer of models true? Nothing is offered that was not on this disk (`OfferedOnceInstalled`), an undisturbed check leaves exactly what can be served (`CheckIsExact`), and with a quiet host the offer becomes right and stays so (`Converges`). |
| `admission` | 2 315 368 | Does an analysis run on what its request was allowed? Yes, for every environment but one that names two models for gemini (`RunsWhatWasAllowed`), and on a cloud model only after that model answered within the lifetime of a stamp (`LiveModels`). |
| `retrieval` | 276 039 | What does a failing leg, a stale document or an early end of the scoring cost? Nothing that was found and may be served is lost while there is room (`FreshEvidenceKept`), only a total failure is an outage (`OutageIsTotal`), the cache holds true scores (`CacheIsTrue`), the leader has one (`LeaderWasScored`), and the context cites its own evidence (`ContextIsEvidence`). |

Two runs refute a statement of the repository each; see section 7.

| Run | Refuted | Trace in a sentence |
|---|---|---|
| `graph_outage` | `OutageIsReported` | the notice of an LLM outage is taken for a refusal of the model and cached |
| `cache_outlives` | `NoneOutlivesItsEvidence` | an analysis stores its answer after the deletion of its evidence invalidated the cache |

For every property of a passing run `PROJECT.json` names a *mutant*: a plausible
mistake in a definition that models code, beside the definition itself and
marked `Mutant` in its comment, under which TLC finds the property violated in
the same configuration. So each property depends on what the code does.

Where there are proofs, type correctness is a theorem rather than a run (section 6).

Deadlock is checked in `graph` and `claims`, whose ended states stutter
explicitly (`Ended`). It is not checked where a finite supply of analyses,
requests, rounds or changes is used up at the end, which is the bound's doing
and not the system's, nor in `registry`, where the process ends.

## 4 Bounds, and why they are enough

- `graph`: the two attempts of `config/models.yaml`, so a run has a first, a middle
  and a last round, which the routing tells apart; a cap of 4 calls with 2 per
  generation and 2 per verification, so that it is reached before, in and after
  a verification and in either of the first two rounds; a recovery budget of one
  round; 16 steps, above the bound the loop sets itself, and reached only by
  recoveries that keep failing.
- `claims`: two claims (so that there is a first and a following turn), one
  segment plus one out of range, one targeted retrieval, two individual checks,
  a cap of 5 calls of at most 6, with a contradiction threshold of 50 so that
  one claim of two sits exactly on it.
- `pages`: two analyses for two permits, both local, so that each can hold what
  the other waits for; one call each, one failing write, one restart, and two
  fetches, one of which may come too early; one analysis belongs to a page and
  the other to a client of the API.
- `cache`: two entries, the smallest deque in which positions shift and not all
  is lost; three analyses, so that one stores, one evicts and one reads; two
  knowledge bases, topics and embedding spaces, so that each can be mixed up;
  one change and one restart.
- `kb`: two knowledge bases, one a user creates (`Created`) and one for its
  snapshot, as two that users created share nothing but the line of ingestion; two
  documents, so that one can be the other's copy or its neighbour; contents
  without text and with two chunks, so that indexing can stop half way; two
  requests besides the uploads, which covers every pair of operations; one fault;
  a read of two records, which is all of a document that can be copied here and half
  of what a knowledge base with both documents holds, so that a re-indexing is
  cut short. Snapshots that are cut short are left to the theorem: beyond the limit
  on chunks the property promises nothing (section 7), and a third document to be
  cut off would need a fourth and a fifth for the copies.
- `registry`: two local models and a cloud one under two keys each, so that local
  and verification clients compete for two places and cloud clients pass them by;
  four clients, so that two evictions follow each other; two callers, one of which
  may hold what the other evicts; one permit, so that one of them waits.
- `discovery`: one provider of each kind, as they differ in what their server
  lists; three models, one of which only embeds, so that a list may shrink, be
  replaced and be filtered, and one of which only the scan of the hub finds; two checks, which suffice for one to overtake
  the other; one change and one fault or restart. At first all is
  installed, as removals, which the merges must notice, are the hard direction, or
  nothing is, so that an install happens too.
- `admission`: every environment over two models; one local and both cloud
  providers, which the overrides tell apart, each supporting its own default only, one
  with another default for verification;
  one request, as requests share nothing but the stamps and what is discovered, and
  those also change by themselves; two ticks of lifetime, so that a stamp is fresh,
  old or expired; two probes.
- `retrieval`: five chunks, one stale and one without a document; lists of up to
  four, more than the smaller window (2 in place of 4) and as many as the
  candidates (`FusionTopK`); `rrf_k` itself is 60, as the thresholds depend on it;
  two sub-queries, so that one survives the other; batches of three and a cache of
  three, so that the early end leaves a tail and the cache drops an entry; a context
  of two verified and one external chunk; two rounds, so that the second meets the
  cache of the first and the wide search.
- `verdict_changes`: the configured thresholds and claim limit, all of them.

`MaxFaults`, `MaxCrashes`, `MaxCalls`, `MaxChanges`, `MaxRestarts`, `MaxClients`,
`MaxProbes`, `MaxRounds` and the finite sets of analyses, requests, tasks and
checks bound the environment and never the code. The bounds of the code keep its
names: `MaxAttempts`, `MaxEntries`, `MaxFallback`, `MaxRetrievals`, `Permits`,
`MaxFetches`, `MaxInstances`, `CacheSize`, `FusionTopK`. `kb`, `cache` and
`registry` use symmetry among
identities and therefore check no liveness; their action properties quantify over
all identities, so symmetry is sound for them.

## 5 Fairness

`AnalysisPages` (`ServiceFairness` and the page's own) assumes

- weak fairness of the pipeline of each analysis: the event loop runs ready
  tasks, and each node has a timeout (`asyncio.wait_for`,
  `agent/graph.py:155` and `:917`), so a call that waits for a permit or an
  answer is cancelled at last;
- weak fairness of granting permits: `asyncio.Semaphore` wakes its first waiter;
- weak fairness of each event stream: it sends what is queued, or its six-minute
  limit ends it;
- weak fairness of each page: the timers of the browser go off.

Nothing is assumed about new requests, faults, restarts or reconnections.

`ModelDiscovery` (`Fairness`) assumes

- weak fairness of each check under way and of the seeding: the event loop runs
  them, and each of their waits has a timeout;
- strong fairness of starting a check of each provider: the page asks for all
  providers every eight seconds, and a check can start whenever one of the
  bounded number under way is over. Weak fairness would let the checks of one
  provider occupy them all at every moment that counts.

Nothing is assumed about the host. `Converges` needs no assumption that it comes to
rest, because the bounds on changes and faults are finite; a service whose models
change for ever makes no such promise.

## 6 Proofs

All proofs are checked to the last leaf; some 10 500 obligations in eight modules.
Every invariant, action property and refinement of the passing runs is stated by a
theorem; only the three liveness properties stay with TLC.

**`AgentGraph_proofs`**, for every number of attempts, list of strategies,
budget, cap and number of calls (assumption `GraphAssumption`, and the thresholds'
assumption of `Verdict`). `TypeCorrect`, `RoundsAreBounded`,
`TrustedAnswersAreVerified`, `SearchOutagesEndRuns`, `DisplayedClaimsMatch` and
`SpendingIsBounded` each state `Spec => []P`. None of the properties is
inductive. `IInv` adds what each node relies on when it starts:

- *types*, with attempts left whenever recovery runs;
- *steps*: a node is reached after at most four steps per counted attempt and
  its own position (`StepBound`), unless a recovery fell back without counting;
- *trust*: a diagnosis on which verification takes its fast path is of this
  round, and came with cleared claims, so the path cannot report old ones;
- *outage*: a search outage of this round has used up the attempts and left no
  chunks and no claims;
- *display*: while a round is under way, recorded claims are of earlier attempts;
- *spend*: what can have been spent when a node begins. A verification past the
  cap still spends, but only when no attempt is left.

The same module proves the verdict (`CountsSpec` of `VerdictChanges`) for every
threshold and number of claims. `EvidenceHelps` is the action property
`BetterEvidenceNeverHurts`. `CoverageAloneDecides` needs the thresholds for
coverage and contradiction to add up to 100 or more, which the configured 80 and
20 just do. `PaddingHelpsNobody` (`PaddingNeverHelps`) needs in addition an
abstention threshold of 25 or more (50 is configured): where contradictions are
the majority a padded answer may score higher than before, but both scores are
then below a quarter, and so both are abstained.

For each node of the loop an `...Effect` lemma states what its actions do to the fields the
invariant reads. Then one `...Step` lemma per conjunct shows that every node
preserves it, and the theorems follow with `PTL`.

**`ClaimVerification_proofs`**, for any numbers of claims, retrievals, segments and
calls, with or without a cap, and every threshold. `VerificationInvariant` is the
inductive `IInv`; from it follow `LinksAreOfTheirContext`,
`VerdictsAreAboutTheirClaims`, `EarlyExitsFail` and `DecidedClaimsStay` (an action
property). It adds to the types:

- *results*: the result kept at position `i` is about claim `i` (`ResultsOwn`), and
  so is the record as long as the cap lasts (`OwnWhileCapLasts`);
- *retrieval*: only NEUTRAL claims wait for it, and a claim with evidence linked to
  it was decided on the fresh context (`TodoNeutral`, `LinkedFresh`);
- *records*: where the batch had a result for claim `i`, the record follows it
  (`DocsFollow`); without chunks a recovery round decides nothing (`NoneDecided`);
- *exit*: the loop leaves early only past the threshold (`ExitIsOver`);
- *spending*: at most four calls, and one more for each claim in `Handled`, so
  that no claim pays twice (`Spending`).

`EarlyExitsFail` compares cardinalities: the contradictions counted when the loop
left are among those on record, and the records are as many as the claims.
`VerificationImplementsClaimCheck` is the refinement: each action maps to `Call`,
`Counted`, `Nothing` or `BreaksOff` of `ClaimCheck`, or to a stutter.

**`AnalysisRuns_proofs`**, for any finite set of analyses and any number of
permits, faults, restarts and calls. `TypeCorrect`, `ResultsAreReported`,
`PermitsAreKept` and `AnnouncedResultsAreFinal` (an action property, which the
refinement below implies and the run therefore does not repeat) follow from
`RunInv`: the types, the line of waiters (each once, exactly those in the two
waiting phases), the count of held permits, and for each task what its phase
implies for the record, the trace and the faults so far. That permits are kept
needs the cardinalities of the sets of holders, argued with the facts of
`FiniteSetTheorems`.

The pages are proved over the service. `PagesRunTheService`: each step of the
composition is a step of the service or leaves it alone, so `RunInv` and all it
implies hold under any number of pages. `ShownResultsAreStored` adds that what a
page fetched last and found final is the record, as long as no write failed.
`PagesImplementResult` is the refinement to `AnalysisResult`: `StatusInv` ties the
record to the phase of its task (nothing is decided before it is processed), so
that `MarkProcessing` is `Begin`, `StoreResult` is `Decide`, `Announce` is itself,
an announced failure is `GiveUp`; a write that raises only counts as a failure; and by
`FetchedIsShown` a page that has fetched a final record shows it, so a fetch that
finds one is `Show` and every other step of a browser a stutter.

**`SemanticCache_proofs`**, for any numbers of analyses, knowledge bases, topics
and embedding models, and any bounds. `AnswersStayInTheirKb`, and the action
properties `InvalidatedStaysGone` (`InvalidatedIsGone`) and `FindsAreEquivalent`
(`EquivalentUnlessFull`) follow from `CacheInv`: the types; each answer is stored
once and stamped after all before it (`Stamped`), so deque and file hold each once
(`DequesInv`); an entry that a lookup can match was stored after the last
invalidation of its knowledge base, and none in the file can be matched
(`PurgedInv`, the strengthening that covers restarts); and a matrix
that is not flagged holds, position by position, the rows of the oldest entries
of a deque below its bound (`MatrixInv`). The last needs the positions of a set in the order of its stamps,
hence cardinalities.

**`KnowledgeBase_proofs`**, for any finite set of knowledge bases, any documents,
contents, requests, faults and limit on reads. `CompletedDocumentsAreSearchable`,
`RemovalsLeaveNoVectors`, `UploadsSettle`, and the action properties
`SnapshotsAreComplete` and `RollbacksKeepTheirOwn` follow from one `IInv`, whose
parts say what each suspended operation relies on:

- which steps an operation can be at (`StepsOf`), that the task of an upload works
  on a record of its own (`TasksOwnRecords`), and that chunks, points and what
  requests have read belong to documents that were taken (`DataHaveOwners`,
  `RequestsHaveOwners`);
- how far indexing has come: all chunks from `recorded` on, the points before the
  next one, everything once the status is completed (`TasksIndex`), unless a
  removal has taken data of the document;
- that no vector is left when a removal reaches its records (`RemovalsClean`),
  unless somebody wrote to the document during or after it: this is "vectors
  first", and it fails without the history variable `raced`;
- that the task of an upload which comes to its end has settled its document,
  whatever failed (`UploadsSettle`): only a lost task may leave it processing;
- for a snapshot or rollback that nothing disturbs: snapshots are of other
  knowledge bases (`SnapshotsOfOthers`), the copies so far are complete
  (`CopiesSoFar`), and what the snapshot held of its own is served (`OwnIsServed`).
  Of the chunks this holds as long as one read returns them all (`ReadsReturn`),
  which is the condition of `SnapshotIsComplete`. Documents need none: if a read of
  them is cut short, the first chunk of one that was left out ends the snapshot with
  an error, and it is not reported as made.

**`ModelRegistry_proofs`**, for any finite sets of models and tasks and any
bounds. `LocalsStayBounded`, `NoClientIsLost`, `CloudCallsAreUncut` (an action
property) and `RegistryTypes` follow from `IInv`: the types; the permits add up;
a registered client is open and stands under one key; a caller under a cloud key
whose client is open uses the one registered under that key; those who wait call
a local model. The bound needs cardinalities of the sets of keys, before and
after an eviction. That the cloud calls are not cut rests on `Oldest` being
taken from the bounded keys alone.

The same module proves `ModelDiscovery` (`DiscoverySpec`), for any providers, models
and number of checks: `OffersWereInstalled`, `ChecksAreExact` and
`OffersAreNeverEmptied`. Besides the types, every list that is read, served, seeded
or stored is of what was once on the disk, and a check that is still fresh holds
what the host lists now. The safety theorems use no fairness.

**`Admission_proofs`**, for any models, lists and environment.
`AnalysesRunWhatWasAllowed` follows from `IInv`: the types, that an admitted
request was allowed what the policy took for its model (`PolicyHeld`), and that
what is recorded is what was resolved (`RecordedIsResolved`). The heart is the
lemma `DerivationsAgree`: the orders of `Settings` and of `ModelConfig` lead to
one model unless `GEMINI_MODEL` and `LLM_MODEL` differ. `CloudModelsAreLive`
(`LiveModels`) needs that the stamp of a model is as old as its last answer
(`StampsAreAnswers`): only an answered probe sets it, and both age together.

**`RetrievalRound_proofs`**. `BothLegsAreConfident`, `OneLegIsNeverConfident` and
`OneLegKeepsTheBudget` say for every rank what the threshold of 0.02 means: a
chunk that both legs list within the first 100 - `rrf_k` ranks always passes, one
that a single leg lists never does when `rrf_k` is at least 50. `FusionIsMonotone`
says that a better rank, and being found by both legs, scores higher.
The invariants of the run hold for any number of sub-queries, legs, chunks and
rounds, any lists and any cache: `OutagesAreTotal`, `FreshEvidenceIsKept`,
`CacheStaysTrue`, `LeadersAreScored`, `ContextsAreEvidence`. They follow from
`RoundInvariant`, `OutageInv /\ WorkInv`: the shape of the legs while a search is
under way and of each sub-query after it, what was collected until it is ranked,
ranked and audited rows in their types, a cache of true scores within its size,
and the properties themselves. The argument has three parts:

- *lists*: a finite set put in order has each member once (`ListedOnce`), so a
  filter keeps what it does not drop and a sort is a permutation; `Higher` is a
  weak order on fractions, so a sorted list descends;
- *nothing is lost*: the fusion has a row for each chunk of either list, the
  temporal filter drops only stale ones, the window and the bound of the
  candidates cut only when there is no more room, and the merge covers the rows of
  every sub-query that came through;
- *an early end leads nowhere*: the reranker stops only on a scored chunk of at
  least `Sure`, which is positive, so the padding of 0.0 ranks behind it.

**Only model-checked** are the three liveness properties `EveryRunEnds`,
`PageSettles` and `Converges`: liveness under fairness, and `ENABLED`, are out of
this prover's reach. So are induction over data and `RECURSIVE` operators; no
module here declares one, and what lists keep is proved from their sets and
cardinalities instead.

## 7 Where the code and its documentation disagree

Shown by a run (quoted in `PROJECT.json` under `findings`):

1. `graph_outage`: `agent/graph.py:190`. The notice of an LLM outage contains
   "insufficient evidence", which is a refusal pattern; verification then replaces
   the `LLM_OUTAGE` diagnosis, and the notice enters the answer cache.
2. `cache_outlives`: `agent/graph.py:1551`. An analysis that is running while
   its evidence is deleted stores its answer after the invalidation.

Met while modelling; the models take the code's side, and the property named
excepts the case or shows what is left of the promise:

*Verification, service, cache, knowledge bases*

- `verification/verifier.py:1297`. Stopped by the spend guard, the loop over the
  claims reuses the result of the previous claim; on the first claim the name is
  unbound (`VerdictsAreOwn`).
- `services/analysis_service.py:560`. A pipeline holds a permit of the semaphore
  its own local calls wait for. With one permit, the default that
  `src/.env.example:145` names, nothing runs until a node times out
  (`EveryRunEnds` holds by those timeouts alone).
- `core/semantic_cache.py:339`. `_MATRIX_DIRTY` is assigned without `global`, so
  an insert never flags the matrix; in a full deque it shifts the positions
  (`EquivalentUnlessFull`).
- `services/kb_service.py:284`. Promotion keeps the snapshot flag of documents and
  chunks, and the next snapshot skips them: snapshot, roll back, snapshot again,
  roll back, and what the first snapshot copied is not copied again
  (`RollbackKeepsOwn`).
- `services/kb_service.py:285` and `:312` read at most 10 000 documents and chunks
  and drop the rest silently, while all vectors are copied. A snapshot of a knowledge
  base with more chunks is reported as made and serves less than the original, which
  the integrity audit notices and no one else, and a rollback to it deletes the
  original; the docstring at `:246` promises "a copy of the current state".
  `SnapshotIsComplete` has the limit as its condition. The re-indexing of an empty
  collection has the same limit (`agent/graph.py:417`) and is not repeated once
  there are points.
- `agent/graph.py:1145` clears the diagnosis before the strategy is chosen from
  it, so the table of strategies by diagnosis (`:1227`,
  `src/apps/api/config/models.yaml:211`) is never used.
- `agent/graph.py:932` and `:944` set PASS for an answer whose verification
  broke off on the last attempt; it is cached although the comment at `:1540`
  speaks of verified answers. (It is never *reported* TRUSTED: `TrustedIsVerified`.)
- `agent/graph.py:1204`: the fallback of a failed recovery restores the attempt
  count, so failing recoveries are not counted, against
  `src/docs/architecture/architecture.md:153`; LangGraph's recursion limit ends such a run. Of
  the loop's properties the bounds and the displayed claims leave out such runs;
  types, trust and search outages do not.
- `agent/graph.py:1120`: an exhausted recovery budget ends the loop with PASS
  and the claims it has, and does not abstain as the docstring at `:1086` says. `agent/graph.py:841`: verification itself is
  not under the spend guard, hence the overrun in `SpendCeiling`.
- `generation/generator.py:853` answers ABSTAIN for an unreachable provider,
  against the intent at `agent/graph.py:188` to report outages as outages.
- The bound on targeted retrievals is per round, not per analysis
  (`src/docs/architecture/architecture.md:57`).
- `PlaygroundPage.jsx:258`: after a broken stream the page fetches the record a
  bounded number of times, shows it even if it is still being processed, and
  follows it no further, against `src/docs/TRUSTRAG_specs.md:1027`. A failure the
  exception handler announces may be fetched before it is stored
  (`services/analysis_service.py:789`). `lib/api.js:86` does not know
  `analysis.outage`, which the poll makes up for.
- `kb_service.py:463` skips the guard of the rollback when the snapshot has no
  collection at all, against the docstring at `api/v1/knowledge_bases.py:114-118`.
- `kb_service.py:483-485`: a rollback removes MongoDB records before vectors,
  contrary to "Vectors FIRST" at `:142`; `NoOrphanedVectors` excepts those documents.
- `kb_service.py:486`: a crash between deletion and promotion leaves a snapshot
  without a parent, which no operation can promote.
- `kb_service.py:295`: a snapshot taken during ingestion copies the status
  "pending" or "processing", and no task will complete the copy.
- `semantic_cache.py:139`: the file lacks the embedding model of its entries,
  so after a restart none of them matches again.
- `src/docs/PERFORMANCE-GUIDE.md:68` describes the flag
  `enable_response_caching`, which nothing reads.

*Retrieval, reranking and web search*

- `retrieval/retriever.py:477` raises an outage only when both legs are late. With
  `sparse_top_k: 0`, which ships (`src/apps/api/config/models.yaml:147`), the
  sparse leg answers at once with nothing, so a late dense leg passes for an empty
  result, against the docstring at `:426-428` (`OutageIsTotal` speaks of legs that
  answered). A fan-out with one outage and one empty branch does the same, against
  `agent/router.py:16`. So does an outage of the search that follows a
  re-indexing (`agent/graph.py:516`).
- `retrieval/retriever.py:500` and `retrieval/reranker.py:112` mean by a score of
  0.02 "near #1 in both legs". It is in fact "in both legs, within the first
  forty", and with one leg it is never reached, so `adaptive_top_k` has no effect
  in the configuration that ships (`BothLegsAreConfident`, `OneLegKeepsTheBudget`).
- `retrieval/reranker.py:253`: the tail that an early end leaves is padded with
  0.0, which ranks before every chunk that was scored negative. The same query,
  asked again, scores the tail, and its ranking changes.
- `agent/graph.py:618`: web results count as "corrupted or tampered segments" in
  the trace event.
- Points without a document are EXTERNAL_UNAUDITED and may take places of web
  citations. The wide round of a recovery enables the sparse leg although the
  configuration disables it. A comparison loses the year of its query
  (`agent/router.py:131`).

*Models*

- `api/v1/schemas/analysis.py:119`: with `GEMINI_MODEL` and `LLM_MODEL` both set, the
  policy checks one and the other runs (`RunsWhatWasAllowed` excepts it). `LLM_MODEL`
  also applies to nvidia, which the policy then rejects, and an operator who writes
  `nim` loses the override: both fail closed.
- `VERIFICATION_MODEL` (`src/.env.example:54`) and `verification.*` are validated by
  the policy and have no effect on analyses, which verify with their own model.
- `verification/verifier.py:56` takes the provider that is configured for
  verification and not that of the analysis for the timeout of its calls, against
  the docstring at `:49-50`.
- `core/local_llm.py:723`: the docstring promises that a burst of analyses does not
  pay one probe each; requests that come before the first answer do (`Admission`
  lets them).
- `core/local_llm.py:876`: seeding adds and never replaces, so models that were
  removed come back at a restart until the next check; checks never save the
  snapshot; of two overlapping checks the older may write last. `Converges` shows
  that the next undisturbed check puts it right.
- `core/model_registry.py:378`: a key `verify:<provider>` is not recognised as
  cloud, against the comment at `:337-340`, so verification clients of cloud models
  count against the memory of the host and may be closed in a call
  (`CloudCallsUncut` is about generation). `_LLM_REGISTRY_CLOSED` is never reset, so
  an application started twice in a process keeps no client.

## 8 What is not modelled

- **Text and numbers**: prompts, JSON repair, refusal patterns, citation
  clean-up, the neural scores, embedding, parsing, chunking, OCR. What depends on
  them is a choice among the outcomes the control flow tells apart.
- **Authentication**: single atomic calls of MongoDB around cryptographic libraries.
- **Experiments, internal routes, the protocol of the MCP server, the other pages
  and the read-only routes**: single requests or values without interleaving state.
- **The fetching of documents by address** (`services/search_service.py`): stateless.
- **The embedding model and the reranker model of the registry**: loaded once and kept.
- **Fine timing within a step**: the ports of mlx are asked at one moment; a thread
  that a time-out leaves behind stores its scores at that moment and not during the
  next round; the repository ids that the hub lists beside quantified ids of the same
  weights are one model; the audit's limit of 100 chunks is above every limit of a
  context.
- **The rate limiter, measurements, logging, metrics, statistics, page images, the
  pin of the embedding model, and schema upgrades of old collections.**

A component marked *partly* in `PROJECT.json` is represented by its outcomes
where another component depends on them.

## 9 Plan

In this order; the most important behaviour came first. Done: `Verdict`,
`AgentGraph` with proofs, `ClaimVerification` with proofs and its refinement,
`AnalysisRuns` and `AnalysisPages` with proofs and their refinement, `SemanticCache`,
`KnowledgeBase`, `ModelRegistry`, `ModelDiscovery`, `Admission` and `RetrievalRound`
with proofs. Left:

1. That the outcomes of `RetrievalRound` are those of the retrieval node of
   `AgentGraph`, as a refinement with an abstract node.
2. Properties for the three hazards that have none: recoveries that keep failing
   (`agent/graph.py:1204`), the PASS of a verification that broke off
   (`agent/graph.py:932`), the snapshot that lost its parent
   (`services/kb_service.py:486`).
3. Liveness of ingestion (every upload is settled) in a small instance without
   symmetry.
4. Chunking arithmetic as pure operators: overlaps cover the text, no empty
   chunk. Login throttling, with low priority.

## 10 Running it

    tlc -workers 2 -config AgentGraph.cfg MCAgentGraph
    tlapm AgentGraph_proofs.tla

Module and configuration of each run are in `PROJECT.json`. No run takes more
than a few minutes on two workers.
