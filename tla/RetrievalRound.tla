---------------------------- MODULE RetrievalRound ----------------------------
(***************************************************************************)
(* The retrieval node from the search to the context of the generation:    *)
(* the sub-queries of a routed query with a dense and a sparse leg each    *)
(* (agent/router.py, retrieval/retriever.py), the reranking, the integrity *)
(* audit, the web grounding, and the evidence records (agent/graph.py).    *)
(* The rounds of an analysis follow each other and share the cache of      *)
(* scores.                                                                 *)
(***************************************************************************)
EXTENDS Reranking, WebSearch

CONSTANTS
  Chunks,      \* the points of the collection
  Live,        \* those whose document exists and is valid at the time asked for
  Legacy,      \* those without a document, which no filter judges
  Lists,       \* what the search of a leg may return
  Configs,     \* the legs a configuration may enable (dense_top_k, sparse_top_k)
  MaxSubs,     \* the sub-queries of a routed query, max_sub_queries
  FusionTopK,  \* fusion_top_k
  Adaptive,    \* adaptive_top_k
  RerankTopK,  \* reranker.top_k
  MaxContext,  \* max_context_chunks of the configuration
  GenCap,      \* max_context_chunks of the tier
  WebCap,      \* the external chunks a context takes, 3
  WebAnswers,  \* what an engine may return
  Providers,   \* the engines an analysis may name, {} without web search
  MaxRounds

Legs == {"dense", "sparse"}

ASSUME RoundAssumption ==
  /\ Legacy \subseteq Live /\ Live \subseteq Chunks
  /\ Configs \subseteq SUBSET Legs /\ Adaptive \in BOOLEAN
  /\ {MaxSubs, FusionTopK, RerankTopK, MaxContext, GenCap, WebCap, MaxRounds} \subseteq Nat \ {0}
\* A search returns a point once.
Once(list) == \A i, j \in DOMAIN list : list[i] = list[j] => i = j
ASSUME ListsAssumption == \A l \in Legs : \A list \in Lists[l] : list \in Seq(Chunks) /\ Once(list)
ASSUME RelevanceAssumption == Relevance \in [Chunks -> Int]
ASSUME WebAssumption ==
  /\ MaxResults \in Nat \ {0} /\ Providers \subseteq {"tavily", "duckduckgo", "both"}
  /\ \A answer \in WebAnswers : answer = Broken \/ answer \in Seq(Urls \cup {NoUrl})

VARIABLES
  enabled,     \* the legs the configuration enables
  round,
  stage,
  healing,     \* the search that follows a re-indexing of an empty collection
  wide,        \* the round of re_retrieve
  subs,        \* the sub-queries: their legs and what came of them
  rows,        \* the candidates, then the ranked chunks
  scored,      \* whether the model ranked them
  cache,       \* _reranker_cache
  audited,     \* audited_chunks
  evidence,    \* the records of this round
  context,     \* state["chunks"]
  ids          \* state["evidence_ids"], positions in evidence
vars == <<enabled, round, stage, healing, wide, subs, rows, scored, cache, audited, evidence, context, ids>>
kept == <<enabled, round, wide>>

Waiting == [is |-> "waiting", list |-> <<>>]
LateLeg == [is |-> "late", list |-> <<>>]
Answered(list) == [is |-> "answered", list |-> list]

Pending == [is |-> "pending", rows |-> <<>>]
Outage == [is |-> "outage", rows |-> <<>>]
Broke == [is |-> "broken", rows |-> <<>>]
Retrieved(found) == [is |-> "rows", rows |-> found]

\* top_k <= 0 answers at once with nothing; the override of a wide round
\* enables both legs.
NewSub(asWide) ==
  [leg |-> [l \in Legs |-> IF asWide \/ l \in enabled THEN Waiting ELSE Answered(<<>>)], out |-> Pending]

Init ==
  /\ enabled \in Configs
  /\ round = 0 /\ stage = "ready" /\ healing = FALSE /\ wide = FALSE
  /\ subs = <<>> /\ rows = <<>> /\ scored = FALSE /\ cache = <<>>
  /\ audited = <<>> /\ evidence = <<>> /\ context = <<>> /\ ids = <<>>

SearchAnew(n, asWide, heal) ==
  /\ subs' = [s \in 1..n |-> NewSub(asWide)]
  /\ stage' = "searching" /\ healing' = heal

\* route_query splits a comparison or a question; re_retrieve widens a later
\* round whose evidence is thin.
Start(n, asWide) ==
  /\ stage \in {"ready", "error"} /\ round < MaxRounds
  /\ asWide => round > 0 /\ Len(context) < GenCap
  /\ SearchAnew(n, asWide, FALSE)
  /\ round' = round + 1 /\ wide' = asWide
  /\ rows' = <<>> /\ scored' = FALSE
  /\ audited' = <<>> /\ evidence' = <<>> /\ context' = <<>> /\ ids' = <<>>
  /\ UNCHANGED <<enabled, cache>>

downstream == <<kept, rows, scored, cache, audited, evidence, context, ids>>
InSearch(s) == stage = "searching" /\ s \in DOMAIN subs /\ subs[s].out = Pending

\* dense_search, sparse_search within the 45 s of a branch.
LegEnds(s, l, leg) ==
  /\ InSearch(s) /\ subs[s].leg[l].is = "waiting"
  /\ subs' = [subs EXCEPT ![s].leg[l] = leg]
  /\ UNCHANGED <<stage, healing, downstream>>
LegAnswers(s, l) == \E list \in Lists[l] : LegEnds(s, l, Answered(list))
LegIsLate(s, l) == LegEnds(s, l, LateLeg)
SubEnds(s, out) ==
  /\ InSearch(s)
  /\ subs' = [subs EXCEPT ![s].out = out]
  /\ UNCHANGED <<stage, healing, downstream>>
\* RetrievalOutageError of a leg is that of the sub-query, whatever the other
\* leg answers.
LegFails(s, l) == subs[s].leg[l].is = "waiting" /\ SubEnds(s, Outage)

\* apply_temporal_filtering
Served(found) == Keep(found, {i \in DOMAIN found : found[i].chunk \in Live})

\* A confident first row leaves the smaller window.
Budget(found) ==
  IF Adaptive /\ found # <<>> /\ Confident(found[1].rrf) THEN Smaller(Window, FusionTopK) ELSE FusionTopK

\* Stale rows take places of the budget.
CutThenFilter(dense, sparse) ==
  LET fused == Fuse(dense, sparse) IN Served(First(Budget(Served(fused)), fused))
FilterThenCut(dense, sparse) ==
  LET served == Served(Fuse(dense, sparse)) IN First(Budget(served), served)

\* The rest of retrieve_hybrid_chunks once both legs ended.
LegsEnded(s) == \A l \in Legs : subs[s].leg[l].is # "waiting"
SubRetrieves(s) ==
  /\ InSearch(s) /\ LegsEnded(s)
  /\ LET leg == subs[s].leg
     IN SubEnds(s, IF leg["dense"].is = "late" /\ leg["sparse"].is = "late" THEN Outage
                   ELSE Retrieved(FilterThenCut(leg["dense"].list, leg["sparse"].list)))
\* MongoDB fails in the temporal filter.
SubBreaks(s) ==
  /\ InSearch(s) /\ LegsEnded(s)
  /\ \E l \in Legs : ~ Range(subs[s].leg[l].list) \subseteq Legacy
  /\ SubEnds(s, Broke)

Survivors == {s \in DOMAIN subs : subs[s].out.is = "rows"}

\* A failed branch fails the fan-out.
CollectStrict ==
  IF \E s \in DOMAIN subs : subs[s].out.is = "broken" THEN [stage |-> "error", rows |-> <<>>]
  ELSE IF Survivors # DOMAIN subs THEN [stage |-> "outage", rows |-> <<>>]
  ELSE [stage |-> "found", rows |-> MergeFanout([s \in DOMAIN subs |-> subs[s].out.rows])]
\* fanout_retrieve keeps what the branches that did not fail found.
Collected ==
  IF Survivors # {} THEN
    [stage |-> "found",
     rows |-> IF Len(subs) = 1 THEN subs[1].out.rows
              ELSE MergeFanout([s \in DOMAIN subs |-> subs[s].out.rows])]
  ELSE IF Len(subs) = 1 /\ subs[1].out.is = "broken" THEN [stage |-> "error", rows |-> <<>>]
  ELSE [stage |-> "outage", rows |-> <<>>]

\* The search after a re-indexing is best effort: its failure leaves nothing.
Collect ==
  /\ stage = "searching" /\ \A s \in DOMAIN subs : subs[s].out # Pending
  /\ stage' = IF healing THEN "found" ELSE Collected.stage
  /\ rows' = Collected.rows
  /\ UNCHANGED <<kept, healing, subs, scored, cache, audited, evidence, context, ids>>

\* Nothing found in the first attempt: an empty collection is re-indexed and
\* searched once more, or the knowledge base is empty.  A later round is still
\* the first attempt if the recovery before it failed, which restores the count
\* and drops the strategy.
Heal ==
  /\ stage = "found" /\ rows = <<>> /\ ~wide /\ ~healing
  /\ SearchAnew(1, wide, TRUE)
  /\ UNCHANGED downstream
EmptyKB ==
  /\ stage = "found" /\ rows = <<>> /\ ~wide /\ ~healing
  /\ stage' = "emptyKB"
  /\ UNCHANGED <<kept, healing, subs, rows, scored, cache, audited, evidence, context, ids>>

Limit == IF wide THEN Smaller(2 * GenCap, GenCap + 4) ELSE MaxContext
Depth == Max({RerankTopK, FusionTopK, Limit})

Top(top, byModel, newCache) ==
  /\ stage = "found"
  /\ stage' = "ranked" /\ rows' = top /\ scored' = byModel /\ cache' = newCache
  /\ subs' = <<>>
  /\ UNCHANGED <<kept, healing, audited, evidence, context, ids>>
RankByModel ==
  LET out == Rerank(First(Depth, rows), cache) IN rows # <<>> /\ Top(Slice(out.rows, Limit), TRUE, out.cache)
\* The model fails, before or after the look-ups; nothing is stored.
RankFails ==
  LET chunks == [i \in DOMAIN First(Depth, rows) |-> rows[i].chunk]
  IN \E after \in {cache, Touch(cache, Hits(chunks, cache))} : Top(First(Limit, rows), FALSE, after)
\* Reranking is disabled, no model can be loaded, or there is nothing to rank.
RankUnchanged == Top(Slice(rows, Limit), FALSE, cache)

\* audit_evidence_integrity: the reference hash of a chunk of bad is missing or
\* another.  It looks at a hundred chunks, more than any limit leaves.
Status(c, bad) ==
  IF c \in Legacy THEN "EXTERNAL_UNAUDITED" ELSE IF c \in bad THEN "CORRUPTED" ELSE "VERIFIED"
Audit ==
  /\ stage = "ranked"
  /\ \E bad \in SUBSET {rows[i].chunk : i \in DOMAIN rows} :
       audited' = [i \in DOMAIN rows |-> [chunk |-> rows[i].chunk, status |-> Status(rows[i].chunk, bad)]]
  /\ stage' = "audited" /\ rows' = <<>>
  /\ UNCHANGED <<kept, healing, subs, scored, cache, evidence, context, ids>>

\* execute_mcp_tool with the engine of the analysis; it may fail.
WebItems ==
  {<<>>} \cup {Search(p, tavily, instead, duck) :
     p \in Providers, tavily \in WebAnswers, instead \in WebAnswers, duck \in WebAnswers}
Ground ==
  /\ stage = "audited" /\ Providers # {}
  /\ \E items \in WebItems :
       audited' = audited \o [i \in DOMAIN items |-> [chunk |-> items[i], status |-> "EXTERNAL_UNAUDITED"]]
  /\ stage' = "grounded"
  /\ UNCHANGED <<kept, healing, subs, rows, scored, cache, evidence, context, ids>>

Positions(list, status) == Ascending({i \in DOMAIN list : list[i].status = status})
\* The identifiers of the records in front.
FirstIds(list) == [i \in DOMAIN Positions(list, "VERIFIED") |-> i]
VerifiedIds(list) == Positions(list, "VERIFIED")

\* insert_many, the verified chunks up to the cap, the external ones behind.
Save ==
  /\ \/ stage = "grounded"
     \/ stage = "audited" /\ Providers = {}
  /\ evidence' = audited
  /\ LET external == IF Providers = {} THEN <<>> ELSE First(WebCap, Positions(audited, "EXTERNAL_UNAUDITED"))
         at(list) == [i \in DOMAIN list |-> audited[list[i]].chunk]
     IN /\ context' = at(First(GenCap, Positions(audited, "VERIFIED"))) \o at(external)
        /\ ids' = First(GenCap, VerifiedIds(audited)) \o external
  /\ stage' = "ready" /\ audited' = <<>>
  /\ UNCHANGED <<kept, healing, subs, rows, scored, cache>>

\* What the cache may be when the time is over while the chunks are ranked: the
\* thread cannot be stopped and stores its scores.
CacheAfter ==
  {cache} \cup IF stage = "found" /\ rows # <<>> THEN {Rerank(First(Depth, rows), cache).cache} ELSE {}

\* A write fails, or the time of the node is over: RETRIEVAL_ERROR.
NodeFails ==
  /\ stage \in {"searching", "found", "ranked", "audited", "grounded"}
  /\ stage' = "error"
  /\ subs' = <<>> /\ rows' = <<>> /\ audited' = <<>> /\ scored' = FALSE
  /\ cache' \in CacheAfter
  /\ UNCHANGED <<kept, healing, evidence, context, ids>>

Next ==
  \/ \E n \in 1..MaxSubs, asWide \in BOOLEAN : Start(n, asWide)
  \/ \E s \in DOMAIN subs, l \in Legs : LegAnswers(s, l) \/ LegIsLate(s, l) \/ LegFails(s, l)
  \/ \E s \in DOMAIN subs : SubRetrieves(s) \/ SubBreaks(s)
  \/ Collect \/ Heal \/ EmptyKB
  \/ RankByModel \/ RankFails \/ RankUnchanged
  \/ Audit \/ Ground \/ Save \/ NodeFails

Spec == Init /\ [][Next]_vars

-----------------------------------------------------------------------------
\* Evidence that a leg of a surviving sub-query returned and that may be served
\* is a candidate, unless candidates fill the smallest budget: neither a late
\* leg, a failed sub-query nor stale evidence crowds it out
\* (retrieve_hybrid_chunks, fanout_retrieve).
FreshEvidenceKept ==
  stage = "found" =>
    \A s \in Survivors, l \in Legs : \A c \in Range(subs[s].leg[l].list) \cap Live :
      \/ \E i \in DOMAIN rows : rows[i].chunk = c
      \/ Len(rows) >= Smaller(Window, FusionTopK)

\* An outage is reported where no sub-query could be searched, and only there:
\* partial failures degrade, and a total one never passes for an empty result,
\* but in the search after a re-indexing, and but for a single leg that is late
\* where the other is disabled (fanout_retrieve, retrieve_hybrid_chunks).
OutageIsTotal ==
  /\ stage = "outage" => Survivors = {}
  /\ stage = "found" /\ ~healing => Survivors # {}
  /\ stage \in {"searching", "found"} => \A s \in Survivors : \E l \in Legs : subs[s].leg[l].is = "answered"

\* The cache holds one entry for a chunk, with the score the model gives it,
\* within its size: neither padding nor a stale score is ever looked up
\* (_rerank_sync, _RerankerCache).
CacheIsTrue ==
  /\ Len(cache) <= CacheSize
  /\ \A i \in DOMAIN cache : cache[i].score = Relevance[cache[i].chunk]
  /\ Cardinality(Cached(cache)) = Len(cache)

\* The first of the ranked chunks was scored, now or before, although scoring
\* stopped early and the chunks behind got 0.0, which is more than the score of
\* many that were scored (_rerank_sync).
LeaderWasScored ==
  stage = "ranked" /\ scored => rows[1].rerank = Relevance[rows[1].chunk]

\* The context and the identifiers of its evidence are aligned: each names the
\* record of its chunk, none that is corrupted, at most the cap of verified ones
\* first and external ones behind (retrieval_node).
ContextIsEvidence ==
  stage = "ready" =>
    /\ Len(context) = Len(ids)
    /\ \A i \in DOMAIN ids : evidence[ids[i]].chunk = context[i] /\ evidence[ids[i]].status # "CORRUPTED"
    /\ \A i, j \in DOMAIN ids : i < j =>
         /\ ids[i] # ids[j]
         /\ evidence[ids[j]].status = "VERIFIED" => evidence[ids[i]].status = "VERIFIED"
    /\ Cardinality({i \in DOMAIN ids : evidence[ids[i]].status = "VERIFIED"}) <= GenCap
=============================================================================
