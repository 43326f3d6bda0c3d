------------------------------ MODULE Reranking ------------------------------
(***************************************************************************)
(* The scoring of candidates by a cross-encoder in batches, which stops    *)
(* early when one is clearly ahead, and the cache of scores                *)
(* (retrieval/reranker.py). A cache is the sequence of its entries, the    *)
(* least recently used first.                                              *)
(***************************************************************************)
EXTENDS RankFusion, FiniteSetsExt

CONSTANTS
  Relevance,   \* the score the model gives a chunk for the query
  Batch,       \* reranker.batch_size
  MinBatch,    \* EARLY_TERMINATION_MIN_BATCH
  Sure, Gap,   \* early_termination_confidence, score_gap_threshold
  CacheSize    \* reranker.cache_size

\* The confidence that ends the scoring is above the 0.0 of what is not scored.
ASSUME RerankingAssumption == {Batch, MinBatch, CacheSize, Sure} \subseteq Nat \ {0} /\ Gap \in Nat

Cached(cache) == {entry.chunk : entry \in Range(cache)}
CachedScore(cache, c) == (CHOOSE entry \in Range(cache) : entry.chunk = c).score

\* The gap alone decides.
ClearByGap(scores) ==
  /\ Len(scores) >= 3
  /\ \E i \in DOMAIN scores : \A j \in DOMAIN scores \ {i} : scores[i] >= scores[j] + Gap

\* The best is good and well ahead of the second.
Clear(scores) ==
  /\ Len(scores) >= 3
  /\ \E i \in DOMAIN scores :
       /\ scores[i] >= Sure
       /\ \A j \in DOMAIN scores \ {i} : scores[i] >= scores[j] + Gap

\* How many of the chunks that have no cached score are scored, batch by batch.
ScoredCount(known, fresh) ==
  LET n == Len(fresh)
      stops == {m \in 1..n : /\ m % Batch = 0 \/ m = n
                             /\ m >= MinBatch
                             /\ Clear(known \o [i \in 1..m |-> Relevance[fresh[i]]])}
  IN IF stops = {} THEN n ELSE Min(stops)

\* A look-up makes an entry the most recent, a store drops the oldest of a full
\* cache.
Hits(chunks, cache) == Keep(chunks, {i \in DOMAIN chunks : chunks[i] \in Cached(cache)})
Touch(cache, hits) ==
  LET kept == Keep(cache, {j \in DOMAIN cache : \A i \in DOMAIN hits : hits[i] # cache[j].chunk})
  IN kept \o [i \in DOMAIN hits |-> [chunk |-> hits[i], score |-> CachedScore(cache, hits[i])]]
Store(cache, entries) == Latest(CacheSize, cache \o entries)

\* What is stored: the scores of the chunks that were scored, or those of all.
ToCacheAll(fresh, scored) == [i \in DOMAIN fresh |->
  [chunk |-> fresh[i], score |-> IF i \in DOMAIN scored THEN Relevance[fresh[i]] ELSE 0]]
ToCache(fresh, scored) == [i \in DOMAIN scored |-> [chunk |-> fresh[i], score |-> Relevance[fresh[i]]]]

\* _rerank_sync on the candidates: the rows in their new order, those that were
\* not scored with 0.0, and the cache after.
Rerank(rows, cache) ==
  LET chunks == [i \in DOMAIN rows |-> rows[i].chunk]
      hits == Hits(chunks, cache)
      fresh == Keep(chunks, {i \in DOMAIN chunks : chunks[i] \notin Cached(cache)})
      known == [i \in DOMAIN hits |-> CachedScore(cache, hits[i])]
      scored == First(ScoredCount(known, fresh), fresh)
      score(c) == IF c \in Cached(cache) THEN CachedScore(cache, c)
                  ELSE IF c \in Range(scored) THEN Relevance[c] ELSE 0
      ranked == [i \in DOMAIN rows |-> [chunk |-> chunks[i], rrf |-> rows[i].rrf, rerank |-> score(chunks[i])]]
  IN [rows |-> Sorted(ranked, {p \in Pairs(DOMAIN rows) : ranked[p[1]].rerank > ranked[p[2]].rerank}),
      cache |-> Store(Touch(cache, hits), ToCache(fresh, scored))]

\* The context: a confident first row leaves the smaller window.
Slice(rows, limit) ==
  IF Len(rows) >= Window /\ Confident(rows[1].rrf) THEN First(Smaller(limit, Window), rows)
  ELSE First(limit, rows)
=============================================================================
