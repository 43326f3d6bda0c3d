------------------------------ MODULE RankFusion ------------------------------
(***************************************************************************)
(* Ranked lists of chunks: the fusion of a dense and a sparse list         *)
(* (retrieval/retriever.py), the window that a confident first chunk       *)
(* leaves, and the merging of the lists of several sub-queries             *)
(* (agent/router.py). A score is a fraction, so that what floating point   *)
(* rounds is compared exactly.                                             *)
(***************************************************************************)
EXTENDS Listing, Functions

CONSTANTS
  K,           \* rrf_k, 60
  Window       \* the context a confident first chunk leaves, 4

ASSUME FusionAssumption == K \in Nat /\ Window \in Nat \ {0}

\* The rank of c, 0 where it is not listed.
RankIn(list, c) ==
  IF \E i \in DOMAIN list : list[i] = c THEN CHOOSE i \in DOMAIN list : list[i] = c ELSE 0

\* 1 / (dense + K) + 1 / (sparse + K)
Score(dense, sparse) ==
  IF dense = 0 THEN [num |-> 1, den |-> sparse + K]
  ELSE IF sparse = 0 THEN [num |-> 1, den |-> dense + K]
  ELSE [num |-> dense + sparse + 2 * K, den |-> (dense + K) * (sparse + K)]

Higher(a, b) == a.num * b.den > b.num * a.den

\* At least 0.02: the test of retrieve_hybrid_chunks and of _is_high_confidence.
Confident(score) == 50 * score.num >= score.den

\* list.sort(reverse=True): what it leaves undecided stays in its order
\* (above: the pairs of places of which it is said).
Sorted(rows, above) ==
  LET before == {p \in Pairs(DOMAIN rows) :
                   p \in above \/ (<<p[2], p[1]>> \notin above /\ p[1] < p[2])}
      order == Listed(DOMAIN rows, before)
  IN [k \in DOMAIN order |-> rows[order[k]]]

ByFusion(rows) ==
  Sorted(rows, {p \in Pairs(DOMAIN rows) : Higher(rows[p[1]].rrf, rows[p[2]].rrf)})

\* reciprocal_rank_fusion
Fuse(dense, sparse) ==
  LET rows == dense \o Keep(sparse, {i \in DOMAIN sparse : RankIn(dense, sparse[i]) = 0})
  IN ByFusion([i \in DOMAIN rows |->
       [chunk |-> rows[i], rrf |-> Score(RankIn(dense, rows[i]), RankIn(sparse, rows[i]))]])

\* merge_fanout_results: each chunk once, with its best score, where it came
\* first.  A place is the number of a list and of a row in it.
Places(lists) == UNION {{s} \X (DOMAIN lists[s]) : s \in DOMAIN lists}
Row(lists, p) == lists[p[1]][p[2]]
Same(lists, p) == {q \in Places(lists) : Row(lists, q).chunk = Row(lists, p).chunk}
Best(lists, p) ==
  CHOOSE q \in Same(lists, p) : \A r \in Same(lists, p) :
    /\ ~Higher(Row(lists, r).rrf, Row(lists, q).rrf)
    /\ Earlier(r, q) => Higher(Row(lists, q).rrf, Row(lists, r).rrf)
Firsts(lists) == {p \in Places(lists) : \A q \in Same(lists, p) : ~Earlier(q, p)}
MergeFanout(lists) ==
  LET order == Listed(Firsts(lists), {p \in Pairs(Firsts(lists)) : Earlier(p[1], p[2])})
  IN ByFusion([k \in DOMAIN order |-> Row(lists, Best(lists, order[k]))])
=============================================================================
