--------------------------- MODULE SemanticCache ---------------------------
(***************************************************************************)
(* The semantic answer cache (core/semantic_cache.py) together with the    *)
(* analyses that read and fill it (agent/graph.py,                         *)
(* execute_agentic_rag_flow) and the changes of knowledge bases that       *)
(* invalidate it (services/kb_service.py).                                 *)
(*                                                                         *)
(* The cache is a bounded first-in first-out deque of answers.  A lookup   *)
(* does not compare the query with the entries themselves but with a       *)
(* matrix of their vectors, built at an earlier lookup and addressed by    *)
(* the entries' positions in the deque.  The deque holds its entries in    *)
(* the order in which they were stored, so it is the set of its entries    *)
(* and their stamps.  All functions of the cache run in the event loop     *)
(* without awaiting, so each of them is one step.                          *)
(*                                                                         *)
(* Abstractions.  Two questions are similar (cosine at least 0.94) iff     *)
(* they are on the same topic.  An embedding space stands for a model's    *)
(* name and its dimension; vectors of two spaces have different            *)
(* dimensions.  An answer is named by the analysis that generated it.      *)
(* Time is the number of answers stored so far, and an entry has expired   *)
(* once the cutoff has reached its stamp.                                  *)
(***************************************************************************)
EXTENDS Integers, FiniteSets

CONSTANTS Analyses,      \* analyses that may ask the cache, each once
          NoAnalysis,    \* stands for no answer
          Kbs,           \* knowledge bases
          Topics,        \* classes of equivalent questions
          Spaces,        \* embedding models the server may be configured with
          NoModel,       \* the namespace of an entry without a model
          MaxEntries,    \* SEMANTIC_CACHE_MAX_ENTRIES
          MaxChanges,    \* bound on the changes of knowledge bases
          MaxRestarts    \* bound on the restarts of the server

ASSUME AnalysesAssumption == IsFiniteSet(Analyses) /\ NoAnalysis \notin Analyses
ASSUME SpacesAssumption == Spaces # {} /\ NoModel \notin Spaces
ASSUME BoundsAssumption ==
    /\ MaxEntries \in Nat \ {0}
    /\ MaxChanges \in Nat
    /\ MaxRestarts \in Nat

VARIABLES
    entries,    \* _SEMANTIC_CACHE
    matrix,     \* _MATRIX_CACHE: one row per entry when built, <<>> for None
    dirty,      \* _MATRIX_DIRTY
    disk,       \* the entries in semantic_cache.json
    cutoff,     \* entries stamped at most this are past their time to live
    phase,      \* how far each analysis is
    ask,        \* the knowledge base and topic of each analysis
    answer,     \* whose answer each analysis carries
    found,      \* the analysis that stored the entry each analysis was served
    basis,      \* removals its knowledge base had seen when it last retrieved
    stamp,      \* when each analysis stored its answer
    removals,   \* how often evidence of each knowledge base was removed
    purging,    \* knowledge bases changed but not yet invalidated
    purged,     \* when each knowledge base was last invalidated
    space,      \* the embedding model the server is configured with
    changes,    \* changes of knowledge bases so far, for the bound
    restarts    \* restarts so far, for the bound

cacheVars == <<entries, matrix, dirty>>
askVars == <<phase, ask, answer, found, basis>>
kbVars == <<removals, purging, changes>>
vars == <<cacheVars, disk, cutoff, askVars, stamp, purged, kbVars, space, restarts>>

Phases == {"new", "running", "verified", "done"}

Kb(a) == ask[a].kb
Stores == Cardinality({a \in Analyses : stamp[a] > 0})

----------------------------------------------------------------------------
(* The deque and the matrix.                                               *)

Alive(entry) == stamp[entry.by] > cutoff
Row(entry) == [topic |-> ask[entry.by].topic, space |-> entry.space]

\* Mutant: the cleanup replaces the deque without flagging the matrix.
SweptUnflagged == dirty

\* _cleanup_expired_entries: filters the deque and flags the matrix only when
\* it removed something.
Swept == {entry \in entries : Alive(entry)}
SweptDirty == dirty \/ Swept # entries

\* The place of an entry in the deque: entries are appended as they are stored,
\* and no operation reorders them.
Position(es, entry) == Cardinality({e \in es : stamp[e.by] <= stamp[entry.by]})

\* _rebuild_matrix: vectors of different dimensions do not stack.
Stacked(es) ==
    IF \A e, f \in es : e.space = f.space
    THEN [i \in 1 .. Cardinality(es) |-> Row(CHOOSE e \in es : Position(es, e) = i)]
    ELSE <<>>

\* append to a deque of bounded length: the oldest entry makes room.
Appended(es, entry) ==
    LET oldest == CHOOSE e \in es : \A f \in es : stamp[e.by] <= stamp[f.by]
    IN (IF Cardinality(es) < MaxEntries THEN es ELSE es \ {oldest}) \union {entry}

\* The entries check_semantic_cache considers, by knowledge base and model.
Candidates(es, kb) == {e \in es : Kb(e.by) = kb /\ e.model = space}

\* The rows the lookup selects by position; a position beyond the matrix
\* raises an IndexError and rows of another dimension a ValueError, both of
\* which the caller takes for a miss.
Selectable(rows, positions) ==
    \A i \in positions : i \in DOMAIN rows /\ rows[i].space = space

\* Mutant: the best row's index among the selected rows is taken for the
\* position of its entry in the deque.
MatchesUnmapped(es, rows, kb, topic) ==
    LET candidates == Candidates(es, kb)
        selectable == Selectable(rows, {Position(es, e) : e \in candidates})
    IN {f \in es : \E e \in candidates :
          selectable /\ rows[Position(es, e)].topic = topic /\ Position(es, f) = Position(candidates, e)}

\* The entries a lookup may answer with.  Without a matrix the entries' own
\* vectors are compared, one by one.
Matches(es, rows, kb, topic) ==
    LET candidates == Candidates(es, kb)
        selectable == Selectable(rows, {Position(es, e) : e \in candidates})
    IN IF rows = <<>>
       THEN {e \in candidates : Row(e) = [topic |-> topic, space |-> space]}
       ELSE {e \in candidates : selectable /\ rows[Position(es, e)].topic = topic}

\* Mutant: the file keeps the model, so that reloaded entries can match.
PersistWithModel(es) == disk' \in {disk, es}

\* _persist_cache writes every field but the embedding model, or fails.
Persist(es) == disk' \in {disk, {[e EXCEPT !.model = NoModel] : e \in es}}

----------------------------------------------------------------------------
Init ==
    /\ entries = {} /\ matrix = <<>> /\ dirty = TRUE
    /\ disk = {} /\ cutoff = 0
    /\ phase = [a \in Analyses |-> "new"]
    /\ ask \in [Analyses -> [kb: Kbs, topic: Topics]]
    /\ answer = [a \in Analyses |-> NoAnalysis]
    /\ found = [a \in Analyses |-> NoAnalysis]
    /\ basis = [a \in Analyses |-> 0]
    /\ stamp = [a \in Analyses |-> 0]
    /\ removals = [k \in Kbs |-> 0] /\ purging = {} /\ purged = [k \in Kbs |-> 0]
    /\ space \in Spaces
    /\ changes = 0 /\ restarts = 0

\* check_semantic_cache as the coordinator calls it before the loop starts: a
\* match becomes the answer of the analysis.
Lookup(a) ==
    LET rows == IF SweptDirty THEN Stacked(Swept) ELSE matrix
        matches == Matches(Swept, rows, Kb(a), ask[a].topic)
    IN /\ phase[a] = "new"
       /\ phase' = [phase EXCEPT ![a] = "running"]
       /\ entries' = Swept /\ matrix' = rows /\ dirty' = FALSE
       /\ \/ \E entry \in matches :
                /\ found' = [found EXCEPT ![a] = entry.by]
                /\ answer' = [answer EXCEPT ![a] = answer[entry.by]]
          \/ matches = {} /\ UNCHANGED <<found, answer>>
       /\ UNCHANGED <<ask, basis, disk, cutoff, stamp, purged, kbVars, space, restarts>>

\* The loop retrieves evidence, writes an answer of its own unless it keeps
\* the one it was served, and verifies it; recovery may repeat all that.
Work(a) ==
    /\ phase[a] \in {"running", "verified"}
    /\ phase' = [phase EXCEPT ![a] = "verified"]
    /\ basis' = [basis EXCEPT ![a] = removals[Kb(a)]]
    /\ answer' \in {answer, [answer EXCEPT ![a] = a]}
    /\ answer'[a] # NoAnalysis
    /\ UNCHANGED <<cacheVars, ask, found, disk, cutoff, stamp, purged, kbVars, space, restarts>>

\* store_semantic_cache after a PASS.  It sets a local variable of the name of
\* the dirty flag, so the matrix is not flagged.
Store(a) ==
    LET entry == [by |-> a, space |-> space, model |-> space]
    IN /\ phase[a] = "verified"
       /\ phase' = [phase EXCEPT ![a] = "done"]
       /\ stamp' = [stamp EXCEPT ![a] = Stores + 1]
       /\ entries' = Appended(Swept, entry)
       /\ dirty' = SweptDirty
       /\ Persist(entries') \* _maybe_persist, every five minutes
       /\ UNCHANGED <<matrix, ask, answer, found, basis, cutoff, purged, kbVars, space, restarts>>

\* The analysis ends without a verified answer, or with one too long to store.
Leave(a) ==
    /\ phase[a] \in {"running", "verified"}
    /\ phase' = [phase EXCEPT ![a] = "done"]
    /\ UNCHANGED <<cacheVars, ask, answer, found, basis, disk, cutoff, stamp, purged,
                   kbVars, space, restarts>>

\* delete_document, delete_kb and rollback_kb_to_snapshot remove evidence and
\* await several calls before they invalidate the cache.
RemoveEvidence(k) ==
    /\ changes < MaxChanges
    /\ changes' = changes + 1
    /\ removals' = [removals EXCEPT ![k] = @ + 1]
    /\ purging' = purging \union {k}
    /\ UNCHANGED <<cacheVars, askVars, disk, cutoff, stamp, purged, space, restarts>>

\* add_document has inserted its record.
AddDocument(k) ==
    /\ changes < MaxChanges
    /\ changes' = changes + 1
    /\ purging' = purging \union {k}
    /\ UNCHANGED <<cacheVars, askVars, disk, cutoff, stamp, removals, purged, space, restarts>>

\* invalidate_kb_cache, the last step of each of these operations.
Invalidate(k) ==
    /\ k \in purging
    /\ purging' = purging \ {k}
    /\ purged' = [purged EXCEPT ![k] = Stores]
    /\ entries' = {entry \in entries : Kb(entry.by) # k}
    /\ dirty' = TRUE
    /\ Persist(entries')
    /\ UNCHANGED <<matrix, askVars, cutoff, stamp, removals, changes, space, restarts>>

\* Time passes and the oldest answers outlive SEMANTIC_CACHE_TTL_SECONDS.
Expire ==
    /\ cutoff < Stores
    /\ cutoff' \in cutoff + 1 .. Stores
    /\ UNCHANGED <<cacheVars, disk, askVars, stamp, purged, kbVars, space, restarts>>

\* The startup task of main.py sweeps the deque once more.
Sweep ==
    /\ Swept # entries
    /\ entries' = Swept /\ dirty' = TRUE
    /\ UNCHANGED <<matrix, disk, cutoff, askVars, stamp, purged, kbVars, space, restarts>>

\* The server stops and starts again, perhaps configured with another
\* embedding model: load_cache reads the file, running analyses and pending
\* invalidations are lost.
Restart ==
    /\ restarts < MaxRestarts
    /\ restarts' = restarts + 1
    /\ entries' = {entry \in disk : Alive(entry)} /\ matrix' = <<>> /\ dirty' = TRUE
    /\ phase' = [a \in Analyses |-> IF phase[a] = "new" THEN "new" ELSE "done"]
    /\ purging' = {}
    /\ space' \in Spaces
    /\ UNCHANGED <<disk, cutoff, ask, answer, found, basis, stamp, purged, removals, changes>>

Next ==
    \/ \E a \in Analyses : Lookup(a) \/ Work(a) \/ Store(a) \/ Leave(a)
    \/ \E k \in Kbs : RemoveEvidence(k) \/ AddDocument(k) \/ Invalidate(k)
    \/ Expire \/ Sweep \/ Restart

Spec == Init /\ [][Next]_vars

----------------------------------------------------------------------------
(* What the cache promises.                                                *)

\* However stale the matrix is by which a lookup selects an entry, and however
\* many analyses passed an answer on, no answer crosses knowledge bases: it was
\* written for a question to the same one (check_semantic_cache, kb_indices).
AnswersStayInKb ==
    \A a \in Analyses : answer[a] # NoAnalysis => Kb(answer[a]) = Kb(a)

\* A matrix that is not flagged may lag behind the deque, but as long as the
\* deque is not full its rows are those of the oldest entries, so what a lookup
\* finds by position is an answer to an equivalent question.
EquivalentUnlessFull ==
    [][\A a \in Analyses :
        found'[a] # found[a] /\ Cardinality(entries) < MaxEntries
            => ask[found'[a]].topic = ask[a].topic]_vars

\* An answer that was in the cache when its knowledge base was invalidated is
\* never served again, not even after a restart when the write of the emptied
\* cache had failed.
InvalidatedIsGone ==
    [][\A a \in Analyses :
        found'[a] # found[a] => stamp[found'[a]] > purged[Kb(a)]]_vars
============================================================================
