-------------------------- MODULE ClaimVerification --------------------------
(***************************************************************************)
(* execute_claim_verification of verification/verifier.py: how the answer  *)
(* of one round becomes claims with verdicts.  One fused call, or          *)
(* decomposition and a batch call with one retry; targeted retrieval for   *)
(* claims found NEUTRAL; individual checks of the claims the batch missed; *)
(* one insert of all of them.                                              *)
(*                                                                         *)
(* A claim is its position.  A result records, besides its verdict, which  *)
(* claim the verifier was asked about, on which context, and the segments  *)
(* it named.  The prompt context has SegmentCount segments; a model may    *)
(* name others.                                                            *)
(***************************************************************************)
EXTENDS Verdict, Sequences, FiniteSets

CONSTANTS
  MaxClaims,      \* max_verification_claims
  MaxRetrievals,  \* max_claim_retrievals
  MaxFallback,    \* max_individual_nli_fallback
  SegmentCount,   \* segments of the prompt context
  Capped,         \* a cloud tier: the ledger has a cap
  CallCap         \* max_llm_calls_per_analysis

ASSUME VerificationAssumption ==
  /\ MaxClaims \in Nat \ {0}
  /\ MaxRetrievals \in Nat
  /\ MaxFallback \in Nat
  /\ SegmentCount \in Nat
  /\ Capped \in BOOLEAN
  /\ CallCap \in Nat

VARIABLES
  pc,
  chunks,     \* the round has chunks
  attempt,    \* recovery attempt, 0 for the first round
  n,          \* claims_texts: how many there are
  cites,      \* segments the text of each claim cites
  results,    \* results_map
  stray,      \* CONTRADICTED rows of the batch under no claim's number
  todo,       \* positions still to be searched for
  linked,     \* claim_evidence_ids
  budget,     \* fallback_budget
  exited,     \* the contradiction early-exit was taken
  last,       \* nli_res, as the last turn of the loop left it
  docs,       \* claim_docs
  calls,      \* the ledger of the analysis
  spent,      \* the calls completed here
  inserted    \* the claims are in the database

round == <<chunks, attempt>>
texts == <<n, cites>>
ledger == <<calls, spent>>
vars == <<pc, chunks, attempt, n, cites, results, stray, todo, linked, budget,
          exited, last, docs, calls, spent, inserted>>

Verdicts == {"SUPPORTED", "CONTRADICTED", "NEUTRAL"}
Contexts == {"chunks", "nothing", "fresh", "unchecked"}

\* One more than the context has: a number out of range.
Segments == 1 .. SegmentCount + 1

Results ==
  [verdict: Verdicts, about: 1..MaxClaims, on: Contexts, segments: SUBSET Segments]

Unbound == [verdict |-> "unbound"]

Skipped(i) ==
  [verdict |-> "NEUTRAL", about |-> i, on |-> "unchecked", segments |-> {}]

Checked(i, on) ==
  [verdict: Verdicts, about: {i}, on: {on}, segments: SUBSET Segments]

RoundContext == IF chunks THEN "chunks" ELSE "nothing"

\* Only completed calls are counted; one that fails or is cut off may be.
Spend(ns) == \E k \in ns : calls' = calls + k /\ spent' = spent + k

Exhausted == Capped /\ calls >= CallCap

Init ==
  /\ pc = "fused"
  /\ chunks \in BOOLEAN
  /\ attempt \in 0..1
  /\ n = 0
  /\ cites = <<>>
  /\ results = <<>>
  /\ stray = 0
  /\ todo = {}
  /\ linked = [i \in 1..MaxClaims |-> {}]
  /\ budget = 0
  /\ exited = FALSE
  /\ last = Unbound
  /\ docs = <<>>
  /\ calls \in 0..CallCap
  /\ spent = 0
  /\ inserted = FALSE

-----------------------------------------------------------------------------
(* Claims and their first verdicts.                                        *)

\* Mutant: contradicted claims are searched for too.
NeutralPositionsUnsupported(res) ==
  {i \in DOMAIN res : res[i].verdict # "SUPPORTED"}

NeutralPositions(res) ==
  {i \in DOMAIN res : res[i].verdict = "NEUTRAL"}

\* The first of them, as many as the retrieval budget allows.
Targets(res) ==
  {i \in NeutralPositions(res) :
     Cardinality({j \in NeutralPositions(res) : j < i}) < MaxRetrievals}

\* Numbers of no segment are ignored, so only those that are one are told apart.
Texts(m) ==
  /\ n' = m
  /\ cites' \in [1..m -> SUBSET (1..SegmentCount)]

Judged(res) ==
  /\ results' = res
  /\ todo' = Targets(res)
  /\ pc' = "targeted"

\* fused_decompose_verify, capped to max_claims.
FusedAnswers ==
  /\ pc = "fused"
  /\ chunks
  /\ \E m \in 1..MaxClaims :
       /\ Texts(m)
       /\ \E res \in [1..m -> Results] :
            /\ \A i \in 1..m : res[i] \in Checked(i, "chunks")
            /\ Judged(res)
  /\ Spend({1})
  /\ UNCHANGED <<round, stray, linked, budget, exited, last, docs, inserted>>

\* Switched off, skipped for a reasoning model or without chunks; failed,
\* timed out, or nothing left of it.
FusedMisses ==
  /\ pc = "fused"
  /\ pc' = "decompose"
  /\ Spend(IF chunks THEN {0, 1} ELSE {0})
  /\ UNCHANGED <<round, texts, results, stray, todo, linked, budget, exited,
                 last, docs, inserted>>

\* Decomposition, or the answer itself, or its sentences.
Decompose ==
  /\ pc = "decompose"
  /\ \E m \in 1..MaxClaims : Texts(m)
  /\ pc' = "batch"
  /\ Spend({0, 1})
  /\ UNCHANGED <<round, results, stray, todo, linked, budget, exited, last,
                 docs, inserted>>

\* Every claim was about the question itself.
DecomposeNothing ==
  /\ pc = "decompose"
  /\ pc' = "nothing"
  /\ Spend({0, 1})
  /\ UNCHANGED <<round, texts, results, stray, todo, linked, budget, exited,
                 last, docs, inserted>>

\* batch_verify_claims_nli: rows for some of the claims, and perhaps a row
\* under a number no claim has.
BatchAnswers ==
  /\ pc \in {"batch", "retry"}
  /\ chunks
  /\ \E found \in SUBSET (1..n) : \E res \in [found -> Results] :
       /\ \A i \in found : res[i] \in Checked(i, "chunks")
       /\ Judged(res)
  /\ stray' \in 0..1
  /\ Spend({1})
  /\ UNCHANGED <<round, texts, linked, budget, exited, last, docs, inserted>>

BatchWithoutChunks ==
  /\ pc \in {"batch", "retry"}
  /\ ~chunks
  /\ Judged(<<>>)
  /\ UNCHANGED <<round, texts, stray, linked, budget, exited, last, docs,
                 ledger, inserted>>

\* Mutant: retried until it answers.
BatchFailsForever ==
  /\ pc \in {"batch", "retry"}
  /\ chunks
  /\ pc' = "retry"
  /\ Spend({0, 1})
  /\ UNCHANGED <<round, texts, results, stray, todo, linked, budget, exited, last,
                 docs, inserted>>

\* Retried once; the second failure leaves no results.
BatchFails ==
  /\ pc \in {"batch", "retry"}
  /\ chunks
  /\ \/ pc = "batch" /\ pc' = "retry" /\ UNCHANGED <<results, todo>>
     \/ pc = "retry" /\ Judged(<<>>)
  /\ Spend({0, 1})
  /\ UNCHANGED <<round, texts, stray, linked, budget, exited, last, docs,
                 inserted>>

-----------------------------------------------------------------------------
(* Targeted retrieval for NEUTRAL claims.                                  *)

\* In the order of the claims.
NextTodo(i) == i \in todo /\ \A j \in todo : i <= j

\* No fresh evidence, none that passes the audit, or no verdict on it.
TargetedKeeps ==
  /\ pc = "targeted"
  /\ \E i \in todo : NextTodo(i) /\ todo' = todo \ {i}
  /\ Spend({0, 1})
  /\ UNCHANGED <<pc, round, texts, results, stray, linked, budget, exited,
                 last, docs, inserted>>

\* Mutant: the segments are kept with the verdict.
TargetedFlipsKeeping ==
  /\ pc = "targeted"
  /\ \E i \in todo : \E r \in Checked(i, "fresh") :
       /\ NextTodo(i) /\ r.verdict # "NEUTRAL"
       /\ results' = [results EXCEPT ![i] = r]
       /\ todo' = todo \ {i}
  /\ Spend({1})
  /\ UNCHANGED <<pc, round, texts, stray, linked, budget, exited, last, docs,
                 inserted>>

\* The segments are numbers of the fresh context: they are mapped at once and
\* not kept.
TargetedFlips ==
  /\ pc = "targeted"
  /\ \E i \in todo : \E r \in Checked(i, "fresh") :
       /\ NextTodo(i) /\ r.verdict # "NEUTRAL"
       /\ results' = [results EXCEPT ![i] = [r EXCEPT !.segments = {}]]
       /\ linked' = [linked EXCEPT ![i] = {"fresh"} \X (r.segments \cap 1..SegmentCount)]
       /\ todo' = todo \ {i}
  /\ Spend({1})
  /\ UNCHANGED <<pc, round, texts, stray, budget, exited, last, docs,
                 inserted>>

Contradictions ==
  stray + Cardinality({i \in DOMAIN results : results[i].verdict = "CONTRADICTED"})

\* Mutant: a rate at the threshold is over it.
AtThreshold == 100 * Contradictions >= MaxContradiction * n

OverThreshold == 100 * Contradictions > MaxContradiction * n

\* How many claims may be checked one by one.
StartPersisting ==
  /\ pc = "targeted"
  /\ todo = {}
  /\ budget' = IF attempt > 0 \/ OverThreshold THEN 0 ELSE MaxFallback
  /\ exited' = OverThreshold
  /\ pc' = "persist"
  /\ UNCHANGED <<round, texts, results, stray, todo, linked, last, docs,
                 ledger, inserted>>

-----------------------------------------------------------------------------
(* The loop over the claims.                                               *)

Position == Len(docs) + 1

InContext(segments) ==
  IF chunks THEN {"chunks"} \X (segments \cap 1..SegmentCount) ELSE {}

\* The evidence a claim is linked to: the segments of its result, read as
\* numbers of the round's own context; what targeted retrieval linked; and what
\* its text cites.
Links(i, r) == InContext(r.segments \cup cites[i]) \cup linked[i]

Append1(r) ==
  /\ last' = r
  /\ docs' = Append(docs, [verdict |-> r.verdict, about |-> r.about, on |-> r.on,
                           evidence |-> Links(Position, r)])

InLoop == pc = "persist" /\ Position <= n

\* Mutant: the batch numbers its rows from 0.
UseResultFromZero ==
  /\ InLoop
  /\ Position \in DOMAIN results
  /\ Append1(results[IF Position - 1 \in DOMAIN results THEN Position - 1
                                                     ELSE Position])
  /\ UNCHANGED <<pc, round, texts, results, stray, todo, linked, budget, exited,
                 ledger, inserted>>

UseResult ==
  /\ InLoop
  /\ Position \in DOMAIN results
  /\ Append1(results[Position])
  /\ UNCHANGED <<pc, round, texts, results, stray, todo, linked, budget,
                 exited, ledger, inserted>>

FallBack ==
  /\ InLoop
  /\ Position \notin DOMAIN results
  /\ budget > 0 /\ ~Exhausted
  /\ budget' = budget - 1
  /\ \/ \E r \in Checked(Position, RoundContext) : Append1(r) /\ Spend({1})
     \/ Append1(Skipped(Position)) /\ Spend({0, 1})
  /\ UNCHANGED <<pc, round, texts, results, stray, todo, linked, exited,
                 inserted>>

\* The spend guard assigns no result: the claim gets the one at hand, and the
\* first claim has none.
FallBackStopped ==
  /\ InLoop
  /\ Position \notin DOMAIN results
  /\ budget > 0 /\ Exhausted
  /\ budget' = 0
  /\ \/ last # Unbound /\ Append1(last) /\ pc' = pc
     \/ last = Unbound /\ pc' = "broken" /\ UNCHANGED <<last, docs>>
  /\ UNCHANGED <<round, texts, results, stray, todo, linked, exited, ledger,
                 inserted>>

Skip ==
  /\ InLoop
  /\ Position \notin DOMAIN results
  /\ budget = 0
  /\ Append1(Skipped(Position))
  /\ UNCHANGED <<pc, round, texts, results, stray, todo, linked, budget,
                 exited, ledger, inserted>>

Insert ==
  /\ pc = "persist"
  /\ Position > n
  /\ inserted' = TRUE
  /\ pc' = "counted"
  /\ UNCHANGED <<round, texts, results, stray, todo, linked, budget, exited,
                 last, docs, ledger>>

\* The verification node times out, or the database fails; the insert may have
\* taken effect.
BreaksOff ==
  /\ pc \notin {"counted", "nothing", "broken"}
  /\ pc' = "broken"
  /\ inserted' \in {inserted, pc = "persist" /\ Position > n}
  /\ UNCHANGED <<round, texts, results, stray, todo, linked, budget, exited,
                 last, docs, ledger>>

Ended == pc \in {"counted", "nothing", "broken"} /\ UNCHANGED vars

Next ==
  \/ FusedAnswers \/ FusedMisses
  \/ Decompose \/ DecomposeNothing
  \/ BatchAnswers \/ BatchWithoutChunks \/ BatchFails
  \/ TargetedKeeps \/ TargetedFlips \/ StartPersisting
  \/ UseResult \/ FallBack \/ FallBackStopped \/ Skip
  \/ Insert \/ BreaksOff \/ Ended

Spec == Init /\ [][Next]_vars

-----------------------------------------------------------------------------

Having(v) == Cardinality({i \in DOMAIN docs : docs[i].verdict = v})

\* What verification_node counts.
CountsOf ==
  [sup |-> Having("SUPPORTED"), con |-> Having("CONTRADICTED"), neu |-> Having("NEUTRAL")]

\* The calls one verification can complete: the fused call, decomposition, two
\* batches, and one more for each claim.
CallBound == 4 + MaxClaims

Abstract == INSTANCE ClaimCheck WITH
  VerCalls  <- CallBound,
  phase     <- IF pc \in {"counted", "nothing", "broken"} THEN pc ELSE "checking",
  counts    <- IF pc = "counted" THEN CountsOf ELSE NoCounts,
  recorded  <- inserted,
  hasChunks <- chunks

\* One verification is what the reliability loop takes it for: it ends in
\* counts that its chunks and its attempt allow, in no claims, or broken off,
\* within its bound on LLM calls, and with the claims on record accordingly.
ImplementsClaimCheck == Abstract!Spec

\* A claim that the evidence contradicts is never searched for again, and once
\* a claim is decided no later step of the round undoes it.
DecidedStays ==
  [][ \A i \in DOMAIN results :
        results[i].verdict # "NEUTRAL" => results'[i] = results[i] ]_vars

\* But for what its text cites, a claim decided by targeted retrieval is linked
\* to the evidence found for it alone, and a claim decided in the round's
\* context to that context: segment numbers of the one are never read in the
\* other, and an unchecked claim is linked to nothing.
LinksMatchContext ==
  \A i \in DOMAIN docs : \A e \in docs[i].evidence \ InContext(cites[i]) :
    e[1] = docs[i].on

\* The early exit is taken only for an answer that fails anyway: skipping the
\* individual checks never decides the verdict, as long as the batch numbers
\* its rows as it was told.
EarlyExitFails ==
  pc = "counted" /\ exited /\ stray = 0 =>
    ComputeVerdict(CountsOf, FALSE).diagnosis = "EVIDENCE_CONFLICT"

\* As long as the call budget lasts, every verdict on record was reached about
\* its own claim.
VerdictsAreOwn ==
  pc = "counted" /\ ~Exhausted => \A i \in DOMAIN docs : docs[i].about = i

=============================================================================
