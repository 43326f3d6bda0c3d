----------------------------- MODULE AgentGraph -----------------------------
(***************************************************************************)
(* The reliability loop of agent/graph.py: one analysis walks the compiled *)
(* LangGraph  retrieval -> generation -> verification, and verification    *)
(* either ends it or sends it through recovery back to retrieval.          *)
(*                                                                         *)
(* `state` is the AgentState dictionary.  What it holds is abstracted to   *)
(* what the control flow tells apart:                                      *)
(*   - an answer is the kind of its text and the round that produced it;   *)
(*   - the chunks are how many there are (none, fewer than                 *)
(*     max_context_chunks, at least that many) and the round that fetched  *)
(*     them;                                                               *)
(*   - the claims are the counts the verdict is computed from, and which   *)
(*     answer and which chunks they were checked on.                       *)
(* diagnosis_failures is always assigned together with diagnosis_type; the *)
(* one text the code compares against is the value "EMPTY_KB".             *)
(***************************************************************************)
EXTENDS Verdict, Sequences

CONSTANTS
  MaxAttempts,       \* recovery.max_recovery_attempts
  StrategyPriority,  \* recovery.strategy_priority, a sequence
  RecoveryBudget,    \* the token and latency budgets, as one amount
  RoundCost,         \* the most one recovery round adds to what was spent
  Capped,            \* TRUE on a cloud tier: LLM calls are capped
  CallCap,           \* cost_controls.max_llm_calls_per_analysis
  GenCalls,          \* LLM calls of one generation (compression, answer)
  VerCalls,          \* the most LLM calls of one verification
  MaxClaims,         \* cost_controls.max_verification_claims
  RecursionLimit     \* LangGraph's own bound on node executions

ASSUME GraphAssumption ==
  /\ MaxAttempts \in Nat
  /\ StrategyPriority \in Seq({"query_rewrite", "re_retrieve", "regenerate"})
  /\ StrategyPriority # <<>>
  /\ RecoveryBudget \in Nat \ {0}
  /\ RoundCost \in Nat
  /\ Capped \in BOOLEAN
  /\ CallCap \in Nat \ {0}
  /\ GenCalls \in Nat \ {0}
  /\ VerCalls \in Nat
  /\ MaxClaims \in Nat
  /\ RecursionLimit \in Nat

VARIABLES
  pc,         \* the node to run next, or how the run ended
  state,      \* the AgentState dictionary
  round,      \* retrieval nodes started so far: identifies answers and chunks
  steps,      \* node executions, which LangGraph bounds
  calls,      \* the ledger: LLM calls that completed
  claimDocs,  \* the CLAIMS collection: attempt tag and answer of each batch
  cacheable,  \* a query vector exists, so the answer cache may be used
  stored,     \* the answer this run put into the semantic cache
  hist        \* what happened so far; read by the properties alone

vars == <<pc, state, round, steps, calls, claimDocs, cacheable, stored, hist>>

Nodes == {"retrieval", "generation", "verification", "recovery"}

AnswerTexts == {"none", "ABSTAIN", "refusal", "grounded",
                "llm_outage", "retrieval_outage", "empty_kb"}

Diagnoses == {"none", "NONE", "RETRIEVAL_FAILURE", "EMPTY_KB", "RETRIEVAL_OUTAGE",
              "EVIDENCE_CONFLICT", "LOW_COVERAGE", "VERIFICATION_TIMEOUT",
              "VERIFICATION_ERROR", "RETRIEVAL_ERROR", "GENERATION_ERROR",
              "RECOVERY_ERROR", "RECOVERY_BUDGET_EXHAUSTED", "LLM_OUTAGE"}

Strategies == {"none", "query_rewrite", "re_retrieve", "regenerate"}

Answers == [text: AnswerTexts, round: Nat]
Chunks  == [size: {"none", "thin", "full"}, round: Nat]
Claims  == [counts: Counts, of: Nat, on: Nat]

Attempts == 0..MaxAttempts

AgentState == [ answer:    Answers,
                chunks:    Chunks,
                claims:    Claims,
                attempts:  Attempts,
                verdict:   {"PASS", "FAIL"},
                strategy:  Strategies,
                diagnosis: Diagnoses,
                cacheHit:  BOOLEAN,
                spent:     Nat ]

NoAnswer == [text |-> "none", round |-> 0]
NoChunks == [size |-> "none", round |-> 0]
NoClaims == [counts |-> NoCounts, of |-> 0, on |-> 0]

HasAnswer(s) == s.answer.text # "none"
HasChunks(s) == s.chunks.size # "none"

\* is_refusal_answer matches prose with regular expressions, one of which,
\* "insufficient (evidence|...)", occurs in the text of the LLM outage notice.
IsRefusal(a) == a.text \in {"ABSTAIN", "refusal", "llm_outage"}

Exhausted == Capped /\ calls >= CallCap

\* Only completed calls are counted, so an operation that was cut short may
\* have spent less.
Spend(n) == calls' \in calls .. (calls + n)

\* The counts a verification round may come to.
PossibleCounts ==
  {c \in [sup: 0..MaxClaims, con: 0..MaxClaims, neu: 0..MaxClaims] :
     Total(c) <= MaxClaims}

History == [ recoveryFailed: BOOLEAN,   \* a recovery node fell back
             searchOutage:   Nat ]      \* round of the last search outage

InitialState ==
  [ answer |-> NoAnswer, chunks |-> NoChunks, claims |-> NoClaims,
    attempts |-> 0, verdict |-> "FAIL", strategy |-> "none",
    diagnosis |-> "none", cacheHit |-> FALSE, spent |-> 0 ]

Init ==
  /\ pc = "start"
  /\ state = InitialState
  /\ round = 0
  /\ steps = 0
  /\ calls = 0
  /\ claimDocs = {}
  /\ cacheable = FALSE
  /\ stored = NoAnswer
  /\ hist = [recoveryFailed |-> FALSE, searchOutage |-> 0]

-----------------------------------------------------------------------------
(* The coordinator, before the graph runs.                                 *)

\* Web search or a failed embedding leave no query vector, and the cache is
\* then neither read nor written.
StartUncached ==
  /\ pc = "start"
  /\ pc' = "retrieval"
  /\ cacheable' \in BOOLEAN
  /\ UNCHANGED <<state, round, steps, calls, claimDocs, stored, hist>>

\* A similar earlier question is answered from the cache.  Anything a PASS
\* stored may come back, see StoreAnswer.
StartCached ==
  /\ pc = "start"
  /\ pc' = "retrieval"
  /\ cacheable' = TRUE
  /\ \E text \in AnswerTexts \ {"none", "ABSTAIN"} :
       state' = [state EXCEPT !.answer = [text |-> text, round |-> 0],
                              !.cacheHit = TRUE]
  /\ UNCHANGED <<round, steps, calls, claimDocs, stored, hist>>

-----------------------------------------------------------------------------
(* _execute_with_fallback, shared by retrieval, generation and recovery.   *)

NextNode == [ retrieval |-> "generation", generation |-> "verification",
              recovery |-> "retrieval" ]

Enter(node) ==
  /\ pc = node
  /\ steps < RecursionLimit
  /\ steps' = steps + 1
  /\ round' = IF node = "retrieval" THEN round + 1 ELSE round
  /\ UNCHANGED <<cacheable, stored>>

Leave(node) ==
  /\ pc' = NextNode[node]
  /\ UNCHANGED claimDocs

\* Mutant of BudgetStop: the attempts are not used up.
BudgetStopResumable(node) ==
  /\ Enter(node)
  /\ Exhausted
  /\ state' = [state EXCEPT !.verdict = "FAIL",
                            !.diagnosis = "RECOVERY_BUDGET_EXHAUSTED"]
  /\ Leave(node)
  /\ UNCHANGED <<calls, hist>>

\* The spend guard, tested before the node's own work.
BudgetStop(node) ==
  /\ Enter(node)
  /\ Exhausted
  /\ state' = [state EXCEPT !.verdict = "FAIL",
                            !.diagnosis = "RECOVERY_BUDGET_EXHAUSTED",
                            !.attempts = MaxAttempts]
  /\ Leave(node)
  /\ UNCHANGED <<calls, hist>>

\* The work of a node begins only with budget left.  A node can fail without
\* having begun: the trace event about the budget may not be written.
Work(node) == Enter(node) /\ ~Exhausted

\* A failure classify_llm_exception recognises, raised when the node had
\* turned the state into s.
LlmOutage(s) ==
  state' = [s EXCEPT !.answer = [text |-> "llm_outage", round |-> round'],
                     !.verdict = "FAIL",
                     !.diagnosis = "LLM_OUTAGE",
                     !.attempts = MaxAttempts]

RetrievalFallback(s) ==
  [s EXCEPT !.chunks = NoChunks, !.verdict = "FAIL", !.diagnosis = "RETRIEVAL_ERROR"]

GenerationFallback(s) ==
  [s EXCEPT !.answer = [text |-> "ABSTAIN", round |-> round],
            !.verdict = "FAIL", !.diagnosis = "GENERATION_ERROR"]

RecoveryFallback(s) ==
  [s EXCEPT !.strategy = "none", !.verdict = "FAIL", !.diagnosis = "RECOVERY_ERROR"]

-----------------------------------------------------------------------------
(* retrieval_node                                                          *)

ReusesChunks(s) == s.strategy = "regenerate" /\ HasChunks(s)

RetrievalReuse ==
  /\ Work("retrieval")
  /\ ReusesChunks(state)
  /\ Leave("retrieval")
  /\ UNCHANGED <<state, calls, hist>>

\* Search, self-heal, rerank, audit and cap, down to what they leave in the
\* state.
Searched(s, rnd) ==
  {[s EXCEPT !.chunks = [size |-> size, round |-> rnd]] :
     size \in {"none", "thin", "full"}}

RetrievalSearch ==
  /\ Work("retrieval")
  /\ ~ReusesChunks(state)
  /\ state' \in Searched(state, round')
  /\ Leave("retrieval")
  /\ UNCHANGED <<calls, hist>>

\* Mutant of SearchOutage: the attempts are not used up.
SearchOutageResumable(s, rnd) ==
  [s EXCEPT !.chunks = NoChunks,
            !.claims = NoClaims,
            !.answer = [text |-> "retrieval_outage", round |-> rnd],
            !.verdict = "FAIL",
            !.diagnosis = "RETRIEVAL_OUTAGE"]

\* RetrievalOutageError: vector search or embeddings cannot be reached.
SearchOutage(s, rnd) ==
  [s EXCEPT !.chunks = NoChunks,
            !.claims = NoClaims,
            !.answer = [text |-> "retrieval_outage", round |-> rnd],
            !.verdict = "FAIL",
            !.diagnosis = "RETRIEVAL_OUTAGE",
            !.attempts = MaxAttempts]

RetrievalOutage ==
  /\ Work("retrieval")
  /\ ~ReusesChunks(state)
  /\ state' = SearchOutage(state, round')
  /\ hist' = [hist EXCEPT !.searchOutage = round']
  /\ Leave("retrieval")
  /\ UNCHANGED calls

\* The knowledge base holds neither points nor chunks.
EmptyKB(s, rnd) ==
  [s EXCEPT !.chunks = NoChunks,
            !.claims = NoClaims,
            !.answer = [text |-> "empty_kb", round |-> rnd],
            !.verdict = "PASS",
            !.diagnosis = "EMPTY_KB"]

RetrievalEmptyKB ==
  /\ Work("retrieval")
  /\ ~ReusesChunks(state)
  /\ state.attempts = 0
  /\ state' = EmptyKB(state, round')
  /\ Leave("retrieval")
  /\ UNCHANGED <<calls, hist>>

\* A timeout or any exception: the state is put back to what it was before
\* the node, without its chunks.
RetrievalFails ==
  /\ Enter("retrieval")
  /\ state' = RetrievalFallback(state)
  /\ Leave("retrieval")
  /\ UNCHANGED <<calls, hist>>

\* What the node may have made of the state before it raised.
PartlyRetrieved(s, rnd) ==
  {s} \cup IF Exhausted \/ ReusesChunks(s) THEN {}
           ELSE Searched(s, rnd) \cup {SearchOutage(s, rnd)}
                  \cup {e \in {EmptyKB(s, rnd)} : s.attempts = 0}

\* The classifier goes by the text of the exception, so a database or search
\* failure can be taken for the LLM provider's.
RetrievalLlmOutage ==
  /\ Enter("retrieval")
  /\ \E s \in PartlyRetrieved(state, round') : LlmOutage(s)
  /\ Leave("retrieval")
  /\ UNCHANGED <<calls, hist>>

Retrieval ==
  \/ BudgetStop("retrieval")
  \/ RetrievalReuse
  \/ RetrievalSearch
  \/ RetrievalOutage
  \/ RetrievalEmptyKB
  \/ RetrievalFails
  \/ RetrievalLlmOutage

-----------------------------------------------------------------------------
(* generation_node                                                         *)

KeepsCachedAnswer(s) == s.cacheHit /\ HasAnswer(s)

KeepsNotice(s) ==
  /\ HasAnswer(s)
  /\ ~HasChunks(s)
  /\ s.diagnosis \in {"EMPTY_KB", "RETRIEVAL_OUTAGE"}

\* The futile-regeneration guard.
KeepsRefusal(s) ==
  /\ s.strategy = "regenerate"
  /\ IsRefusal(s.answer)
  /\ HasChunks(s)

Generates(s) == ~KeepsCachedAnswer(s) /\ ~KeepsNotice(s) /\ ~KeepsRefusal(s)

GenerationSkip ==
  /\ Work("generation")
  /\ ~Generates(state)
  /\ Leave("generation")
  /\ UNCHANGED <<state, calls, hist>>

\* generate_grounded_answer without any chunk.
GenerationNoContext ==
  /\ Work("generation")
  /\ Generates(state)
  /\ ~HasChunks(state)
  /\ state' = [state EXCEPT !.answer = [text |-> "ABSTAIN", round |-> round]]
  /\ Leave("generation")
  /\ UNCHANGED <<calls, hist>>

GenerationAnswers ==
  /\ Work("generation")
  /\ Generates(state)
  /\ HasChunks(state)
  /\ \E text \in {"ABSTAIN", "refusal", "grounded"} :
       state' = [state EXCEPT !.answer = [text |-> text, round |-> round]]
  /\ calls' \in calls + 1 .. calls + GenCalls
  /\ UNCHANGED hist
  /\ Leave("generation")

\* generate_grounded_answer turns ConnectionError, TimeoutError and
\* httpx.RequestError into an abstention.
GenerationUnreachable ==
  /\ Work("generation")
  /\ Generates(state)
  /\ HasChunks(state)
  /\ state' = [state EXCEPT !.answer = [text |-> "ABSTAIN", round |-> round]]
  /\ Spend(GenCalls - 1)
  /\ Leave("generation")
  /\ UNCHANGED hist

CallsProvider(s) == ~Exhausted /\ Generates(s) /\ HasChunks(s)

\* A timeout, or any other exception; the trace event that closes the node
\* can raise too, whatever the node did.
GenerationFails ==
  /\ Enter("generation")
  /\ state' = GenerationFallback(state)
  /\ Spend(IF CallsProvider(state) THEN GenCalls ELSE 0)
  /\ Leave("generation")
  /\ UNCHANGED hist

GenerationLlmOutage ==
  /\ Enter("generation")
  /\ LlmOutage(state)
  /\ Spend(IF CallsProvider(state) THEN GenCalls ELSE 0)
  /\ Leave("generation")
  /\ UNCHANGED hist

Generation ==
  \/ BudgetStop("generation")
  \/ GenerationSkip
  \/ GenerationNoContext
  \/ GenerationAnswers
  \/ GenerationUnreachable
  \/ GenerationFails
  \/ GenerationLlmOutage

-----------------------------------------------------------------------------
(* verification_node and should_recover, the edge that follows it          *)

ShouldRecover(s) ==
  /\ s.verdict # "PASS"
  /\ s.attempts < MaxAttempts
  /\ s.diagnosis # "RECOVERY_BUDGET_EXHAUSTED"

\* Verification is not run under _execute_with_fallback: no spend guard.
Verify(s) ==
  /\ Enter("verification")
  /\ state' = s
  /\ pc' = IF ShouldRecover(s) THEN "recovery" ELSE "end"
  /\ UNCHANGED hist

\* With attempts left a round that verified nothing is recovered from; the
\* last one passes.
Unverified(s, diagnosis) ==
  [s EXCEPT !.claims = NoClaims,
            !.diagnosis = diagnosis,
            !.verdict = IF s.attempts < MaxAttempts THEN "FAIL" ELSE "PASS"]

TakesFastPath(s) ==
  /\ s.diagnosis \in {"RETRIEVAL_FAILURE", "EMPTY_KB", "RETRIEVAL_OUTAGE"}
  /\ HasAnswer(s)
  /\ ~HasChunks(s)

VerifyFastPath ==
  /\ TakesFastPath(state)
  /\ Verify([state EXCEPT
       !.attempts = MaxAttempts,
       !.verdict = IF state.diagnosis = "RETRIEVAL_OUTAGE" THEN "FAIL" ELSE "PASS"])
  /\ UNCHANGED <<calls, claimDocs>>

\* The refusal gate.
VerifyRefusal ==
  /\ ~TakesFastPath(state)
  /\ ~HasAnswer(state) \/ IsRefusal(state.answer)
  /\ Verify(Unverified(state, "RETRIEVAL_FAILURE"))
  /\ UNCHANGED <<calls, claimDocs>>

ChecksClaims(s) == ~TakesFastPath(s) /\ HasAnswer(s) /\ ~IsRefusal(s.answer)

\* Mutant of Persist: the attempt tag is missing, as in legacy documents.
PersistUntagged(s) ==
  claimDocs' = claimDocs \cup {[attempt |-> 0, of |-> s.answer.round]}

\* execute_claim_verification inserts the claims it checked, tagged with the
\* attempt.
Persist(s) ==
  claimDocs' = claimDocs \cup {[attempt |-> s.attempts, of |-> s.answer.round]}

\* Batch verification needs chunks, and a recovery round has no individual
\* fallback: without chunks only attempt 0 can come to anything but NEUTRAL.
VerdictsPossible(s, c) ==
  HasChunks(s) \/ s.attempts = 0 \/ (c.sup = 0 /\ c.con = 0)

VerifyClaims ==
  /\ ChecksClaims(state)
  /\ \E c \in PossibleCounts :
       /\ Total(c) > 0
       /\ VerdictsPossible(state, c)
       /\ LET v == ComputeVerdict(c, FALSE)
          IN Verify([state EXCEPT
               !.claims = [counts |-> c, of |-> state.answer.round,
                           on |-> state.chunks.round],
               !.verdict = v.status,
               !.diagnosis = v.diagnosis])
  /\ Persist(state)
  /\ Spend(VerCalls)

VerifyNoClaims ==
  /\ ChecksClaims(state)
  /\ Verify([state EXCEPT !.claims = NoClaims,
                          !.verdict = "FAIL",
                          !.diagnosis = "RETRIEVAL_FAILURE"])
  /\ Spend(VerCalls)
  /\ UNCHANGED claimDocs

\* The timeout or the error may cut the insert off after it took effect.
VerifyBreaksOff ==
  /\ ChecksClaims(state)
  /\ \E diagnosis \in {"VERIFICATION_TIMEOUT", "VERIFICATION_ERROR"} :
       Verify(Unverified(state, diagnosis))
  /\ Persist(state) \/ UNCHANGED claimDocs
  /\ Spend(VerCalls)

Verification ==
  \/ VerifyFastPath
  \/ VerifyRefusal
  \/ VerifyClaims
  \/ VerifyNoClaims
  \/ VerifyBreaksOff

-----------------------------------------------------------------------------
(* recovery_node                                                           *)

\* _select_recovery_strategy.  The caller has already cleared the diagnosis.
SelectStrategy(s) ==
  CASE s.diagnosis \in {"RETRIEVAL_FAILURE", "EMPTY_KB", "RETRIEVAL_OUTAGE",
                        "RETRIEVAL_ERROR"} -> "query_rewrite"
    [] s.diagnosis \in {"LOW_COVERAGE", "EVIDENCE_CONFLICT"} -> "re_retrieve"
    [] s.diagnosis \in {"VERIFICATION_TIMEOUT", "VERIFICATION_ERROR",
                        "GENERATION_ERROR"} -> "regenerate"
    [] OTHER -> StrategyPriority[((s.attempts - 1) % Len(StrategyPriority)) + 1]

\* Mutant of Cleared: the attempt is not counted.
ClearedUncounted(s) ==
  [s EXCEPT !.answer = NoAnswer,
            !.claims = NoClaims,
            !.cacheHit = FALSE,
            !.diagnosis = "none",
            !.verdict = "FAIL"]

\* The state a recovery round starts from: attempt counted, last round
\* forgotten.
Cleared(s) ==
  [s EXCEPT !.attempts = s.attempts + 1,
            !.answer = NoAnswer,
            !.claims = NoClaims,
            !.cacheHit = FALSE,
            !.diagnosis = "none",
            !.verdict = "FAIL"]

BudgetSpent(s) == s.spent >= RecoveryBudget

\* _execute_query_rewrite: a usable rewrite becomes the query.  An empty one
\* leaves the query alone, and so does a failing call or trace event; on chunks
\* that were already refused it goes back to the refusal instead of searching.
Rewritten(s, prior) ==
  LET searches == [s EXCEPT !.strategy = "query_rewrite"]
      keeps    == [s EXCEPT !.strategy = "none"]
      refuses  == {[s EXCEPT !.strategy = st, !.answer = prior] : st \in {"regenerate", "none"}}
  IN {searches, keeps} \cup (IF IsRefusal(prior) /\ HasChunks(s) THEN refuses ELSE {})

\* _execute_re_retrieve: enough evidence downgrades it to a regeneration.
Widened(s) ==
  {[s EXCEPT !.strategy = IF s.chunks.size = "full" THEN "regenerate" ELSE "re_retrieve"]}

ApplyStrategy(s, prior) ==
  CASE SelectStrategy(s) = "query_rewrite" -> Rewritten(s, prior)
    [] SelectStrategy(s) = "re_retrieve"   -> Widened(s)
    [] OTHER                               -> {[s EXCEPT !.strategy = "regenerate"]}

RecoveredStates ==
  {[s EXCEPT !.spent = @ + cost] :
     s \in ApplyStrategy(Cleared(state), state.answer), cost \in 0..RoundCost}

RewriteCalls(s) ==
  IF ~Exhausted /\ ~BudgetSpent(s) /\ SelectStrategy(Cleared(s)) = "query_rewrite"
  THEN 1 ELSE 0

RecoveryRound ==
  /\ Work("recovery")
  /\ ~BudgetSpent(state)
  /\ state' \in RecoveredStates
  /\ Spend(RewriteCalls(state))
  /\ Leave("recovery")
  /\ UNCHANGED hist

\* "Force end": the run still goes back to retrieval.
ForcedEnd(s) ==
  [s EXCEPT !.verdict = "PASS",
            !.diagnosis = "RECOVERY_BUDGET_EXHAUSTED",
            !.attempts = MaxAttempts]

RecoveryBudgetExhausted ==
  /\ Work("recovery")
  /\ BudgetSpent(state)
  /\ state' = ForcedEnd(state)
  /\ Leave("recovery")
  /\ UNCHANGED <<calls, hist>>

\* A timeout, or the recovery record cannot be inserted: the state is put
\* back to what it was before the node, attempt count included.
RecoveryFails ==
  /\ Enter("recovery")
  /\ state' = RecoveryFallback(state)
  /\ Spend(RewriteCalls(state))
  /\ hist' = [hist EXCEPT !.recoveryFailed = TRUE]
  /\ Leave("recovery")

PartlyRecovered ==
  IF Exhausted THEN {state}
  ELSE IF BudgetSpent(state) THEN {ForcedEnd(state)}
  ELSE RecoveredStates

RecoveryLlmOutage ==
  /\ Enter("recovery")
  /\ \E s \in PartlyRecovered : LlmOutage(s)
  /\ Spend(RewriteCalls(state))
  /\ Leave("recovery")
  /\ UNCHANGED hist

Recovery ==
  \/ BudgetStop("recovery")
  \/ RecoveryRound
  \/ RecoveryBudgetExhausted
  \/ RecoveryFails
  \/ RecoveryLlmOutage

-----------------------------------------------------------------------------
(* How a run ends                                                          *)

\* The coordinator caches what passed.
StoreAnswer ==
  /\ pc = "end"
  /\ pc' = "done"
  /\ stored' = IF /\ cacheable
                  /\ state.verdict = "PASS"
                  /\ state.answer.text \notin {"none", "ABSTAIN"}
               THEN state.answer
               ELSE NoAnswer
  /\ UNCHANGED <<state, round, steps, calls, claimDocs, cacheable, hist>>

\* A node raises: a trace event outside the guarded block cannot be written,
\* or LangGraph's recursion limit is reached.
NodeRaises ==
  /\ pc \in Nodes
  /\ pc' = "raised"
  /\ \/ UNCHANGED claimDocs
     \/ pc = "verification" /\ ChecksClaims(state) /\ Persist(state)
  /\ UNCHANGED <<state, round, steps, calls, cacheable, stored, hist>>

Ended ==
  /\ pc \in {"done", "raised"}
  /\ UNCHANGED vars

Next ==
  \/ StartUncached
  \/ StartCached
  \/ Retrieval
  \/ Generation
  \/ Verification
  \/ Recovery
  \/ StoreAnswer
  \/ NodeRaises
  \/ Ended

Spec == Init /\ [][Next]_vars

-----------------------------------------------------------------------------
(* What the run reports, and its properties                                *)

\* verdict_from_state, applied by the analysis service to the final state.
Reported(s) == ComputeVerdict(s.claims.counts, s.answer.text = "ABSTAIN")

\* _fetch_claims: the answers whose claims a reader is shown.
Displayed ==
  {d.of : d \in {x \in claimDocs : \A y \in claimDocs : y.attempt <= x.attempt}}

\* The values the variables range over.
TypeOK ==
  /\ pc \in Nodes \cup {"start", "end", "done", "raised"}
  /\ state \in AgentState
  /\ round \in Nat
  /\ steps \in Nat
  /\ calls \in Nat
  /\ claimDocs \subseteq [attempt: Attempts, of: Nat]
  /\ cacheable \in BOOLEAN
  /\ stored \in Answers
  /\ hist \in History

\* An answer reported TRUSTED, from the cache or freshly generated, has had
\* its own claims checked in this run, on the very chunks the run ended with,
\* and is no refusal or notice of an LLM outage.
TrustedIsVerified ==
  pc \in {"end", "done"} /\ Reported(state).reliability = "TRUSTED" =>
    /\ state.claims.of = state.answer.round
    /\ state.claims.on = state.chunks.round
    /\ HasAnswer(state) /\ ~IsRefusal(state.answer)
    /\ state.claims.counts.sup > 0

\* As long as no recovery node fell back to its snapshot, a run executes at
\* most four nodes per recovery attempt and three more, whatever the verdicts,
\* outages and exhausted budgets on the way.
RoundsBounded ==
  ~hist.recoveryFailed => steps <= 4 * MaxAttempts + 3

\* A search outage ends the run in its own round, with nothing reported as
\* found: it is never recovered from and never TRUSTED or UNCERTAIN.
SearchOutageEndsRun ==
  round > 0 /\ hist.searchOutage = round =>
    /\ pc # "recovery"
    /\ pc \in {"end", "done"} =>
         Reported(state).reliability \in {"FAILED", "ABSTAINED"}

\* On a cloud tier a run exceeds its call cap by no more than the generation
\* that crossed it and the two verifications that can still follow, as long as
\* no recovery node fell back to its snapshot.
SpendCeiling ==
  Capped /\ ~hist.recoveryFailed => calls < CallCap + GenCalls + 2 * VerCalls

\* The claims shown for a run that ended with verified claims are those of its
\* final answer, not of an answer an earlier round superseded.
DisplayedMatchesVerdict ==
  /\ pc = "done"
  /\ ~hist.recoveryFailed
  /\ Total(state.claims.counts) > 0
  => Displayed = {state.answer.round}

=============================================================================
