-------------------------- MODULE AgentGraph_proofs --------------------------
(***************************************************************************)
(* Proofs about the reliability loop and about the verdict it turns on     *)
(* (module VerdictChanges), for every value of the constants.              *)
(***************************************************************************)
EXTENDS AgentGraphInv, VerdictChanges, TLAPS

-----------------------------------------------------------------------------
(* What the operators of the model return.                                 *)

\* Attempts are the numbers up to MaxAttempts, and counting one that is below the
\* limit stays within them.
LEMMA AttemptsBounds ==
  /\ MaxAttempts \in Nat
  /\ MaxAttempts \in Attempts
  /\ \A a \in Attempts : a \in Nat /\ a <= MaxAttempts
  /\ \A a \in Attempts : a < MaxAttempts => a + 1 \in Attempts
  /\ 0 \in Attempts
BY GraphAssumption DEF Attempts

\* The special values are answers, chunks and claims.
LEMMA ConstantsTyped ==
  /\ NoAnswer \in Answers
  /\ NoChunks \in Chunks
  /\ NoClaims \in Claims
  /\ InitialState \in AgentState
<1>1. NoAnswer \in Answers /\ NoChunks \in Chunks
  BY DEF NoAnswer, NoChunks, Answers, Chunks, AnswerTexts
<1>2. NoClaims \in Claims
  BY DEF NoClaims, NoCounts, Claims, Counts
<1>3. InitialState \in AgentState
  BY <1>1, <1>2, AttemptsBounds
  DEF InitialState, AgentState, Strategies, Diagnoses
<1> QED BY <1>1, <1>2, <1>3

\* compute_verdict diagnoses what the graph knows.
LEMMA VerdictTyped ==
  ASSUME NEW c, NEW abstained \in BOOLEAN
  PROVE  /\ ComputeVerdict(c, abstained).status \in {"PASS", "FAIL"}
         /\ ComputeVerdict(c, abstained).diagnosis \in Diagnoses
BY DEF ComputeVerdict, VerdictStatus, DiagnosisType, Diagnoses

\* The states the retrieval node may leave behind.
LEMMA RetrievalTyped ==
  ASSUME NEW s \in AgentState, NEW rnd \in Nat
  PROVE  /\ Searched(s, rnd) \subseteq AgentState
         /\ SearchOutage(s, rnd) \in AgentState
         /\ EmptyKB(s, rnd) \in AgentState
         /\ RetrievalFallback(s) \in AgentState
         /\ PartlyRetrieved(s, rnd) \subseteq AgentState
<1>1. Searched(s, rnd) \subseteq AgentState
  BY DEF Searched, AgentState, Chunks
<1>2. SearchOutage(s, rnd) \in AgentState
  BY ConstantsTyped, AttemptsBounds
  DEF SearchOutage, AgentState, Answers, AnswerTexts, Diagnoses
<1>3. EmptyKB(s, rnd) \in AgentState
  BY ConstantsTyped DEF EmptyKB, AgentState, Answers, AnswerTexts, Diagnoses
<1>4. RetrievalFallback(s) \in AgentState
  BY ConstantsTyped DEF RetrievalFallback, AgentState, Diagnoses
<1>5. PartlyRetrieved(s, rnd) \subseteq AgentState
  BY <1>1, <1>2, <1>3 DEF PartlyRetrieved
<1> QED BY <1>1, <1>2, <1>3, <1>4, <1>5

\* The states a recovery round may leave behind: it counts one attempt.
LEMMA RecoveryTyped ==
  ASSUME state \in AgentState, state.attempts < MaxAttempts
  PROVE  /\ RecoveredStates \subseteq AgentState
         /\ \A s \in RecoveredStates :
              /\ s.attempts = state.attempts + 1
              /\ s.claims = NoClaims
              /\ s.diagnosis = "none"
         /\ ForcedEnd(state) \in AgentState
         /\ RecoveryFallback(state) \in AgentState
         /\ PartlyRecovered \subseteq AgentState
<1> DEFINE c == Cleared(state)
<1>1. /\ c \in AgentState
      /\ c.attempts = state.attempts + 1
      /\ c.claims = NoClaims
      /\ c.diagnosis = "none"
  BY ConstantsTyped, AttemptsBounds DEF Cleared, AgentState, Diagnoses
<1>2. state.answer \in Answers
  BY DEF AgentState
<1>3. ASSUME NEW s \in ApplyStrategy(c, state.answer)
      PROVE  /\ s \in AgentState
             /\ s.attempts = state.attempts + 1
             /\ s.claims = NoClaims
             /\ s.diagnosis = "none"
  <2> HIDE DEF c
  <2>1. PICK st \in Strategies, a \in Answers :
          s = [c EXCEPT !.strategy = st, !.answer = a]
    <3>1. c.answer \in Answers /\ c = [c EXCEPT !.answer = c.answer]
      BY <1>1 DEF AgentState
    <3>2. \A st \in Strategies :
            [c EXCEPT !.strategy = st] = [c EXCEPT !.strategy = st, !.answer = c.answer]
      BY <1>1 DEF AgentState
    <3>3. \E st \in Strategies : s \in {[c EXCEPT !.strategy = st],
                             [c EXCEPT !.strategy = st, !.answer = state.answer]}
      BY DEF ApplyStrategy, Rewritten, Widened, Strategies
    <3>4. PICK st \in Strategies : s \in {[c EXCEPT !.strategy = st],
                             [c EXCEPT !.strategy = st, !.answer = state.answer]}
      BY <3>3
    <3>5. CASE s = [c EXCEPT !.strategy = st]
      <4>1. s = [c EXCEPT !.strategy = st, !.answer = c.answer]
        BY <3>2, <3>5
      <4> QED BY <3>1, <4>1
    <3>6. CASE s = [c EXCEPT !.strategy = st, !.answer = state.answer]
      BY <3>6, <1>2
    <3> QED BY <3>4, <3>5, <3>6
  <2> QED BY <1>1, <2>1 DEF AgentState
<1>4. ASSUME NEW s \in RecoveredStates
      PROVE  /\ s \in AgentState
             /\ s.attempts = state.attempts + 1
             /\ s.claims = NoClaims
             /\ s.diagnosis = "none"
  <2>1. PICK r \in ApplyStrategy(c, state.answer), cost \in 0..RoundCost :
          s = [r EXCEPT !.spent = @ + cost]
    BY DEF RecoveredStates
  <2>2. r \in AgentState /\ r.spent \in Nat /\ cost \in Nat
    BY <1>3, GraphAssumption DEF AgentState
  <2>3. r.spent + cost \in Nat
    BY <2>2
  <2> QED BY <1>3, <2>1, <2>2, <2>3 DEF AgentState
<1>5. ForcedEnd(state) \in AgentState
  BY AttemptsBounds DEF ForcedEnd, AgentState, Diagnoses
<1>6. RecoveryFallback(state) \in AgentState
  BY DEF RecoveryFallback, AgentState, Diagnoses, Strategies
<1>7. PartlyRecovered \subseteq AgentState
  BY <1>4, <1>5 DEF PartlyRecovered
<1> QED BY <1>4, <1>5, <1>6, <1>7

-----------------------------------------------------------------------------
(* Types.                                                                  *)

\* What a node's own step does to the counters.
LEMMA EnterTyped ==
  ASSUME TypeInv, NEW node \in Nodes, Enter(node)
  PROVE  /\ round' \in Nat /\ steps' \in Nat
         /\ cacheable' \in BOOLEAN /\ stored' \in Answers
BY DEF TypeInv, TypeOK, Enter

\* Spending at most n calls (core/llm_ledger.py) moves the ledger by at most n.
LEMMA SpendTyped ==
  ASSUME calls \in Nat, NEW n \in Nat, Spend(n)
  PROVE  calls' \in Nat /\ calls <= calls' /\ calls' <= calls + n
BY DEF Spend

\* What the nodes record in the history variable keeps its type.
LEMMA HistTyped ==
  ASSUME hist \in History, round' \in Nat, state \in AgentState
  PROVE  /\ [hist EXCEPT !.searchOutage = round'] \in History
         /\ [hist EXCEPT !.recoveryFailed = TRUE] \in History
BY DEF History

\* A provider outage leaves no attempts.
LEMMA LlmOutageTyped ==
  ASSUME NEW s \in AgentState, LlmOutage(s), round' \in Nat
  PROVE  state' \in AgentState /\ state'.attempts = MaxAttempts
BY AttemptsBounds
DEF LlmOutage, AgentState, Answers, AnswerTexts, Diagnoses

\* The stop of a guarded node by the spend guard (_run_node_with_safety) keeps
\* the types.
LEMMA BudgetStopTyped ==
  ASSUME TypeInv, NEW node \in {"retrieval", "generation", "recovery"},
         BudgetStop(node)
  PROVE  TypeInv'
<1>1. state' \in AgentState
  BY AttemptsBounds DEF BudgetStop, TypeInv, TypeOK, AgentState, Diagnoses
<1>2. pc' \in {"generation", "verification", "retrieval"}
  BY DEF BudgetStop, Leave, NextNode
<1>3. node \in Nodes /\ Enter(node)
  BY DEF BudgetStop, Nodes
<1> QED
  BY <1>1, <1>2, <1>3, EnterTyped
  DEF TypeInv, TypeOK, AttemptsLeft, BudgetStop, Leave, Nodes

\* retrieval_node keeps the types, whichever way it ends.
LEMMA RetrievalTypes == TypeInv /\ Retrieval => TypeInv'
<1> SUFFICES ASSUME TypeInv, Retrieval PROVE TypeInv'
  OBVIOUS
<1>1. CASE BudgetStop("retrieval")
  BY <1>1, BudgetStopTyped
<1>2. CASE \/ RetrievalReuse \/ RetrievalSearch \/ RetrievalOutage
           \/ RetrievalEmptyKB \/ RetrievalFails \/ RetrievalLlmOutage
  <2>1. Enter("retrieval") /\ Leave("retrieval") /\ UNCHANGED calls
    BY <1>2 DEF RetrievalReuse, RetrievalSearch, RetrievalOutage, Work,
                RetrievalEmptyKB, RetrievalFails, RetrievalLlmOutage
  <2>2. /\ round' \in Nat /\ steps' \in Nat
        /\ cacheable' \in BOOLEAN /\ stored' \in Answers
    BY <2>1, EnterTyped DEF Nodes
  <2>3. pc' = "generation" /\ UNCHANGED claimDocs
    BY <2>1 DEF Leave, NextNode
  <2>4. state \in AgentState /\ hist \in History
    BY DEF TypeInv, TypeOK
  <2>5. state' \in AgentState
    <3>1. CASE RetrievalLlmOutage
      BY <3>1, <2>2, <2>4, RetrievalTyped, LlmOutageTyped DEF RetrievalLlmOutage
    <3> QED
      BY <1>2, <3>1, <2>2, <2>4, RetrievalTyped
      DEF RetrievalReuse, RetrievalSearch, RetrievalOutage, RetrievalEmptyKB,
          RetrievalFails
  <2>6. hist' \in History
    BY <1>2, <2>2, <2>4, HistTyped
    DEF RetrievalReuse, RetrievalSearch, RetrievalOutage, RetrievalEmptyKB,
        RetrievalFails, RetrievalLlmOutage
  <2> QED
    BY <2>1, <2>2, <2>3, <2>5, <2>6 DEF TypeInv, TypeOK, AttemptsLeft, Nodes
<1> QED BY <1>1, <1>2 DEF Retrieval

\* generation_node keeps the types, whichever way it ends.
LEMMA GenerationTypes == TypeInv /\ Generation => TypeInv'
<1> SUFFICES ASSUME TypeInv, Generation PROVE TypeInv'
  OBVIOUS
<1>1. CASE BudgetStop("generation")
  BY <1>1, BudgetStopTyped
<1>2. CASE \/ GenerationSkip \/ GenerationNoContext \/ GenerationAnswers
           \/ GenerationUnreachable \/ GenerationFails \/ GenerationLlmOutage
  <2>1. Enter("generation") /\ Leave("generation")
    BY <1>2 DEF GenerationSkip, GenerationNoContext, GenerationAnswers, Work,
                GenerationUnreachable, GenerationFails, GenerationLlmOutage
  <2>2. /\ round' \in Nat /\ steps' \in Nat
        /\ cacheable' \in BOOLEAN /\ stored' \in Answers
    BY <2>1, EnterTyped DEF Nodes
  <2>3. pc' = "verification" /\ UNCHANGED claimDocs
    BY <2>1 DEF Leave, NextNode
  <2>4. /\ state \in AgentState /\ hist \in History
        /\ calls \in Nat /\ round \in Nat
    BY DEF TypeInv, TypeOK
  <2>5. \A text \in AnswerTexts :
          [state EXCEPT !.answer = [text |-> text, round |-> round]] \in AgentState
    BY <2>4 DEF AgentState, Answers
  <2>6. state' \in AgentState
    <3>1. CASE GenerationLlmOutage
      BY <3>1, <2>2, <2>4, LlmOutageTyped DEF GenerationLlmOutage
    <3>2. CASE GenerationFails
      BY <3>2, <2>4
      DEF GenerationFails, GenerationFallback, AgentState, Answers, AnswerTexts,
          Diagnoses
    <3>3. CASE GenerationAnswers
      BY <3>3, <2>5 DEF GenerationAnswers, AnswerTexts
    <3> QED
      BY <1>2, <3>1, <3>2, <3>3, <2>4, <2>5
      DEF GenerationSkip, GenerationNoContext, GenerationUnreachable, AnswerTexts
  <2>7. hist' \in History
    BY <1>2, <2>4
    DEF GenerationSkip, GenerationNoContext, GenerationAnswers,
        GenerationUnreachable, GenerationFails, GenerationLlmOutage
  <2>8. calls' \in Nat
    <3>1. CASE GenerationSkip \/ GenerationNoContext
      BY <3>1, <2>4 DEF GenerationSkip, GenerationNoContext
    <3>2. CASE GenerationAnswers
      BY <3>2, <2>4, GraphAssumption DEF GenerationAnswers
    <3>3. CASE GenerationUnreachable \/ GenerationFails \/ GenerationLlmOutage
      <4>1. \E n : Spend(n)
        BY <3>3 DEF GenerationUnreachable, GenerationFails, GenerationLlmOutage
      <4> QED BY <4>1, <2>4 DEF Spend
    <3> QED BY <1>2, <3>1, <3>2, <3>3
  <2> QED
    BY <2>2, <2>3, <2>4, <2>6, <2>7, <2>8 DEF TypeInv, TypeOK, AttemptsLeft, Nodes
<1> QED BY <1>1, <1>2 DEF Generation

\* What verification does to a state, whichever way it goes.
LEMMA VerifyTyped ==
  ASSUME TypeInv, NEW s \in AgentState, Verify(s)
  PROVE  /\ state' \in AgentState
         /\ pc' \in {"recovery", "end"}
         /\ AttemptsLeft'
         /\ round' \in Nat /\ steps' \in Nat /\ hist' \in History
         /\ cacheable' \in BOOLEAN /\ stored' \in Answers
<1>1. Enter("verification") /\ state' = s /\ hist' = hist
  BY DEF Verify
<1>2. pc' \in {"recovery", "end"}
  BY DEF Verify
<1>3. pc' = "recovery" => s.attempts < MaxAttempts
  BY DEF Verify, ShouldRecover
<1>4. /\ round' \in Nat /\ steps' \in Nat
      /\ cacheable' \in BOOLEAN /\ stored' \in Answers
  BY <1>1, EnterTyped DEF Nodes
<1> QED BY <1>1, <1>2, <1>3, <1>4 DEF AttemptsLeft, TypeInv, TypeOK

\* The claims verification inserts carry an attempt that is in bounds.
LEMMA PersistTyped ==
  ASSUME TypeInv, Persist(state)
  PROVE  claimDocs' \subseteq [attempt: Attempts, of: Nat]
BY DEF TypeInv, TypeOK, Persist, AgentState, Answers

\* A state verification gives up on is a state of the loop.
LEMMA UnverifiedTyped ==
  ASSUME NEW s \in AgentState,
         NEW d \in {"RETRIEVAL_FAILURE", "VERIFICATION_TIMEOUT", "VERIFICATION_ERROR"}
  PROVE  Unverified(s, d) \in AgentState
BY ConstantsTyped DEF Unverified, AgentState, Diagnoses

\* The state after the claims have been checked and counted.
LEMMA CheckedTyped ==
  ASSUME NEW s \in AgentState, NEW c \in PossibleCounts
  PROVE  [s EXCEPT !.claims = [counts |-> c, of |-> s.answer.round,
                               on |-> s.chunks.round],
                   !.verdict = ComputeVerdict(c, FALSE).status,
                   !.diagnosis = ComputeVerdict(c, FALSE).diagnosis] \in AgentState
<1>1. c \in Counts
  BY GraphAssumption DEF PossibleCounts, Counts
<1>2. [counts |-> c, of |-> s.answer.round, on |-> s.chunks.round] \in Claims
  BY <1>1 DEF Claims, AgentState, Answers, Chunks
<1> QED BY <1>2, VerdictTyped DEF AgentState

\* verification_node keeps the types, whichever way it ends.
LEMMA VerificationTypes == TypeInv /\ Verification => TypeInv'
<1> SUFFICES ASSUME TypeInv, Verification PROVE TypeInv'
  OBVIOUS
<1> USE DEF TypeInv, TypeOK
<1>1. /\ state \in AgentState /\ calls \in Nat
      /\ claimDocs \subseteq [attempt: Attempts, of: Nat]
  OBVIOUS
<1>2. /\ \E s \in AgentState : Verify(s)
      /\ calls' \in Nat
      /\ claimDocs' \subseteq [attempt: Attempts, of: Nat]
  <2>1. CASE VerifyFastPath
    <3> DEFINE s == [state EXCEPT
           !.attempts = MaxAttempts,
           !.verdict = IF state.diagnosis = "RETRIEVAL_OUTAGE" THEN "FAIL" ELSE "PASS"]
    <3>1. s \in AgentState
      BY <1>1, AttemptsBounds DEF AgentState
    <3>2. Verify(s) /\ UNCHANGED <<calls, claimDocs>>
      BY <2>1 DEF VerifyFastPath
    <3> QED BY <3>1, <3>2, <1>1
  <2>2. CASE VerifyRefusal
    BY <2>2, <1>1, UnverifiedTyped DEF VerifyRefusal
  <2>3. CASE VerifyClaims
    <3>1. PICK c \in PossibleCounts :
            Verify([state EXCEPT
               !.claims = [counts |-> c, of |-> state.answer.round,
                           on |-> state.chunks.round],
               !.verdict = ComputeVerdict(c, FALSE).status,
               !.diagnosis = ComputeVerdict(c, FALSE).diagnosis])
      BY <2>3 DEF VerifyClaims
    <3>2. Persist(state) /\ Spend(VerCalls)
      BY <2>3 DEF VerifyClaims
    <3> QED
      BY <3>1, <3>2, <1>1, CheckedTyped, PersistTyped, SpendTyped, GraphAssumption
  <2>4. CASE VerifyNoClaims
    <3> DEFINE s == [state EXCEPT !.claims = NoClaims,
                                  !.verdict = "FAIL",
                                  !.diagnosis = "RETRIEVAL_FAILURE"]
    <3>1. s \in AgentState
      BY <1>1, ConstantsTyped DEF AgentState, Diagnoses
    <3>2. Verify(s) /\ Spend(VerCalls) /\ UNCHANGED claimDocs
      BY <2>4 DEF VerifyNoClaims
    <3> QED BY <3>1, <3>2, <1>1, SpendTyped, GraphAssumption
  <2>5. CASE VerifyBreaksOff
    BY <2>5, <1>1, UnverifiedTyped, PersistTyped, SpendTyped, GraphAssumption
    DEF VerifyBreaksOff
  <2> QED BY <2>1, <2>2, <2>3, <2>4, <2>5 DEF Verification
<1> QED BY <1>2, VerifyTyped DEF Nodes

\* recovery_node keeps the types, its fallback included.
LEMMA RecoveryTypes == TypeInv /\ Recovery => TypeInv'
<1> SUFFICES ASSUME TypeInv, Recovery PROVE TypeInv'
  OBVIOUS
<1>1. CASE BudgetStop("recovery")
  BY <1>1, BudgetStopTyped
<1>2. CASE \/ RecoveryRound \/ RecoveryBudgetExhausted \/ RecoveryFails
           \/ RecoveryLlmOutage
  <2>1. Enter("recovery") /\ Leave("recovery")
    BY <1>2 DEF RecoveryRound, RecoveryBudgetExhausted, RecoveryFails,
                RecoveryLlmOutage, Work
  <2>2. /\ round' \in Nat /\ steps' \in Nat
        /\ cacheable' \in BOOLEAN /\ stored' \in Answers
    BY <2>1, EnterTyped DEF Nodes
  <2>3. pc' = "retrieval" /\ UNCHANGED claimDocs
    BY <2>1 DEF Leave, NextNode
  <2>4. /\ state \in AgentState /\ hist \in History /\ calls \in Nat
        /\ state.attempts < MaxAttempts
    BY <2>1 DEF TypeInv, TypeOK, AttemptsLeft, Enter
  <2>5. state' \in AgentState
    BY <1>2, <2>2, <2>4, RecoveryTyped, LlmOutageTyped
    DEF RecoveryRound, RecoveryBudgetExhausted, RecoveryFails, RecoveryLlmOutage
  <2>6. hist' \in History
    BY <1>2, <2>2, <2>4, HistTyped
    DEF RecoveryRound, RecoveryBudgetExhausted, RecoveryFails, RecoveryLlmOutage
  <2>7. calls' \in Nat
    <3>1. RewriteCalls(state) \in Nat
      BY DEF RewriteCalls
    <3> QED
      BY <1>2, <3>1, <2>4, SpendTyped
      DEF RecoveryRound, RecoveryBudgetExhausted, RecoveryFails, RecoveryLlmOutage
  <2> QED
    BY <2>2, <2>3, <2>4, <2>5, <2>6, <2>7 DEF TypeInv, TypeOK, AttemptsLeft, Nodes
<1> QED BY <1>1, <1>2 DEF Recovery

\* The steps outside the four nodes.
Frame == StartUncached \/ StartCached \/ StoreAnswer \/ NodeRaises \/ Ended

\* The coordinator around the graph (execute_agentic_rag_flow) keeps the types.
LEMMA FrameTypes == TypeInv /\ Frame => TypeInv'
<1> SUFFICES ASSUME TypeInv, Frame PROVE TypeInv'
  OBVIOUS
<1> USE DEF TypeInv, TypeOK, AttemptsLeft
<1>1. CASE StartUncached
  BY <1>1 DEF StartUncached, Nodes
<1>2. CASE StartCached
  <2>1. PICK text \in AnswerTexts :
          state' = [state EXCEPT !.answer = [text |-> text, round |-> 0],
                                 !.cacheHit = TRUE]
    BY <1>2 DEF StartCached
  <2>2. state' \in AgentState
    BY <2>1 DEF AgentState, Answers
  <2> QED BY <1>2, <2>2 DEF StartCached, Nodes
<1>3. CASE StoreAnswer
  BY <1>3, ConstantsTyped DEF StoreAnswer, Nodes, AgentState
<1>4. CASE NodeRaises
  <2>1. claimDocs' \subseteq [attempt: Attempts, of: Nat]
    BY <1>4, PersistTyped DEF NodeRaises
  <2> QED BY <1>4, <2>1 DEF NodeRaises, Nodes
<1>5. CASE Ended
  BY <1>5 DEF Ended, vars
<1> QED BY <1>1, <1>2, <1>3, <1>4, <1>5 DEF Frame

\* Every step is a node's or one of the frame's.
LEMMA NextCases ==
  Next <=> Retrieval \/ Generation \/ Verification \/ Recovery \/ Frame
BY DEF Next, Frame

\* Every step of the loop keeps the types and the attempts of recovery in bounds.
LEMMA TypesStep == TypeInv /\ [Next]_vars => TypeInv'
<1>1. TypeInv /\ UNCHANGED vars => TypeInv'
  BY DEF TypeInv, TypeOK, AttemptsLeft, vars
<1> QED
  BY <1>1, NextCases, RetrievalTypes, GenerationTypes, VerificationTypes,
     RecoveryTypes, FrameTypes

\* The loop starts in its types.
LEMMA TypesInit == Init => TypeInv
<1> SUFFICES ASSUME Init PROVE TypeInv
  OBVIOUS
<1>1. state \in AgentState /\ stored \in Answers
  BY ConstantsTyped DEF Init
<1>2. hist \in History
  BY DEF Init, History
<1> QED BY <1>1, <1>2 DEF Init, TypeInv, TypeOK, AttemptsLeft, Nodes

\* The variables keep their types, and a recovery attempt is always counted
\* within max_recovery_attempts.
THEOREM TypeCorrect == Spec => []TypeOK
<1>1. TypeInv => TypeOK
  BY DEF TypeInv
<1> QED BY TypesInit, TypesStep, <1>1, PTL DEF Spec

-----------------------------------------------------------------------------
(* What a step of each node can change, in the terms the invariants use.   *)

\* What retrieval_node may change, whichever way it ends: all the later lemmas
\* need of it.
LEMMA RetrievalEffect ==
  ASSUME TypeInv, Retrieval
  PROVE  /\ pc = "retrieval" /\ pc' = "generation"
         /\ steps' = steps + 1 /\ round' = round + 1
         /\ UNCHANGED <<calls, claimDocs, stored>>
         /\ hist'.recoveryFailed = hist.recoveryFailed
         /\ state'.attempts = state.attempts \/ state'.attempts = MaxAttempts
         /\ state'.diagnosis \in FastDiagnoses =>
              state.diagnosis \in FastDiagnoses \/ state'.claims = NoClaims
         /\ \/ hist'.searchOutage = hist.searchOutage
            \/ /\ ~Exhausted
               /\ hist'.searchOutage = round'
               /\ state' = SearchOutage(state, round')
<1>1. /\ Enter("retrieval") /\ Leave("retrieval")
      /\ UNCHANGED calls
  BY DEF Retrieval, BudgetStop, RetrievalReuse, RetrievalSearch, RetrievalOutage,
         RetrievalEmptyKB, RetrievalFails, RetrievalLlmOutage, Work
<1>2. /\ pc = "retrieval" /\ pc' = "generation"
      /\ steps' = steps + 1 /\ round' = round + 1
      /\ UNCHANGED <<calls, claimDocs, stored>>
  BY <1>1 DEF Enter, Leave, NextNode
<1>3. state \in AgentState /\ hist \in History /\ round' \in Nat
  BY <1>2 DEF TypeInv, TypeOK
<1>4. CASE BudgetStop("retrieval")
  BY <1>2, <1>3, <1>4 DEF BudgetStop, AgentState, FastDiagnoses
<1>5. CASE RetrievalReuse
  BY <1>2, <1>3, <1>5 DEF RetrievalReuse
<1>6. CASE RetrievalSearch
  BY <1>2, <1>3, <1>6 DEF RetrievalSearch, Searched, AgentState
<1>7. CASE RetrievalOutage
  BY <1>2, <1>3, <1>7
  DEF RetrievalOutage, Work, SearchOutage, AgentState, History
<1>8. CASE RetrievalEmptyKB
  BY <1>2, <1>3, <1>8 DEF RetrievalEmptyKB, EmptyKB, AgentState
<1>9. CASE RetrievalFails
  BY <1>2, <1>3, <1>9
  DEF RetrievalFails, RetrievalFallback, AgentState, FastDiagnoses
<1>10. CASE RetrievalLlmOutage
  <2>1. PICK s \in AgentState : LlmOutage(s)
    BY <1>3, <1>10, RetrievalTyped DEF RetrievalLlmOutage
  <2>2. state'.diagnosis = "LLM_OUTAGE" /\ state'.attempts = MaxAttempts
    BY <2>1 DEF LlmOutage, AgentState
  <2> QED
    BY <1>2, <1>3, <1>10, <2>2 DEF RetrievalLlmOutage, FastDiagnoses, History
<1> QED
  BY <1>4, <1>5, <1>6, <1>7, <1>8, <1>9, <1>10 DEF Retrieval

\* Generation with the budget exhausted spends nothing, and leaves no attempts
\* or a refusal.
LEMMA GenerationEffect ==
  ASSUME TypeInv, Generation
  PROVE  /\ pc = "generation" /\ pc' = "verification"
         /\ steps' = steps + 1 /\ round' = round
         /\ UNCHANGED <<claimDocs, stored>>
         /\ calls' \in Nat /\ calls' <= calls + GenCalls
         /\ hist'.recoveryFailed = hist.recoveryFailed
         /\ hist'.searchOutage = hist.searchOutage
         /\ state'.attempts = state.attempts \/ state'.attempts = MaxAttempts
         /\ state'.claims = state.claims
         /\ state'.chunks = state.chunks
         /\ state'.diagnosis = state.diagnosis \/ state'.diagnosis \notin FastDiagnoses
         /\ Exhausted =>
              /\ calls' = calls
              /\ state'.attempts = MaxAttempts \/ IsRefusal(state'.answer)
         /\ ~Exhausted /\ ~Generates(state) =>
              state' = state \/ IsRefusal(state'.answer)
<1>1. /\ Enter("generation") /\ Leave("generation")
  BY DEF Generation, BudgetStop, GenerationSkip, GenerationNoContext, Work,
         GenerationAnswers, GenerationUnreachable, GenerationFails,
         GenerationLlmOutage
<1>2. /\ pc = "generation" /\ pc' = "verification"
      /\ steps' = steps + 1 /\ round' = round
      /\ UNCHANGED <<claimDocs, stored>>
  BY <1>1 DEF Enter, Leave, NextNode
<1>3. /\ state \in AgentState /\ hist \in History
      /\ calls \in Nat /\ GenCalls \in Nat \ {0}
  BY GraphAssumption DEF TypeInv, TypeOK
<1>4. CASE BudgetStop("generation")
  BY <1>2, <1>3, <1>4 DEF BudgetStop, AgentState, FastDiagnoses
<1>5. CASE GenerationSkip
  BY <1>2, <1>3, <1>5 DEF GenerationSkip, Work
<1>6. CASE GenerationNoContext
  BY <1>2, <1>3, <1>6 DEF GenerationNoContext, AgentState, Work
<1>7. CASE GenerationAnswers
  <2>1. PICK text \in {"ABSTAIN", "refusal", "grounded"} :
          state' = [state EXCEPT !.answer = [text |-> text, round |-> round]]
    BY <1>7 DEF GenerationAnswers
  <2>2. /\ hist'.recoveryFailed = hist.recoveryFailed
        /\ hist'.searchOutage = hist.searchOutage
    BY <1>3, <1>7 DEF GenerationAnswers, History
  <2>3. calls' \in Nat /\ calls' <= calls + GenCalls
    BY <1>3, <1>7 DEF GenerationAnswers
  <2> QED
    BY <1>2, <1>3, <1>7, <2>1, <2>2, <2>3 DEF GenerationAnswers, AgentState, Work
<1>8. CASE GenerationUnreachable
  <2>1. calls' \in Nat /\ calls' <= calls + GenCalls
    BY <1>3, <1>8, SpendTyped DEF GenerationUnreachable
  <2> QED
    BY <1>2, <1>3, <1>8, <2>1 DEF GenerationUnreachable, AgentState, History, Work
<1>9. CASE GenerationFails
  <2>1. /\ calls' \in Nat /\ calls' <= calls + GenCalls
        /\ Exhausted => calls' = calls
    BY <1>3, <1>9, SpendTyped DEF GenerationFails, CallsProvider
  <2>2. /\ state'.attempts = state.attempts
        /\ state'.claims = state.claims /\ state'.chunks = state.chunks
        /\ state'.answer.text = "ABSTAIN"
        /\ state'.diagnosis = "GENERATION_ERROR"
    BY <1>3, <1>9 DEF GenerationFails, GenerationFallback, AgentState
  <2> QED
    BY <1>2, <1>3, <1>9, <2>1, <2>2
    DEF GenerationFails, FastDiagnoses, IsRefusal
<1>10. CASE GenerationLlmOutage
  <2>1. /\ calls' \in Nat /\ calls' <= calls + GenCalls
        /\ Exhausted => calls' = calls
    BY <1>3, <1>10, SpendTyped DEF GenerationLlmOutage, CallsProvider
  <2>2. /\ state'.attempts = MaxAttempts
        /\ state'.claims = state.claims /\ state'.chunks = state.chunks
        /\ state'.answer.text = "llm_outage"
        /\ state'.diagnosis = "LLM_OUTAGE"
    BY <1>3, <1>10 DEF GenerationLlmOutage, LlmOutage, AgentState
  <2> QED
    BY <1>2, <1>3, <1>10, <2>1, <2>2
    DEF GenerationLlmOutage, FastDiagnoses, IsRefusal, History
<1> QED
  BY <1>4, <1>5, <1>6, <1>7, <1>8, <1>9, <1>10 DEF Generation

\* Where a verification ends: claims that were counted, claims the fast path
\* left alone, or none.
CountedNow(s) ==
  /\ ChecksClaims(s)
  /\ Persist(s)
  /\ state'.claims.of = s.answer.round
  /\ state'.claims.on = s.chunks.round
  /\ state'.claims.counts \in Counts

\* What verification_node may change, whichever way it ends.
LEMMA VerificationEffect ==
  ASSUME TypeInv, Verification
  PROVE  /\ pc = "verification" /\ pc' \in {"recovery", "end"}
         /\ steps' = steps + 1 /\ round' = round /\ stored' = stored
         /\ hist' = hist
         /\ pc' = "recovery" => state'.attempts < MaxAttempts
         /\ state'.attempts = state.attempts \/ state'.attempts = MaxAttempts
         /\ state'.answer = state.answer
         /\ state'.chunks = state.chunks
         /\ calls' \in Nat /\ calls' <= calls + VerCalls
         /\ ChecksClaims(state) \/ UNCHANGED <<calls, claimDocs>>
         /\ UNCHANGED claimDocs \/ Persist(state)
         /\ \/ state'.claims = NoClaims
            \/ TakesFastPath(state) /\ state'.claims = state.claims
            \/ CountedNow(state)
<1>1. /\ Enter("verification") /\ hist' = hist
      /\ pc' \in {"recovery", "end"}
      /\ pc' = "recovery" => state'.attempts < MaxAttempts
  BY DEF Verification, VerifyFastPath, VerifyRefusal, VerifyClaims, VerifyNoClaims,
         VerifyBreaksOff, Verify, ShouldRecover
<1>2. /\ pc = "verification"
      /\ steps' = steps + 1 /\ round' = round /\ stored' = stored
  BY <1>1 DEF Enter
<1>3. state \in AgentState /\ calls \in Nat /\ VerCalls \in Nat
  BY GraphAssumption DEF TypeInv, TypeOK
<1>4. CASE VerifyFastPath
  <2>1. state' = [state EXCEPT
           !.attempts = MaxAttempts,
           !.verdict = IF state.diagnosis = "RETRIEVAL_OUTAGE" THEN "FAIL" ELSE "PASS"]
    BY <1>4 DEF VerifyFastPath, Verify
  <2>2. TakesFastPath(state) /\ UNCHANGED <<calls, claimDocs>>
    BY <1>4 DEF VerifyFastPath
  <2> QED BY <1>1, <1>2, <1>3, <2>1, <2>2 DEF AgentState
<1>5. CASE VerifyRefusal
  <2>1. state' = Unverified(state, "RETRIEVAL_FAILURE") /\ UNCHANGED <<calls, claimDocs>>
    BY <1>5 DEF VerifyRefusal, Verify
  <2> QED BY <1>1, <1>2, <1>3, <2>1 DEF Unverified, AgentState
<1>6. CASE VerifyClaims
  <2>1. PICK c \in PossibleCounts :
          state' = [state EXCEPT
               !.claims = [counts |-> c, of |-> state.answer.round,
                           on |-> state.chunks.round],
               !.verdict = ComputeVerdict(c, FALSE).status,
               !.diagnosis = ComputeVerdict(c, FALSE).diagnosis]
    BY <1>6 DEF VerifyClaims, Verify
  <2>2. ChecksClaims(state) /\ Persist(state) /\ Spend(VerCalls)
    BY <1>6 DEF VerifyClaims
  <2>3. /\ state'.claims = [counts |-> c, of |-> state.answer.round,
                            on |-> state.chunks.round]
        /\ state'.attempts = state.attempts
        /\ state'.answer = state.answer
        /\ state'.chunks = state.chunks
    BY <1>3, <2>1 DEF AgentState
  <2>4. c \in Counts
    BY GraphAssumption DEF PossibleCounts, Counts
  <2>5. CountedNow(state)
    BY <2>2, <2>3, <2>4 DEF CountedNow
  <2> QED BY <1>1, <1>2, <1>3, <2>2, <2>3, <2>5, SpendTyped
<1>7. CASE VerifyNoClaims
  <2>1. /\ state' = [state EXCEPT !.claims = NoClaims, !.verdict = "FAIL",
                                  !.diagnosis = "RETRIEVAL_FAILURE"]
        /\ ChecksClaims(state) /\ Spend(VerCalls) /\ UNCHANGED claimDocs
    BY <1>7 DEF VerifyNoClaims, Verify
  <2> QED BY <1>1, <1>2, <1>3, <2>1, SpendTyped DEF AgentState
<1>8. CASE VerifyBreaksOff
  <2>1. PICK d : state' = Unverified(state, d)
    BY <1>8 DEF VerifyBreaksOff, Verify
  <2>2. /\ state'.claims = NoClaims /\ state'.attempts = state.attempts
        /\ state'.answer = state.answer /\ state'.chunks = state.chunks
    BY <1>3, <2>1 DEF Unverified, AgentState
  <2>3. /\ ChecksClaims(state) /\ Spend(VerCalls)
        /\ Persist(state) \/ UNCHANGED claimDocs
    BY <1>8 DEF VerifyBreaksOff
  <2> QED BY <1>1, <1>2, <1>3, <2>2, <2>3, SpendTyped
<1> QED BY <1>4, <1>5, <1>6, <1>7, <1>8 DEF Verification

\* Recovery counts an attempt, uses up all of them, or falls back.
LEMMA RecoveryEffect ==
  ASSUME TypeInv, Recovery
  PROVE  /\ pc = "recovery" /\ pc' = "retrieval"
         /\ steps' = steps + 1 /\ round' = round
         /\ UNCHANGED <<claimDocs, stored>>
         /\ state.attempts < MaxAttempts
         /\ \/ state'.attempts = state.attempts + 1
            \/ state'.attempts = MaxAttempts
            \/ hist'.recoveryFailed
         /\ hist.recoveryFailed => hist'.recoveryFailed
         /\ hist'.searchOutage = hist.searchOutage
         /\ state'.diagnosis \notin FastDiagnoses
         /\ calls' \in Nat /\ calls' <= calls + 1
         /\ Exhausted => calls' = calls
<1>1. Enter("recovery") /\ Leave("recovery")
  BY DEF Recovery, BudgetStop, RecoveryRound, RecoveryBudgetExhausted,
         RecoveryFails, RecoveryLlmOutage, Work
<1>2. /\ pc = "recovery" /\ pc' = "retrieval"
      /\ steps' = steps + 1 /\ round' = round
      /\ UNCHANGED <<claimDocs, stored>>
  BY <1>1 DEF Enter, Leave, NextNode
<1>3. /\ state \in AgentState /\ hist \in History /\ calls \in Nat
      /\ state.attempts < MaxAttempts
  BY <1>2 DEF TypeInv, TypeOK, AttemptsLeft
<1>4. RewriteCalls(state) \in 0..1 /\ (Exhausted => RewriteCalls(state) = 0)
  BY DEF RewriteCalls
<1>5. CASE BudgetStop("recovery")
  BY <1>2, <1>3, <1>5 DEF BudgetStop, AgentState, FastDiagnoses
<1>6. CASE RecoveryRound
  <2>1. state' \in RecoveredStates /\ UNCHANGED hist /\ ~Exhausted
    BY <1>6 DEF RecoveryRound, Work
  <2>2. calls' \in Nat /\ calls' <= calls + 1
    BY <1>3, <1>4, <1>6, SpendTyped DEF RecoveryRound
  <2> QED BY <1>2, <1>3, <2>1, <2>2, RecoveryTyped DEF FastDiagnoses
<1>7. CASE RecoveryBudgetExhausted
  BY <1>2, <1>3, <1>7
  DEF RecoveryBudgetExhausted, ForcedEnd, AgentState, FastDiagnoses, History
<1>8. CASE RecoveryFails
  <2>1. /\ calls' \in Nat /\ calls' <= calls + 1
        /\ Exhausted => calls' = calls
    BY <1>3, <1>4, <1>8, SpendTyped DEF RecoveryFails
  <2> QED
    BY <1>2, <1>3, <1>8, <2>1
    DEF RecoveryFails, RecoveryFallback, AgentState, FastDiagnoses, History
<1>9. CASE RecoveryLlmOutage
  <2>1. /\ calls' \in Nat /\ calls' <= calls + 1
        /\ Exhausted => calls' = calls
    BY <1>3, <1>4, <1>9, SpendTyped DEF RecoveryLlmOutage
  <2>2. PICK s \in AgentState : LlmOutage(s)
    BY <1>3, <1>9, RecoveryTyped DEF RecoveryLlmOutage
  <2>3. state'.diagnosis = "LLM_OUTAGE" /\ state'.attempts = MaxAttempts
    BY <2>2 DEF LlmOutage, AgentState
  <2> QED
    BY <1>2, <1>3, <1>9, <2>1, <2>3 DEF RecoveryLlmOutage, FastDiagnoses, History
<1> QED BY <1>5, <1>6, <1>7, <1>8, <1>9 DEF Recovery

\* The frame leaves the dictionary alone, but for a cached answer at the start.
LEMMA FrameEffect ==
  ASSUME TypeInv, Frame
  PROVE  /\ UNCHANGED <<round, steps, calls, hist>>
         /\ state'.attempts = state.attempts
         /\ state'.claims = state.claims
         /\ state'.chunks = state.chunks
         /\ state'.diagnosis = state.diagnosis
         /\ \/ pc = "start" /\ pc' = "retrieval" /\ UNCHANGED claimDocs
            \/ pc = "end" /\ pc' = "done" /\ UNCHANGED <<state, claimDocs>>
            \/ pc \in Nodes /\ pc' = "raised" /\ UNCHANGED state
            \/ pc' = pc /\ pc \in {"done", "raised"} /\ UNCHANGED <<state, claimDocs>>
<1>1. state \in AgentState
  BY DEF TypeInv, TypeOK
<1>2. CASE StartUncached
  BY <1>1, <1>2 DEF StartUncached
<1>3. CASE StartCached
  BY <1>1, <1>3 DEF StartCached, AgentState
<1>4. CASE StoreAnswer
  BY <1>1, <1>4 DEF StoreAnswer
<1>5. CASE NodeRaises
  BY <1>1, <1>5 DEF NodeRaises
<1>6. CASE Ended
  BY <1>1, <1>6 DEF Ended, vars
<1> QED BY <1>2, <1>3, <1>4, <1>5, <1>6 DEF Frame

-----------------------------------------------------------------------------
(* Rounds are bounded.                                                     *)

\* Every step keeps the bound on the nodes executed: an attempt is counted, or
\* the attempts are used up, once in four nodes.
LEMMA StepsStep == TypeInv /\ StepsInv /\ [Next]_vars => StepsInv'
<1> SUFFICES ASSUME TypeInv, StepsInv, [Next]_vars PROVE StepsInv'
  OBVIOUS
<1>1. TypeInv'
  BY TypesStep
<1>2. /\ state.attempts \in Nat /\ state.attempts <= MaxAttempts
      /\ state'.attempts \in Nat /\ state'.attempts <= MaxAttempts
      /\ steps \in Nat /\ MaxAttempts \in Nat
  BY <1>1, AttemptsBounds DEF TypeInv, TypeOK, AgentState
<1>3. CASE Retrieval
  BY <1>2, <1>3, RetrievalEffect DEF StepsInv, StepBound
<1>4. CASE Generation
  BY <1>2, <1>4, GenerationEffect DEF StepsInv, StepBound
<1>5. CASE Verification
  BY <1>2, <1>5, VerificationEffect DEF StepsInv, StepBound
<1>6. CASE Recovery
  BY <1>2, <1>6, RecoveryEffect DEF StepsInv, StepBound
<1>7. CASE Frame
  BY <1>2, <1>7, FrameEffect DEF StepsInv, StepBound, Nodes
<1>8. CASE UNCHANGED vars
  BY <1>8 DEF StepsInv, StepBound, vars
<1> QED BY <1>3, <1>4, <1>5, <1>6, <1>7, <1>8, NextCases

\* As long as no recovery node falls back to its snapshot, a run executes at
\* most four nodes per recovery attempt and three more.
THEOREM RoundsAreBounded == Spec => []RoundsBounded
<1>1. Init => StepsInv
  BY DEF Init, StepsInv, StepBound
<1>2. TypeInv /\ StepsInv => RoundsBounded
  <2> SUFFICES ASSUME TypeInv, StepsInv, ~hist.recoveryFailed
               PROVE  steps <= 4 * MaxAttempts + 3
    BY DEF RoundsBounded
  <2>1. /\ state.attempts \in Nat /\ state.attempts <= MaxAttempts
        /\ steps \in Nat /\ MaxAttempts \in Nat
        /\ pc \in Nodes \cup {"start", "end", "done", "raised"}
    BY AttemptsBounds DEF TypeInv, TypeOK, AgentState
  <2> QED BY <2>1 DEF StepsInv, StepBound, Nodes
<1> QED BY TypesInit, TypesStep, <1>1, StepsStep, <1>2, PTL DEF Spec

-----------------------------------------------------------------------------
(* What is reported TRUSTED was verified.                                  *)

\* An answer without claims is never TRUSTED, and neither is one without a
\* supported claim: some coverage is always required.
LEMMA TrustedNeedsSupport ==
  ASSUME NEW c \in Counts, NEW abstained \in BOOLEAN,
         ReliabilityStatus(c, abstained) = "TRUSTED"
  PROVE  c.sup > 0 /\ ~abstained
<1>1. ~abstained /\ Total(c) # 0 /\ Passes(c)
  BY DEF ReliabilityStatus
<1>2. c.sup \in Nat /\ Total(c) \in Nat /\ Total(c) > 0
  BY <1>1 DEF Total, Counts
<1>3. 100 * c.sup >= MinCoverage * Total(c)
  BY <1>1 DEF Passes, PassesCoverage
<1>4. MinCoverage * Total(c) > 0
  BY <1>2, ThresholdsAssumption
<1>5. c.sup > 0
  BY <1>2, <1>3, <1>4, ThresholdsAssumption
<1> QED BY <1>1, <1>5

\* Without claims no answer is reported TRUSTED (verification/verdict.py).
LEMMA NoClaimsNotTrusted ==
  ASSUME NEW s, s.claims = NoClaims
  PROVE  Reported(s).reliability \in {"FAILED", "ABSTAINED"}
BY DEF Reported, ComputeVerdict, ReliabilityStatus, NoClaims, NoCounts, Total

\* Every step keeps a TRUSTED report backed by claims of this answer.
LEMMA TrustedStep == TypeInv /\ TrustedInv /\ [Next]_vars => TrustedInv'
<1> SUFFICES ASSUME TypeInv, TrustedInv, [Next]_vars PROVE TrustedInv'
  OBVIOUS
<1>1. state' \in AgentState
  BY TypesStep DEF TypeInv, TypeOK
<1>2. CASE Retrieval
  BY <1>2, RetrievalEffect DEF TrustedInv, FastPathInv, TrustedIsVerified
<1>3. CASE Generation
  BY <1>3, GenerationEffect DEF TrustedInv, FastPathInv, TrustedIsVerified
<1>4. CASE Verification
  <2>1. pc' \in {"recovery", "end"} /\ pc = "verification"
    BY <1>4, VerificationEffect
  <2>2. CASE state'.claims = NoClaims
    BY <2>1, <2>2, NoClaimsNotTrusted DEF TrustedInv, FastPathInv, TrustedIsVerified
  <2>3. CASE TakesFastPath(state) /\ state'.claims = state.claims
    <3>1. state'.claims = NoClaims
      BY <2>1, <2>3 DEF TrustedInv, FastPathInv, TakesFastPath, FastDiagnoses
    <3> QED
      BY <2>1, <3>1, NoClaimsNotTrusted DEF TrustedInv, FastPathInv, TrustedIsVerified
  <2>4. CASE CountedNow(state)
    <3>1. /\ state'.answer = state.answer /\ state'.chunks = state.chunks
      BY <1>4, VerificationEffect
    <3>2. /\ state'.claims.of = state'.answer.round
          /\ state'.claims.on = state'.chunks.round
          /\ state'.claims.counts \in Counts
          /\ HasAnswer(state') /\ ~IsRefusal(state'.answer)
      BY <2>4, <3>1 DEF CountedNow, ChecksClaims, HasAnswer
    <3>3. Reported(state').reliability = "TRUSTED" => state'.claims.counts.sup > 0
      BY <3>2, TrustedNeedsSupport DEF Reported, ComputeVerdict
    <3> QED BY <2>1, <3>2, <3>3 DEF TrustedInv, FastPathInv, TrustedIsVerified
  <2> QED BY <1>4, <2>2, <2>3, <2>4, VerificationEffect
<1>5. CASE Recovery
  BY <1>5, RecoveryEffect DEF TrustedInv, FastPathInv, TrustedIsVerified
<1>6. CASE Frame
  BY <1>6, FrameEffect DEF TrustedInv, FastPathInv, TrustedIsVerified, Nodes
<1>7. CASE UNCHANGED vars
  BY <1>7 DEF TrustedInv, FastPathInv, TrustedIsVerified, vars
<1> QED BY <1>2, <1>3, <1>4, <1>5, <1>6, <1>7, NextCases

\* An answer reported TRUSTED, from the cache or freshly generated, has had its
\* own claims checked in this run, on the chunks the run ended with.
THEOREM TrustedAnswersAreVerified == Spec => []TrustedIsVerified
<1>1. Init => TrustedInv
  BY DEF Init, InitialState, TrustedInv, FastPathInv, FastDiagnoses,
         TrustedIsVerified
<1>2. TrustedInv => TrustedIsVerified
  BY DEF TrustedInv
<1> QED BY TypesInit, TypesStep, <1>1, TrustedStep, <1>2, PTL DEF Spec

-----------------------------------------------------------------------------
(* A search outage ends the run.                                           *)

\* Every step keeps a search outage from being recovered from or found TRUSTED.
LEMMA OutageStep == TypeInv /\ OutageInv /\ [Next]_vars => OutageInv'
<1> SUFFICES ASSUME TypeInv, OutageInv, [Next]_vars PROVE OutageInv'
  OBVIOUS
<1>1. /\ state' \in AgentState /\ state \in AgentState
      /\ round \in Nat /\ hist.searchOutage \in Nat
  BY TypesStep DEF TypeInv, TypeOK, History
<1>2. CASE Retrieval
  <2>1. /\ pc' = "generation" /\ round' = round + 1
        /\ calls' = calls
    BY <1>2, RetrievalEffect
  <2>2. CASE hist'.searchOutage = hist.searchOutage
    BY <1>1, <2>1, <2>2 DEF OutageInv
  <2>3. CASE /\ ~Exhausted /\ hist'.searchOutage = round'
             /\ state' = SearchOutage(state, round')
    BY <1>1, <2>1, <2>3
    DEF OutageInv, SearchOutage, AgentState, HasChunks, HasAnswer, NoChunks,
        Exhausted
  <2> QED BY <1>2, <2>2, <2>3, RetrievalEffect
<1>3. CASE Generation
  <2>1. /\ pc = "generation" /\ pc' = "verification" /\ round' = round
        /\ hist'.searchOutage = hist.searchOutage
        /\ state'.attempts = state.attempts \/ state'.attempts = MaxAttempts
        /\ state'.claims = state.claims /\ state'.chunks = state.chunks
        /\ ~Exhausted /\ ~Generates(state) =>
             state' = state \/ IsRefusal(state'.answer)
    BY <1>3, GenerationEffect
  <2>2. ASSUME round > 0, hist.searchOutage = round
        PROVE  TakesFastPath(state') \/ IsRefusal(state'.answer)
    <3>1. /\ ~Exhausted /\ HasAnswer(state) /\ ~HasChunks(state)
          /\ state.diagnosis = "RETRIEVAL_OUTAGE"
      BY <2>1, <2>2 DEF OutageInv
    <3>2. ~Generates(state)
      BY <3>1 DEF Generates, KeepsNotice
    <3> QED BY <2>1, <3>1, <3>2 DEF TakesFastPath
  <2> QED BY <1>1, <2>1, <2>2 DEF OutageInv, HasChunks
<1>4. CASE Verification
  <2>1. /\ pc = "verification" /\ round' = round /\ hist' = hist
        /\ pc' \in {"recovery", "end"}
        /\ pc' = "recovery" => state'.attempts < MaxAttempts
        /\ state'.attempts = state.attempts \/ state'.attempts = MaxAttempts
        /\ state'.chunks = state.chunks
    BY <1>4, VerificationEffect
  <2>2. ASSUME round > 0, hist.searchOutage = round
        PROVE  state'.claims = NoClaims
    <3>1. /\ state.claims = NoClaims
          /\ TakesFastPath(state) \/ IsRefusal(state.answer)
      BY <2>1, <2>2 DEF OutageInv
    <3> QED BY <1>4, <3>1, VerificationEffect DEF CountedNow, ChecksClaims
  <2> QED BY <1>1, <2>1, <2>2, AttemptsBounds DEF OutageInv, HasChunks
<1>5. CASE Recovery
  BY <1>1, <1>5, RecoveryEffect DEF OutageInv
<1>6. CASE Frame
  BY <1>1, <1>6, FrameEffect DEF OutageInv, Nodes, HasChunks
<1>7. CASE UNCHANGED vars
  BY <1>7 DEF OutageInv, vars, Exhausted
<1> QED BY <1>2, <1>3, <1>4, <1>5, <1>6, <1>7, NextCases

\* A search outage ends the run in its own round: it is never recovered from
\* and never reported TRUSTED or UNCERTAIN.
THEOREM SearchOutagesEndRuns == Spec => []SearchOutageEndsRun
<1>1. Init => OutageInv
  BY DEF Init, OutageInv
<1>2. OutageInv => SearchOutageEndsRun
  BY NoClaimsNotTrusted DEF OutageInv, SearchOutageEndsRun
<1> QED BY TypesInit, TypesStep, <1>1, OutageStep, <1>2, PTL DEF Spec

-----------------------------------------------------------------------------
(* The claims a reader is shown are the final answer's.                    *)

\* Every step keeps the claims of earlier rounds below the attempt of this one.
LEMMA DisplayStep ==
  TypeInv /\ TrustedInv /\ DisplayInv /\ [Next]_vars => DisplayInv'
<1> SUFFICES ASSUME TypeInv, TrustedInv, DisplayInv, [Next]_vars,
                    ~hist'.recoveryFailed
             PROVE  DisplayInv'
  BY DEF DisplayInv
<1>1. TypeInv'
  BY TypesStep
<1>2. /\ state.attempts \in Nat /\ state.attempts <= MaxAttempts
      /\ state'.attempts \in Nat /\ state'.attempts <= MaxAttempts
      /\ MaxAttempts \in Nat
      /\ \A d \in claimDocs : d.attempt \in Nat
      /\ \A d \in claimDocs' : d.attempt \in Nat
  BY <1>1, AttemptsBounds DEF TypeInv, TypeOK, AgentState
<1>3. CASE Retrieval
  <2>1. /\ pc = "retrieval" /\ pc' = "generation" /\ claimDocs' = claimDocs
        /\ ~hist.recoveryFailed
        /\ state'.attempts = state.attempts \/ state'.attempts = MaxAttempts
    BY <1>3, RetrievalEffect
  <2> QED BY <1>2, <2>1 DEF DisplayInv
<1>4. CASE Generation
  <2>1. /\ pc = "generation" /\ pc' = "verification" /\ claimDocs' = claimDocs
        /\ ~hist.recoveryFailed
        /\ state'.attempts = state.attempts \/ state'.attempts = MaxAttempts
    BY <1>4, GenerationEffect
  <2> QED BY <1>2, <2>1 DEF DisplayInv
<1>5. CASE Verification
  <2>1. /\ pc = "verification" /\ pc' \in {"recovery", "end"}
        /\ ~hist.recoveryFailed
        /\ state'.attempts = state.attempts \/ state'.attempts = MaxAttempts
        /\ UNCHANGED claimDocs \/ Persist(state)
        /\ state'.answer = state.answer
    BY <1>5, VerificationEffect
  <2>2. \A d \in claimDocs : d.attempt < state.attempts
    BY <2>1 DEF DisplayInv
  <2>3. \A d \in claimDocs' : d.attempt <= state'.attempts
    BY <1>2, <2>1, <2>2 DEF Persist
  <2>4. ASSUME Total(state'.claims.counts) > 0
        PROVE  Displayed' = {state'.answer.round}
    <3>1. state'.claims # NoClaims
      BY <2>4 DEF NoClaims, NoCounts, Total
    <3>2. ~(TakesFastPath(state) /\ state'.claims = state.claims)
      BY <2>1, <3>1 DEF TrustedInv, FastPathInv, TakesFastPath, FastDiagnoses
    <3>3. Persist(state)
      BY <1>5, <3>1, <3>2, VerificationEffect DEF CountedNow
    <3> DEFINE new == [attempt |-> state.attempts, of |-> state.answer.round]
    <3>4. claimDocs' = claimDocs \cup {new}
      BY <3>3 DEF Persist
    <3>5. {x \in claimDocs' : \A y \in claimDocs' : y.attempt <= x.attempt} = {new}
      <4>1. new.attempt = state.attempts /\ new \in claimDocs'
        BY <3>4
      <4>2. \A y \in claimDocs' : y.attempt <= new.attempt
        BY <1>2, <2>2, <3>4, <4>1
      <4>3. ASSUME NEW x \in claimDocs, x # new
            PROVE  ~(new.attempt <= x.attempt)
        BY <1>2, <2>2, <4>1
      <4> HIDE DEF new
      <4> QED BY <3>4, <4>1, <4>2, <4>3
    <3>6. Displayed' = {d.of : d \in {new}}
      BY <3>5 DEF Displayed
    <3> QED BY <2>1, <3>6
  <2> QED BY <2>1, <2>3, <2>4 DEF DisplayInv
<1>6. CASE Recovery
  <2>1. /\ pc = "recovery" /\ pc' = "retrieval" /\ claimDocs' = claimDocs
        /\ ~hist.recoveryFailed
        /\ state.attempts < MaxAttempts
        /\ state'.attempts = state.attempts + 1 \/ state'.attempts = MaxAttempts
    BY <1>6, RecoveryEffect
  <2> QED BY <1>2, <2>1 DEF DisplayInv
<1>7. CASE Frame
  <2>1. /\ hist' = hist /\ state'.attempts = state.attempts
        /\ state'.claims = state.claims
        /\ \/ pc = "start" /\ pc' = "retrieval" /\ UNCHANGED claimDocs
           \/ pc = "end" /\ pc' = "done" /\ UNCHANGED <<state, claimDocs>>
           \/ pc \in Nodes /\ pc' = "raised" /\ UNCHANGED state
           \/ pc' = pc /\ pc \in {"done", "raised"} /\ UNCHANGED <<state, claimDocs>>
    BY <1>7, FrameEffect
  <2> QED BY <2>1 DEF DisplayInv, Displayed
<1>8. CASE UNCHANGED vars
  BY <1>8 DEF DisplayInv, Displayed, vars
<1> QED BY <1>3, <1>4, <1>5, <1>6, <1>7, <1>8, NextCases

\* The claims shown for a run that ended with verified claims are those of its
\* final answer.
THEOREM DisplayedClaimsMatch == Spec => []DisplayedMatchesVerdict
<1>1. Init => TrustedInv /\ DisplayInv
  BY DEF Init, InitialState, TrustedInv, FastPathInv, FastDiagnoses,
         TrustedIsVerified, DisplayInv
<1>2. DisplayInv => DisplayedMatchesVerdict
  BY DEF DisplayInv, DisplayedMatchesVerdict
<1> QED BY TypesInit, TypesStep, <1>1, TrustedStep, DisplayStep, <1>2, PTL DEF Spec

-----------------------------------------------------------------------------
(* Spending is bounded.                                                    *)

\* Every step keeps the calls of a capped run within the overrun.
LEMMA SpendStep == TypeInv /\ SpendInv /\ [Next]_vars => SpendInv'
<1> SUFFICES ASSUME TypeInv, SpendInv, [Next]_vars, Capped, ~hist'.recoveryFailed
             PROVE  SpendInv'
  BY DEF SpendInv
<1>1. /\ calls \in Nat /\ CallCap \in Nat \ {0}
      /\ GenCalls \in Nat \ {0} /\ VerCalls \in Nat
      /\ Overrun = CallCap - 1 + GenCalls
      /\ Exhausted <=> calls >= CallCap
  BY GraphAssumption DEF TypeInv, TypeOK, Overrun, Exhausted
<1>2. CASE Retrieval
  <2>1. pc = "retrieval" /\ pc' = "generation" /\ calls' = calls /\ ~hist.recoveryFailed
    BY <1>2, RetrievalEffect
  <2> QED BY <1>1, <2>1 DEF SpendInv, Overrun
<1>3. CASE Generation
  <2>1. /\ pc = "generation" /\ pc' = "verification" /\ ~hist.recoveryFailed
        /\ calls' \in Nat /\ calls' <= calls + GenCalls
        /\ Exhausted =>
             /\ calls' = calls
             /\ state'.attempts = MaxAttempts \/ IsRefusal(state'.answer)
    BY <1>3, GenerationEffect
  <2>2. CASE Exhausted
    BY <1>1, <2>1, <2>2 DEF SpendInv, Overrun
  <2>3. CASE ~Exhausted
    BY <1>1, <2>1, <2>3 DEF SpendInv, Overrun
  <2> QED BY <2>2, <2>3
<1>4. CASE Verification
  <2>1. /\ pc = "verification" /\ pc' \in {"recovery", "end"} /\ ~hist.recoveryFailed
        /\ calls' \in Nat /\ calls' <= calls + VerCalls
        /\ ChecksClaims(state) \/ calls' = calls
        /\ pc' = "recovery" => state'.attempts < MaxAttempts
        /\ state'.attempts = state.attempts \/ state'.attempts = MaxAttempts
    BY <1>4, VerificationEffect
  <2>2. calls' = calls \/ calls <= Overrun \/ state.attempts = MaxAttempts
    BY <2>1 DEF SpendInv, ChecksClaims
  <2>3. state.attempts = MaxAttempts => pc' = "end"
    BY <2>1, AttemptsBounds
  <2>4. calls <= Overrun + VerCalls
    BY <2>1 DEF SpendInv
  <2> QED BY <1>1, <2>1, <2>2, <2>3, <2>4 DEF SpendInv, Overrun
<1>5. CASE Recovery
  <2>1. /\ pc = "recovery" /\ pc' = "retrieval" /\ ~hist.recoveryFailed
        /\ calls' \in Nat /\ calls' <= calls + 1
        /\ Exhausted => calls' = calls
    BY <1>5, RecoveryEffect
  <2> QED BY <1>1, <2>1 DEF SpendInv, Overrun
<1>6. CASE Frame
  <2>1. /\ calls' = calls /\ hist' = hist
        /\ \/ pc = "start" /\ pc' = "retrieval"
           \/ pc' \in {"done", "raised"}
    BY <1>6, FrameEffect
  <2> QED BY <1>1, <2>1 DEF SpendInv, Overrun
<1>7. CASE UNCHANGED vars
  BY <1>7 DEF SpendInv, Overrun, vars
<1> QED BY <1>2, <1>3, <1>4, <1>5, <1>6, <1>7, NextCases

\* On a cloud tier a run exceeds its call cap by no more than one generation
\* and two verifications, as long as no recovery node falls back.
THEOREM SpendingIsBounded == Spec => []SpendCeiling
<1>1. Init => SpendInv
  BY GraphAssumption DEF Init, SpendInv, Overrun
<1>2. TypeInv /\ SpendInv => SpendCeiling
  BY GraphAssumption DEF TypeInv, TypeOK, SpendInv, SpendCeiling, Overrun
<1> QED BY TypesInit, TypesStep, <1>1, SpendStep, <1>2, PTL DEF Spec

\* All that a run keeps true at every step, for every value of the constants.
THEOREM Inductive == Spec => []IInv
<1>1. Init => IInv
  <2>1. Init => StepsInv /\ OutageInv
    BY DEF Init, StepsInv, StepBound, OutageInv
  <2>2. Init => TrustedInv /\ DisplayInv
    BY DEF Init, InitialState, TrustedInv, FastPathInv, FastDiagnoses,
           TrustedIsVerified, DisplayInv
  <2>3. Init => SpendInv
    BY GraphAssumption DEF Init, SpendInv, Overrun
  <2> QED BY TypesInit, <2>1, <2>2, <2>3 DEF IInv
<1>2. IInv /\ [Next]_vars => IInv'
  BY TypesStep, StepsStep, TrustedStep, OutageStep, DisplayStep, SpendStep DEF IInv
<1> QED BY <1>1, <1>2, PTL DEF Spec

-----------------------------------------------------------------------------
(* How the verdict moves with the evidence (module VerdictChanges).        *)


CountsTyped == counts \in Counts

\* Products of natural numbers are monotone, which the score needs.
LEMMA ProductMonotone ==
  ASSUME NEW a \in Nat, NEW b \in Nat, NEW x \in Nat, NEW y \in Nat,
         a <= b, x <= y
  PROVE  a * x <= b * y
<1>1. a * x <= b * x
  OBVIOUS
<1>2. b * x <= b * y
  OBVIOUS
<1>3. a * x \in Nat /\ b * x \in Nat /\ b * y \in Nat
  OBVIOUS
<1> QED BY <1>1, <1>2, <1>3

\* A verdict computed with at least the support and at most the contradictions,
\* on equally many claims, is at least as good.
LEMMA VerdictMonotone ==
  ASSUME NEW x \in Counts, NEW y \in Counts,
         Total(x) = Total(y), x.sup <= y.sup, y.con <= x.con
  PROVE  RankOf(x) <= RankOf(y)
<1>1. /\ x.sup \in Nat /\ x.con \in Nat /\ y.sup \in Nat /\ y.con \in Nat
      /\ Total(x) \in Nat /\ Total(y) \in Nat
      /\ Total(x) - x.con \in Nat /\ Total(y) - y.con \in Nat
      /\ Total(x) - x.con <= Total(y) - y.con
  BY DEF Counts, Total
<1>2. Passes(x) => Passes(y)
  <2> DEFINE t == MinCoverage * Total(x)
             u == MaxContradiction * Total(x)
  <2>1. t \in Int /\ u \in Int
    BY <1>1, ThresholdsAssumption
  <2>2. /\ Passes(x) <=> 100 * x.sup >= t /\ 100 * x.con <= u
        /\ Passes(y) <=> 100 * y.sup >= t /\ 100 * y.con <= u
    BY DEF Passes, PassesCoverage, PassesContradiction
  <2> HIDE DEF t, u
  <2> QED BY <1>1, <2>1, <2>2
<1>3. ScoreAtLeastAbstain(x) => ScoreAtLeastAbstain(y)
  <2> DEFINE p == x.sup * (Total(x) - x.con)
             q == y.sup * (Total(y) - y.con)
             r == AbstainBelow * (Total(x) * Total(x))
  <2>1. p <= q
    BY <1>1, ProductMonotone
  <2>2. p \in Nat /\ q \in Nat /\ r \in Int
    BY <1>1, ThresholdsAssumption
  <2>3. /\ ScoreAtLeastAbstain(x) <=> 100 * p >= r
        /\ ScoreAtLeastAbstain(y) <=> 100 * q >= r
    BY DEF ScoreAtLeastAbstain
  <2> HIDE DEF p, q, r
  <2> QED BY <2>1, <2>2, <2>3
<1> QED BY <1>2, <1>3 DEF RankOf, Rank, ReliabilityStatus

\* The counts stay natural numbers under every change of one claim.
LEMMA TypesInvariant ==
  /\ CountsInit => CountsTyped
  /\ CountsTyped /\ [CountsNext]_counts => CountsTyped'
<1>1. CountsInit => CountsTyped
  BY ClaimCapAssumption DEF CountsInit, CountsTyped, Counts
<1>2. ASSUME CountsTyped, NEW from \in {"sup", "con", "neu"},
             NEW to \in {"sup", "con", "neu"}, from # to, Move(from, to)
      PROVE  CountsTyped'
  BY <1>2 DEF CountsTyped, Counts, Move
<1>3. CountsTyped /\ Padded => CountsTyped'
  BY DEF CountsTyped, Counts, Padded
<1> QED
  BY <1>1, <1>2, <1>3 DEF CountsNext, Supported, Contradicted, Withdrawn, CountsTyped

\* What a claim that gains support or loses a contradiction does to the counts.
LEMMA BetterEvidence ==
  ASSUME CountsTyped, Supported \/ Withdrawn
  PROVE  /\ counts' \in Counts
         /\ Total(counts) = Total(counts') /\ counts.sup <= counts'.sup /\ counts'.con <= counts.con
<1>1. counts \in Counts
  BY DEF CountsTyped
<1>2. CASE Supported
  BY <1>1, <1>2 DEF Supported, Move, Total, Counts
<1>3. CASE Withdrawn
  BY <1>1, <1>3 DEF Withdrawn, Move, Total, Counts
<1> QED BY <1>2, <1>3

\* Better evidence never lowers the reported reliability, whatever the
\* thresholds are.
THEOREM EvidenceHelps == CountsSpec => BetterEvidenceNeverHurts
<1>1. CountsTyped /\ [CountsNext]_counts => [Supported \/ Withdrawn => RankOf(counts') >= RankOf(counts)]_counts
  <2> SUFFICES ASSUME CountsTyped, Supported \/ Withdrawn
               PROVE  RankOf(counts') >= RankOf(counts)
    OBVIOUS
  <2>1. counts \in Counts
    BY DEF CountsTyped
  <2>2. RankOf(counts) <= RankOf(counts')
    BY <2>1, BetterEvidence, VerdictMonotone
  <2>3. RankOf(counts) \in Int /\ RankOf(counts') \in Int
    BY DEF RankOf, Rank, ReliabilityStatus
  <2> QED BY <2>2, <2>3
<1> QED BY <1>1, TypesInvariant, PTL DEF CountsSpec, BetterEvidenceNeverHurts

\* Where the two thresholds add up to a hundred percent, an answer that is
\* covered has no room for more contradictions than are allowed.
LEMMA CoveredPasses ==
  ASSUME MinCoverage + MaxContradiction >= 100, NEW x \in Counts
  PROVE  /\ PassesCoverage(x) => PassesContradiction(x)
         /\ ~PassesContradiction(x) => x.con > 0
<1>1. /\ x.sup \in Nat /\ x.con \in Nat /\ Total(x) \in Nat
      /\ x.sup + x.con <= Total(x)
  BY DEF Counts, Total
<1> DEFINE t == MinCoverage * Total(x)
           u == MaxContradiction * Total(x)
<1>2. t \in Int /\ u \in Int /\ u >= 0
  BY <1>1, ThresholdsAssumption
<1>3. t + u >= 100 * Total(x)
  <2>1. t + u = (MinCoverage + MaxContradiction) * Total(x)
    BY <1>1, ThresholdsAssumption
  <2>2. (MinCoverage + MaxContradiction) * Total(x) >= 100 * Total(x)
    BY <1>1, ThresholdsAssumption
  <2> QED BY <2>1, <2>2
<1>4. /\ PassesCoverage(x) <=> 100 * x.sup >= t
      /\ PassesContradiction(x) <=> 100 * x.con <= u
  BY DEF PassesCoverage, PassesContradiction
<1> HIDE DEF t, u
<1> QED BY <1>1, <1>2, <1>3, <1>4

\* Where the two thresholds add up to a hundred percent, as they do in the
\* configuration, coverage alone decides what passes.
THEOREM CoverageAloneDecides ==
  ASSUME MinCoverage + MaxContradiction >= 100
  PROVE  CountsSpec => []CoverageDecides
<1>1. CountsTyped => CoverageDecides
  BY CoveredPasses DEF CountsTyped, CoverageDecides, VerdictStatus, DiagnosisType, Passes
<1> QED BY <1>1, TypesInvariant, PTL DEF CountsSpec

\* A claim that no evidence decides leaves the support and the contradictions
\* as they are among one claim more.  What passes then passed before: coverage
\* leaves the contradictions no room.  What scores then scored before, although
\* the score itself may rise where contradictions are the majority: it is below
\* a quarter there.
LEMMA PaddedVerdict ==
  ASSUME MinCoverage + MaxContradiction >= 100, AbstainBelow >= 25,
         NEW x \in Counts, NEW y \in Counts,
         Total(y) = Total(x) + 1, y.sup = x.sup, y.con = x.con
  PROVE  RankOf(y) <= RankOf(x)
<1> DEFINE s == x.sup
           u == Total(x) - x.con
           n == Total(x)
<1>1. s \in Nat /\ u \in Nat /\ n \in Nat /\ s <= u /\ u <= n /\ n + 1 # 0
  BY DEF Counts, Total
<1>2. /\ PassesCoverage(x) <=> 100 * s >= MinCoverage * n
      /\ PassesCoverage(y) <=> 100 * s >= MinCoverage * (n + 1)
      /\ ScoreAtLeastAbstain(x) <=> 100 * (s * u) >= AbstainBelow * (n * n)
      /\ ScoreAtLeastAbstain(y) <=> 100 * (s * (u + 1)) >= AbstainBelow * ((n + 1) * (n + 1))
  <2>1. Total(y) = n + 1 /\ y.sup = s /\ Total(y) - y.con = u + 1
    BY <1>1 DEF Counts
  <2> HIDE DEF s, u, n
  <2>2. /\ PassesCoverage(y) <=> 100 * s >= MinCoverage * (n + 1)
        /\ ScoreAtLeastAbstain(y) <=> 100 * (s * (u + 1)) >= AbstainBelow * ((n + 1) * (n + 1))
    BY <2>1 DEF PassesCoverage, ScoreAtLeastAbstain
  <2>3. /\ PassesCoverage(x) <=> 100 * s >= MinCoverage * n
        /\ ScoreAtLeastAbstain(x) <=> 100 * (s * u) >= AbstainBelow * (n * n)
    BY DEF PassesCoverage, ScoreAtLeastAbstain, s, u, n
  <2> QED BY <2>2, <2>3
<1> HIDE DEF s, u, n
<1>3. PassesCoverage(y) => n # 0 /\ PassesCoverage(x)
  <2>1. MinCoverage * (n + 1) = MinCoverage * n + MinCoverage /\ MinCoverage * n \in Nat
    BY <1>1, ThresholdsAssumption
  <2>2. n = 0 => s = 0
    BY <1>1
  <2>3. n = 0 => MinCoverage * n = 0
    BY ThresholdsAssumption
  <2> DEFINE t == MinCoverage * n
  <2> HIDE DEF t
  <2>4. /\ MinCoverage * (n + 1) = t + MinCoverage /\ t \in Nat /\ (n = 0 => t = 0)
        /\ PassesCoverage(x) <=> 100 * s >= t
    BY <1>2, <2>1, <2>3 DEF t
  <2> QED BY <1>1, <1>2, <2>2, <2>4, ThresholdsAssumption
<1>4. Passes(y) => n # 0 /\ Passes(x)
  BY <1>3, CoveredPasses DEF Passes
<1>5. ScoreAtLeastAbstain(y) => n # 0 /\ ScoreAtLeastAbstain(x)
  <2> SUFFICES ASSUME ScoreAtLeastAbstain(y) PROVE n # 0 /\ ScoreAtLeastAbstain(x)
    OBVIOUS
  <2>0. n # 0
    <3> SUFFICES ASSUME n = 0 PROVE FALSE
      OBVIOUS
    <3>1. u = 0 /\ s = 0
      BY <1>1
    <3>2. 100 * (s * (u + 1)) = 0 /\ AbstainBelow * ((n + 1) * (n + 1)) = AbstainBelow
      BY <3>1, ThresholdsAssumption
    <3> QED BY <1>2, <3>2, ThresholdsAssumption
  <2> DEFINE p == s * u
             m == n * n
  <2>1. p \in Nat /\ m \in Nat /\ s * (u + 1) = p + s /\ (n + 1) * (n + 1) = m + 2 * n + 1
    BY <1>1
  <2> HIDE DEF p, m
  <2>2. 100 * (p + s) >= AbstainBelow * (m + 2 * n + 1)
    BY <1>2, <2>1
  <2>3. CASE 2 * u < n
    <3> DEFINE d == n - 2 * u
               e == u * u
    <3>1. d \in Nat \ {0} /\ e \in Nat
      BY <1>1, <2>3
    <3>2. p <= e
      BY <1>1, ProductMonotone DEF p, e
    <3>3. m >= 4 * e
      <4>1. n = 2 * u + d /\ (2 * u + d) * (2 * u + d) = 4 * e + 4 * (u * d) + d * d /\ u * d \in Nat /\ d * d \in Nat
        BY <1>1, <3>1
      <4> QED BY <4>1, <3>1 DEF m
    <3> HIDE DEF e, d
    <3>4. AbstainBelow * (m + 2 * n + 1) >= 25 * (m + 2 * n + 1)
      <4>1. m + 2 * n + 1 \in Nat
        BY <1>1, <2>1
      <4> QED BY <4>1, ThresholdsAssumption
    <3>5. 25 * (m + 2 * n + 1) <= 100 * (p + s)
      <4>1. AbstainBelow * (m + 2 * n + 1) \in Int
        BY <1>1, <2>1, ThresholdsAssumption
      <4> QED BY <2>2, <3>4, <4>1, <1>1, <2>1
    <3>6. FALSE
      BY <1>1, <2>1, <2>3, <3>1, <3>2, <3>3, <3>5
    <3> QED BY <3>6
  <2>4. CASE 2 * u >= n
    <3>1. n * s <= 2 * p
      <4>1. s * n <= s * (2 * u)
        BY <1>1, <2>4, ProductMonotone
      <4>2. s * (2 * u) = 2 * p /\ s * n = n * s
        BY <1>1 DEF p
      <4> QED BY <4>1, <4>2
    <3>2. n * s <= 2 * p /\ n * s \in Nat
      BY <1>1, <3>1
    <3> DEFINE j == AbstainBelow * n
               k == AbstainBelow * m
    <3>3. j \in Nat /\ k \in Nat /\ j * n = k
      BY <1>1, <2>1, ThresholdsAssumption DEF m
    <3>4. AbstainBelow * (m + 2 * n + 1) = k + 2 * j + AbstainBelow
      BY <1>1, <2>1, ThresholdsAssumption
    <3>5. ScoreAtLeastAbstain(x) <=> 100 * p >= k
      BY <1>2 DEF p, m
    <3> HIDE DEF j, k
    <3>6. SUFFICES ASSUME 100 * p < k PROVE FALSE
      BY <2>0, <2>1, <3>3, <3>5
    <3>7. 100 * s >= 2 * j
      BY <1>1, <2>1, <2>2, <3>3, <3>4, <3>6, ThresholdsAssumption
    <3>8. (2 * j) * n <= (100 * s) * n
      BY <1>1, <3>3, <3>7, ProductMonotone
    <3>9. (2 * j) * n = 2 * k /\ (100 * s) * n = 100 * (n * s)
      BY <1>1, <3>3
    <3> QED BY <2>1, <3>2, <3>3, <3>6, <3>8, <3>9
  <2> QED BY <2>0, <2>3, <2>4, <1>1
<1>6. Total(x) # 0 <=> n # 0
  BY DEF n
<1>7. Total(y) # 0
  BY <1>1 DEF n
<1> QED BY <1>4, <1>5, <1>6, <1>7 DEF RankOf, Rank, ReliabilityStatus

\* A claim that turns into a contradiction.
LEMMA ContradictedVerdict ==
  ASSUME CountsTyped, Contradicted
  PROVE  RankOf(counts') <= RankOf(counts)
<1>1. /\ counts \in Counts /\ counts' \in Counts
      /\ Total(counts) = Total(counts') /\ counts'.sup <= counts.sup /\ counts.con <= counts'.con
  BY DEF Contradicted, Move, Total, Counts, CountsTyped
<1> QED BY <1>1, VerdictMonotone

\* An answer cannot be padded into a better verdict, and a contradiction never
\* raises one, for every number of claims and all thresholds of which the first
\* two add up to a hundred percent and the third is a quarter at least (80, 20
\* and 50 in config/models.yaml).
THEOREM PaddingHelpsNobody ==
  ASSUME MinCoverage + MaxContradiction >= 100, AbstainBelow >= 25
  PROVE  CountsSpec => PaddingNeverHelps
<1>1. CountsTyped /\ [CountsNext]_counts => [Contradicted \/ Padded => RankOf(counts') <= RankOf(counts)]_counts
  <2> SUFFICES ASSUME CountsTyped, Contradicted \/ Padded
               PROVE  RankOf(counts') <= RankOf(counts)
    OBVIOUS
  <2>1. CASE Contradicted
    BY <2>1, ContradictedVerdict
  <2>2. CASE Padded
    <3>1. /\ counts \in Counts /\ counts' \in Counts
          /\ Total(counts') = Total(counts) + 1 /\ counts'.sup = counts.sup /\ counts'.con = counts.con
      BY <2>2 DEF Padded, Total, Counts, CountsTyped
    <3> QED BY <3>1, PaddedVerdict
  <2> QED BY <2>1, <2>2
<1> QED BY <1>1, TypesInvariant, PTL DEF CountsSpec, PaddingNeverHelps

=============================================================================
