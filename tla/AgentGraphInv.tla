---------------------------- MODULE AgentGraphInv ----------------------------
(***************************************************************************)
(* The inductive invariant of AgentGraph from which its safety properties  *)
(* follow.  Each part says, node by node, what the node relies on.         *)
(***************************************************************************)
EXTENDS AgentGraph

\* recovery_node runs only with attempts left: the attempt it counts is in
\* bounds.
AttemptsLeft == pc = "recovery" => state.attempts < MaxAttempts

TypeInv == TypeOK /\ AttemptsLeft

\* How far a run has come, by node and by the attempts counted.
StepBound ==
  [ start |-> 0,
    retrieval    |-> 4 * state.attempts,
    generation   |-> 4 * state.attempts + 1,
    verification |-> 4 * state.attempts + 2,
    recovery     |-> 4 * state.attempts + 3,
    end    |-> 4 * MaxAttempts + 3,
    done   |-> 4 * MaxAttempts + 3,
    raised |-> 4 * MaxAttempts + 3 ]

StepsInv == ~hist.recoveryFailed => steps <= StepBound[pc]

FastDiagnoses == {"RETRIEVAL_FAILURE", "EMPTY_KB", "RETRIEVAL_OUTAGE"}

\* A diagnosis on which verification takes the fast path is this round's own,
\* and retrieval cleared the claims along with making it.
FastPathInv ==
  /\ pc \in {"start", "retrieval"} => state.diagnosis \notin FastDiagnoses
  /\ pc \in {"generation", "verification"} /\ state.diagnosis \in FastDiagnoses
       => state.claims = NoClaims

TrustedInv == FastPathInv /\ TrustedIsVerified

\* A search outage of this round has left no attempts, no chunks and no claims,
\* and what generation makes of it is not checked claim by claim.
OutageInv ==
  /\ hist.searchOutage <= round
  /\ round > 0 /\ hist.searchOutage = round =>
       /\ pc \in {"generation", "verification", "end", "done", "raised"}
       /\ state.attempts = MaxAttempts
       /\ ~HasChunks(state)
       /\ state.claims = NoClaims
       /\ pc = "generation" =>
            ~Exhausted /\ HasAnswer(state) /\ state.diagnosis = "RETRIEVAL_OUTAGE"
       /\ pc = "verification" => TakesFastPath(state) \/ IsRefusal(state.answer)

\* While a round is under way, the claims on record are of earlier attempts.
DisplayInv ==
  ~hist.recoveryFailed =>
    /\ pc = "start" => claimDocs = {}
    /\ pc \in {"retrieval", "generation", "verification"} =>
         \A d \in claimDocs : d.attempt < state.attempts
    /\ pc = "recovery" => \A d \in claimDocs : d.attempt <= state.attempts
    /\ pc \in {"end", "done"} /\ Total(state.claims.counts) > 0 =>
         Displayed = {state.answer.round}

\* What can have been spent when a node begins.  Past the cap a verification
\* still spends, but then no attempt is left for a further one.
Overrun == CallCap - 1 + GenCalls

SpendInv ==
  Capped /\ ~hist.recoveryFailed =>
    /\ pc = "start" => calls < CallCap
    /\ pc \in {"retrieval", "generation", "verification", "recovery"} =>
         calls <= Overrun + VerCalls
    /\ pc = "verification" =>
         \/ calls <= Overrun
         \/ state.attempts = MaxAttempts
         \/ IsRefusal(state.answer)
    /\ calls <= Overrun + 2 * VerCalls

IInv == TypeInv /\ StepsInv /\ TrustedInv /\ OutageInv /\ DisplayInv /\ SpendInv

=============================================================================
