-------------------------- MODULE AgentGraphClaims --------------------------
(***************************************************************************)
(* What a comment of the repository says of the reliability loop, where    *)
(* the loop that AgentGraph translates from the code does something else:  *)
(* TLC finds a behaviour of the code that refutes it.                      *)
(***************************************************************************)
EXTENDS AgentGraph

\* An LLM outage is a terminal diagnosis: the run that shows the outage notice
\* reports the outage, and the notice is not cached as an answer.
OutageIsReported ==
  pc = "done" /\ state.answer.text = "llm_outage" =>
    state.diagnosis = "LLM_OUTAGE" /\ stored.text # "llm_outage"

=============================================================================
