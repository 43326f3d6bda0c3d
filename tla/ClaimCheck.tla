----------------------------- MODULE ClaimCheck -----------------------------
(***************************************************************************)
(* What the reliability loop relies on of one verification of an answer:   *)
(* it comes to counts the verdict is computed from, or to no claims, or it *)
(* breaks off; it completes a bounded number of LLM calls on the way; and  *)
(* claims are on record exactly if it came to counts, or broke off late.   *)
(* AgentGraph's VerifyClaims, VerifyNoClaims and VerifyBreaksOff are these *)
(* three ends; ClaimVerification implements this module.                   *)
(***************************************************************************)
EXTENDS Verdict

CONSTANTS MaxClaims, VerCalls

VARIABLES
  phase,     \* "checking", or how it ended
  counts,    \* what the claims came to
  spent,     \* LLM calls completed
  recorded,  \* the claims are in the database
  hasChunks, attempt

vars == <<phase, counts, spent, recorded, hasChunks, attempt>>

\* Without chunks a recovery round decides no claim.
Possible(c) == hasChunks \/ attempt = 0 \/ (c.sup = 0 /\ c.con = 0)

Init ==
  /\ phase = "checking" /\ counts = NoCounts
  /\ spent = 0 /\ recorded = FALSE
  /\ hasChunks \in BOOLEAN /\ attempt \in Nat

Call ==
  /\ phase = "checking"
  /\ spent < VerCalls
  /\ spent' = spent + 1
  /\ UNCHANGED <<phase, counts, recorded, hasChunks, attempt>>

Counted ==
  /\ phase = "checking"
  /\ phase' = "counted"
  /\ counts' \in [sup: 0..MaxClaims, con: 0..MaxClaims, neu: 0..MaxClaims]
  /\ Total(counts') \in 1..MaxClaims
  /\ Possible(counts')
  /\ recorded' = TRUE
  /\ UNCHANGED <<spent, hasChunks, attempt>>

\* The call that leaves no claims is completed with it.
Nothing ==
  /\ phase = "checking"
  /\ phase' = "nothing"
  /\ spent' \in {spent, spent + 1} \cap 0..VerCalls
  /\ UNCHANGED <<counts, recorded, hasChunks, attempt>>

BreaksOff ==
  /\ phase = "checking"
  /\ phase' = "broken"
  /\ recorded' \in BOOLEAN
  /\ UNCHANGED <<counts, spent, hasChunks, attempt>>

Next == Call \/ Counted \/ Nothing \/ BreaksOff

Spec == Init /\ [][Next]_vars

=============================================================================
