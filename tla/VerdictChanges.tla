--------------------------- MODULE VerdictChanges ---------------------------
(***************************************************************************)
(* How the verdict of an answer moves when the outcome of one claim        *)
(* changes.  The counts of an answer change between two rounds, and within *)
(* one: targeted retrieval turns NEUTRAL claims into SUPPORTED or          *)
(* CONTRADICTED ones, a retried batch replaces outcomes, a longer answer   *)
(* adds claims.                                                            *)
(***************************************************************************)
EXTENDS Verdict

CONSTANT ClaimCap     \* cost_controls.max_verification_claims

ASSUME ClaimCapAssumption == ClaimCap \in Nat

VARIABLE counts       \* the counts the verdict is computed from

Move(from, to) ==
  /\ counts[from] > 0
  /\ counts' = [counts EXCEPT ![from] = @ - 1, ![to] = @ + 1]

\* A claim found NEUTRAL is looked up again and decided.
Supported == Move("neu", "sup")
Contradicted == Move("neu", "con")

\* A contradiction is withdrawn: another round finds support, or nothing.
Withdrawn == Move("con", "neu") \/ Move("con", "sup")

\* The answer makes one more claim, which nothing in the evidence decides.
Padded ==
  /\ Total(counts) < ClaimCap
  /\ counts' = [counts EXCEPT !.neu = @ + 1]

CountsInit ==
  counts \in {x \in [sup: 0..ClaimCap, con: 0..ClaimCap, neu: 0..ClaimCap] : Total(x) <= ClaimCap}

CountsNext == Supported \/ Contradicted \/ Withdrawn \/ Padded

CountsSpec == CountsInit /\ [][CountsNext]_counts

-----------------------------------------------------------------------------

Rank == [FAILED |-> 0, UNCERTAIN |-> 1, TRUSTED |-> 2]

RankOf(x) == Rank[ReliabilityStatus(x, FALSE)]

\* Better evidence never lowers the reported reliability: a claim that gains
\* support or loses a contradiction leaves it where it was or raises it.
BetterEvidenceNeverHurts ==
  [][ Supported \/ Withdrawn => RankOf(counts') >= RankOf(counts) ]_counts

\* A contradiction never raises the reported reliability, nor does a claim
\* that no evidence decides: an answer cannot be padded into a better verdict.
PaddingNeverHelps ==
  [][ Contradicted \/ Padded => RankOf(counts') <= RankOf(counts) ]_counts

\* Coverage alone decides what passes: with the configured thresholds the bound
\* on contradictions never fails an answer that is covered, so all it does is
\* choose the diagnosis, and so the recovery, of one that is not.
CoverageDecides ==
  /\ Total(counts) > 0 => (VerdictStatus(counts, FALSE) = "PASS" <=> PassesCoverage(counts))
  /\ DiagnosisType(counts) = "EVIDENCE_CONFLICT" => ~PassesCoverage(counts) /\ counts.con > 0

=============================================================================
