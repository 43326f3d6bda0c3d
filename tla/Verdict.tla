------------------------------ MODULE Verdict ------------------------------
(***************************************************************************)
(* The reliability verdict of verification/verdict.py: a pure function of  *)
(* how many claims of an answer were SUPPORTED, CONTRADICTED or NEUTRAL.   *)
(*                                                                         *)
(* The thresholds of models.yaml are whole percentages here.  The code     *)
(* compares the quotients supported/total and contradicted/total with      *)
(* decimal literals, and the score, a product of such quotients, with a    *)
(* third; the same comparisons are written without a division.  Rounding   *)
(* cannot change the first two: a quotient that equals the literal is      *)
(* rounded to the literal's own double.  It cannot change the third at     *)
(* abstain_below = 0.50 with up to eight claims, the configured values.    *)
(***************************************************************************)
EXTENDS Integers

CONSTANTS
  MinCoverage,       \* minimum_evidence_coverage, in percent
  MaxContradiction,  \* maximum_contradiction_rate, in percent
  AbstainBelow       \* abstain_below, in percent of the reliability score

ASSUME ThresholdsAssumption ==
  /\ MinCoverage \in 1..100
  /\ MaxContradiction \in 0..100
  /\ AbstainBelow \in 0..100

\* What a verification round found out about one answer.
Counts == [sup: Nat, con: Nat, neu: Nat]

NoCounts == [sup |-> 0, con |-> 0, neu |-> 0]

Total(c) == c.sup + c.con + c.neu

\* Mutant of PassesCoverage: NEUTRAL claims are left out of the total.
PassesCoverageOfDecided(c) == 100 * c.sup >= MinCoverage * (c.sup + c.con)

PassesCoverage(c) == 100 * c.sup >= MinCoverage * Total(c)

\* Mutant of PassesContradiction: the bound is taken of the supported claims.
PassesContradictionOfSupported(c) == 100 * c.con <= MaxContradiction * c.sup

PassesContradiction(c) == 100 * c.con <= MaxContradiction * Total(c)

Passes(c) == PassesCoverage(c) /\ PassesContradiction(c)

\* Mutant of ScoreAtLeastAbstain: the score discounts by the NEUTRAL claims.
ScoreAtLeastAbstainNeutral(c) ==
  100 * (c.sup * (Total(c) - c.neu)) >= AbstainBelow * (Total(c) * Total(c))

\* coverage * (1 - contradiction_rate) >= abstain_below, both sides times
\* 100 * total^2.
ScoreAtLeastAbstain(c) ==
  100 * (c.sup * (Total(c) - c.con)) >= AbstainBelow * (Total(c) * Total(c))

VerdictStatus(c, abstained) ==
  IF Total(c) = 0
  THEN IF abstained THEN "PASS" ELSE "FAIL"
  ELSE IF Passes(c) THEN "PASS" ELSE "FAIL"

\* Mutant of ReliabilityStatus: no early return for an answer without claims.
ReliabilityStatusVacuous(c, abstained) ==
  CASE abstained                -> "ABSTAINED"
    [] ~abstained /\ Passes(c)  -> "TRUSTED"
    [] ~abstained /\ ~Passes(c) /\ ScoreAtLeastAbstain(c) -> "UNCERTAIN"
    [] OTHER                    -> "FAILED"

ReliabilityStatus(c, abstained) ==
  CASE abstained                          -> "ABSTAINED"
    [] ~abstained /\ Total(c) = 0         -> "FAILED"
    [] ~abstained /\ Total(c) # 0 /\ Passes(c) -> "TRUSTED"
    [] ~abstained /\ Total(c) # 0 /\ ~Passes(c) /\ ScoreAtLeastAbstain(c)
                                          -> "UNCERTAIN"
    [] OTHER                              -> "FAILED"

DiagnosisType(c) ==
  CASE Total(c) = 0            -> "RETRIEVAL_FAILURE"
    [] Total(c) # 0 /\ Passes(c) -> "NONE"
    [] Total(c) # 0 /\ ~PassesContradiction(c) -> "EVIDENCE_CONFLICT"
    [] OTHER                   -> "LOW_COVERAGE"

\* compute_verdict: `abstained` says whether the answer is the bare token
\* "ABSTAIN".
ComputeVerdict(c, abstained) ==
  [ status      |-> VerdictStatus(c, abstained),
    reliability |-> ReliabilityStatus(c, abstained),
    diagnosis   |-> DiagnosisType(c) ]

=============================================================================
