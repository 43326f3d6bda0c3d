\* The thresholds and the claim cap of config/models.yaml.
SPECIFICATION CountsSpec
CONSTANTS
  MinCoverage = 80
  MaxContradiction = 20
  AbstainBelow = 50
  ClaimCap = 8
INVARIANTS
  CoverageDecides
PROPERTIES
  BetterEvidenceNeverHurts
  PaddingNeverHelps
CHECK_DEADLOCK FALSE
