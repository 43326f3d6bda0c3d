\* A cloud tier: after CallCap LLM calls every guarded node stops.
SPECIFICATION Spec
CONSTANTS
  MinCoverage = 80
  MaxContradiction = 20
  AbstainBelow = 50
  MaxAttempts = 2
  StrategyPriority <- MCPriority
  RecoveryBudget = 1
  RoundCost = 1
  Capped = TRUE
  CallCap = 4
  GenCalls = 2
  VerCalls = 2
  MaxClaims = 2
  RecursionLimit = 16
INVARIANTS
  TrustedIsVerified
  RoundsBounded
  SearchOutageEndsRun
  DisplayedMatchesVerdict
  SpendCeiling
