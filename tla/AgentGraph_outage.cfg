\* Refutes OutageIsReported.
SPECIFICATION Spec
CONSTANTS
  MinCoverage = 80
  MaxContradiction = 20
  AbstainBelow = 50
  MaxAttempts = 2
  StrategyPriority <- MCPriority
  RecoveryBudget = 1
  RoundCost = 1
  Capped = FALSE
  CallCap = 1
  GenCalls = 1
  VerCalls = 0
  MaxClaims = 2
  RecursionLimit = 12
INVARIANT OutageIsReported
