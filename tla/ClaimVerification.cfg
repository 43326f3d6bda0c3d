\* A cloud tier: the call budget can run out in the middle, or last.  One
\* contradicted claim of two is at the threshold.
SPECIFICATION Spec
CONSTANTS
  MinCoverage = 80
  MaxContradiction = 50
  AbstainBelow = 50
  MaxClaims = 2
  MaxRetrievals = 1
  MaxFallback = 2
  SegmentCount = 1
  Capped = TRUE
  CallCap = 5
INVARIANTS
  LinksMatchContext
  EarlyExitFails
  VerdictsAreOwn
PROPERTIES
  DecidedStays
  ImplementsClaimCheck
