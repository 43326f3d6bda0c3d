CONSTANTS
  Analyses = {a1, a2}
  Local = {a1, a2}
  Pages = {a1}
  Permits = 2
  MaxCalls = 1
  MaxFaults = 1
  MaxCrashes = 1
  MaxFetches = 2
SPECIFICATION PageSpec
INVARIANTS
  ReportedIsStored
  PermitsKept
  ShownIsStored
PROPERTIES
  ImplementsResult
  EveryRunEnds
  PageSettles
CHECK_DEADLOCK FALSE
