CONSTANTS
  K = 60
  Window = 2
  Batch = 3
  MinBatch = 3
  Sure = 2
  Gap = 1
  CacheSize = 3
  a = a
  b = b
  c = c
  d = d
  e = e
  u = u
  v = v
  Urls = {u, v}
  NoUrl = NoUrl
  Broken = Broken
  MaxResults = 3
  Relevance <- MCRelevance
  Chunks = {a, b, c, d, e}
  Live = {a, b, c, d}
  Legacy = {c}
  Lists <- MCLists
  Configs <- MCConfigs
  MaxSubs = 2
  FusionTopK = 4
  Adaptive = TRUE
  RerankTopK = 2
  MaxContext = 3
  GenCap = 2
  WebCap = 1
  WebAnswers <- MCWebAnswers
  Providers = {"both"}
  MaxRounds = 2
SPECIFICATION Spec
INVARIANTS
  FreshEvidenceKept
  OutageIsTotal
  CacheIsTrue
  LeaderWasScored
  ContextIsEvidence
CHECK_DEADLOCK FALSE
