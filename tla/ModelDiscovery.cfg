SPECIFICATION DiscoverySpec
CONSTANTS
  OnDemand = {"ollama"}
  Loaded = {"llama_cpp"}
  Models = {granite, qwen, bge}
  Embeddings = {bge}
  Hub = {qwen}
  HubOnly <- MCHubOnly
  Disks <- MCDisks
  Polls = {p1, p2}
  MaxChanges = 1
  MaxFaults = 1
INVARIANTS OfferedOnceInstalled
PROPERTIES CheckIsExact Converges
CHECK_DEADLOCK FALSE
