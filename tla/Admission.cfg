SPECIFICATION Spec
CONSTANTS
  Local = {"llama_cpp"}
  Cloud = {"gemini", "nvidia"}
  Models = {"small", "large"}
  None = "none"
  Supported <- MCSupported
  Yaml <- MCYaml
  Verifiers <- MCVerifiers
  Requests = {r1}
  Ttl = 2
  MaxProbes = 2
INVARIANTS RunsWhatWasAllowed
PROPERTIES LiveModels
CHECK_DEADLOCK FALSE
