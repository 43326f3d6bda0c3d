SPECIFICATION Spec
CONSTANTS
  LocalModels = {granite, qwen}
  CloudModels = {gemini}
  Tasks = {t1, t2}
  MaxClients = 4
  None = None
  MaxInstances = 2
  Permits = 1
SYMMETRY Symmetry
INVARIANTS LocalsBounded NoneIsLost
PROPERTIES CloudCallsUncut
CHECK_DEADLOCK FALSE
