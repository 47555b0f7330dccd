CONSTANTS
  Handlers = {h1, h2}
  Reporters = {r1, r2}
  MaxSlots = 2
  MaxPolicies = 2
  nTaskNumPerThread = 1
  CreateMayFail = TRUE
  PromptHandler = FALSE
  PromptReporter = TRUE
  PromptClear = TRUE
  bAutoStartModule = TRUE
SPECIFICATION Spec
SYMMETRY Threads
INVARIANTS RunningIsWatched
CHECK_DEADLOCK FALSE
