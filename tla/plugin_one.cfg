CONSTANTS
  Handlers = {h1, h2}
  Reporters = {r1, r2}
  MaxSlots = 2
  MaxPolicies = 2
  nTaskNumPerThread = 1
  CreateMayFail = FALSE
  PromptHandler = TRUE
  PromptReporter = TRUE
  PromptClear = TRUE
  bAutoStartModule = TRUE
SPECIFICATION FairSpec
PROPERTIES StopEnds LifeSpec
