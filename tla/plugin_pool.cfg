CONSTANTS
  Handlers = {h1, h2}
  Reporters = {r1, r2}
  MaxSlots = 2
  MaxPolicies = 3
  nTaskNumPerThread = 2
  CreateMayFail = FALSE
  PromptHandler = TRUE
  PromptReporter = TRUE
  PromptClear = TRUE
  bAutoStartModule = FALSE
SPECIFICATION Spec
SYMMETRY Threads
INVARIANTS PluginInv StoppedIsQuiet OwnPoolEntry ResultNotTorn NeverUndercounted
PROPERTIES DownOnlyWhenEmpty
