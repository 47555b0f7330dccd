CONSTANTS
  Modules = {threatint}
  SelfStopping = {threatint}
  NoModule = none
  MaxRequests = 2
  Offered = {"START_AGENT", "STOP_AGENT", "START_PLUGIN", "STOP_PLUGIN", "START_TASK", "MANAGE_AGENT"}
  bAutoStartModule = TRUE
SPECIFICATION FairSpec
INVARIANTS LifeInv Answered ListedAreLoaded CopyNotAhead
PROPERTIES RequestsInOrder LivesRespected RequestsServed HeartbeatGoesOn
