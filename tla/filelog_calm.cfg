CONSTANTS
  MaxLines = 6
  Blank <- SecondLine
  nReadLineNum = 2
  WRITE_RATE = 2
  LargeLogs = {TRUE, FALSE}
  SNDHWM = 1
  GrowWhileRead = FALSE
  SlowReporter = FALSE
  Faults = {"stop", "stat", "send"}
  MaxFaults = 2
SPECIFICATION FairSpec
INVARIANTS HandoffExclusive AlreadySent SentOnce
PROPERTIES PipeSpec EveryLineSent
