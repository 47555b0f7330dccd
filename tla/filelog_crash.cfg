CONSTANTS
  MaxLines = 8
  Blank <- SecondLine
  nReadLineNum = 1
  WRITE_RATE = 2
  LargeLogs = {TRUE, FALSE}
  SNDHWM = 1
  GrowWhileRead = FALSE
  SlowReporter = TRUE
  Faults = {"crash", "truncate", "rename", "open", "stat", "send", "stop"}
  MaxFaults = 2
SPECIFICATION Spec
INVARIANTS FileLogInv BoundedLoss BoundedRepeat
