CONSTANTS
  Kinds = {"inspector", "inspecUrl"}
  NPolicies = 1
  Pools = {1}
  Crons <- MCSaturdays
  MaxMinute = 3
  MaxRuns = 2
CHECK_DEADLOCK FALSE
SPECIFICATION Spec
INVARIANTS OnSchedule
