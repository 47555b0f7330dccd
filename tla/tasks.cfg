CONSTANTS
  Kinds = {"ping", "monitor", "docker", "snmpcheck", "nmapscan", "bdsar", "inspector", "inspecUrl", "controller", "threatint"}
  NPolicies = 2
  Pools = {1, 2}
  Crons <- MCCrons
  MaxMinute = 3
  MaxRuns = 3
CHECK_DEADLOCK FALSE
SPECIFICATION Spec
INVARIANTS TaskInv EachOnce RunsBounded
PROPERTIES OnceAMinute
