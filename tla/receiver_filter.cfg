CONSTANTS
  Kinds = {"snmptrap"}
  Failing = {}
  Filtering = {"snmptrap"}
  Sources = {"a", "b"}
  MaxRecords = 2
  MaxThreads = 1
  MaxLogList = 2
  nListCtrl = 1
  nBreakCtrl = 0
  Prompt = TRUE
SPECIFICATION FairSpec
PROPERTIES OthersPass
CHECK_DEADLOCK FALSE
