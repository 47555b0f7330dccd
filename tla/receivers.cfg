CONSTANTS
  Kinds = {"udp", "tcp", "flow", "netflow", "snmptrap"}
  Failing = {"udp", "tcp", "flow", "netflow", "snmptrap"}
  Filtering = {"udp", "tcp", "netflow"}
  Sources = {"a", "b"}
  MaxRecords = 2
  MaxThreads = 2
  MaxLogList = 1
  nListCtrl = 1
  nBreakCtrl = 0
  Prompt = TRUE
SPECIFICATION FairSpec
INVARIANTS ReceiverInv StoppedIsQuiet
PROPERTIES StaysUp RelaySpec StopEnds Relayed
