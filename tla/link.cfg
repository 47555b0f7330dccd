CONSTANTS
  Senders = {s1}
  Beat = beat
  EncParams = {"NO_ENPTYPE", "AES256ECB", "1"}
  ComParams = {"NO_COMPRESS", "COMPRESS_ZLIB"}
  MaxChanges = 1
  MaxRestarts = 1
  Lossy = TRUE
SPECIFICATION FairSpec
INVARIANTS LinkInv FewRefused
PROPERTIES EndsRegistered
CHECK_DEADLOCK FALSE
