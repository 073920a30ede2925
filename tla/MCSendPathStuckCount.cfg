SPECIFICATION Spec
CONSTANTS
  IoThreads = {t1, t2}
  Capacity = 5
  ReplyLen = 2
  Window = 3
  MayFail = TRUE
  MaxReplies = 4
  MaxConnections = 2
  NoSend = NoSend
INVARIANT PendingCountHonest
