SPECIFICATION FairSpec
CONSTANTS
  IoThreads = {t1, t2}
  Capacity = 5
  ReplyLen = 2
  Window = 3
  MayFail = FALSE
  MaxReplies = 4
  MaxConnections = 1
  NoSend = NoSend
PROPERTY EveryReplyFlushed
