SPECIFICATION FairSpec
CONSTANTS
  IoThreads = {t1, t2}
  Players = {p1, p2}
  Nobody = Nobody
  StartDelay = 1
  HeartBeat = 2
  Duration = 3
  MaxClock = 3
  MaxIssueId = 2
CHECK_DEADLOCK FALSE
INVARIANTS  PopsWhatItRan MapHoldsTheLiving OneTickPerHeartBeat
  
