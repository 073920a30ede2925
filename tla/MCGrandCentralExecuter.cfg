SPECIFICATION FairSpec
CONSTANTS
  IoThreads = {t1, t2, t3}
  MaxDispatch = 2
CHECK_DEADLOCK FALSE
INVARIANTS CountHonest OwnOrderKept
PROPERTIES IsSerial EveryTaskRuns
