SPECIFICATION Spec
CONSTANTS
  s1 = s1
  s2 = s2
  Sessions = {s1}
  PoolOrder <- OneSession
  IoThreads = {t1, t2}
  Main = Main
  Nobody = Nobody
  SendCapacity = 1
  Fails <- NoFailures
  MaxPlayerLoads = 9
  MaxIssue = 2
  MaxRequests = 1
CHECK_DEADLOCK FALSE
INVARIANT ReturnAssertHolds
