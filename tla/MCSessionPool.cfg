SPECIFICATION Spec
CONSTANTS
  s1 = s1
  s2 = s2
  Sessions = {s1}
  PoolOrder <- OneSession
  IoThreads = {t1, t2}
  Main = Main
  Nobody = Nobody
  SendCapacity = 2
  Fails <- AnyFailure
  MaxPlayerLoads = 9
  MaxIssue = 3
  MaxRequests = 2
CHECK_DEADLOCK FALSE
SYMMETRY ThreadSymmetry
INVARIANTS RefCountHonest OneSendAtATime PooledSessionsAtRest AssertsHold 
