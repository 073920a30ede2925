SPECIFICATION Spec
CONSTANTS
  s1 = s1
  s2 = s2
  Sessions = {s1, s2}
  PoolOrder <- TwoSessions
  IoThreads = {t1, t2}
  Main = Main
  Nobody = Nobody
  SendCapacity = 1
  Fails <- LeakFree
  MaxPlayerLoads = 9
  MaxIssue = 3
  MaxRequests = 1
CHECK_DEADLOCK FALSE
SYMMETRY ThreadSymmetry
INVARIANTS  PoolConserved OneReceiver
