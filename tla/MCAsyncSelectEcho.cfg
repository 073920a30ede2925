SPECIFICATION FairSpec
CONSTANTS
  Sockets = {x, y}
  Connections = {a, b}
  Nobody = Nobody
  DATA_BUFSIZE = 2
  SocketRoom = 1
  MaxBytes = 3
CHECK_DEADLOCK FALSE
INVARIANTS EchoIntact NoLostNotification
PROPERTIES  EveryByteEchoed
