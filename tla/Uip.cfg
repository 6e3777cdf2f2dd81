SPECIFICATION Spec
CONSTANTS
  A = A
  B = B
  NoHost = NoHost
  Client = {A}
  Server = {B}
  Host <- MCHost
  Goal <- MCGoal
  GoalA = 1
  GoalB = 0
  UIP_CONNS = 1
  UIP_LISTENPORTS = 1
  ListenPort = {1}
  FirstPort = 4
  LowPort = 2
  EndPort = 6
  UIP_MAXRTX = 1
  UIP_MAXSYNRTX = 1
  UIP_TCP_MSS = 1
  MaxIss = 0
  MaxConn = 3
  MaxNet = 2
CHECK_DEADLOCK FALSE
INVARIANTS
  SeqSync
PROPERTIES
  ImplementsStream
  Settles
