SPECIFICATION FairSpec
CONSTANTS
  block = block
  spot1 = spot1
  Ids <- MCIds
  Stranger = Stranger
  NConn = 3
  Fds = {4, 5}
  MaxClnt = 3
  MaxSend = 1
PROPERTIES
  LoginAnswered
CHECK_DEADLOCK FALSE
