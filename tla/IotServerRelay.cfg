SPECIFICATION Spec
CONSTANTS
  block = block
  spot1 = spot1
  Ids <- MCIds
  Stranger = Stranger
  NConn = 3
  Fds = {4, 5, 6}
  MaxClnt = 3
  MaxSend = 2
SYMMETRY IdSymmetry
INVARIANTS
  CountMatches
  ThreadOwnsSlot
  InOrder
  GoesToItsAddressee
CHECK_DEADLOCK FALSE
