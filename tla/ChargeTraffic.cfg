SPECIFICATION Spec
CONSTANTS
  NPose = 2
  Strays <- AnyStray
  MaxStray = 1
  MaxCut = 1
  MaxConnect = 0
INVARIANTS
  WaitIsServed
PROPERTY LeavesUnplugged
