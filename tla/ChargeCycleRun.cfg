SPECIFICATION FairSpec
CONSTANTS
  NPose = 2
  Strays <- NoStray
  MaxStray = 0
  MaxCut = 0
  MaxConnect = 3
INVARIANTS
  FreshAngles
  NoOverwrite
  ArmStillWhileCharging
PROPERTIES
  LeavesHome
  Implements
  CarServed
