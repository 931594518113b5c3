SPECIFICATION Spec
CONSTANTS
  NPose = 2
  Strays <- EarlyStop
  MaxStray = 1
  MaxCut = 0
  MaxConnect = 0
INVARIANT ChargingPlugged
