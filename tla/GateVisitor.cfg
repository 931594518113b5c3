SPECIFICATION Spec
CONSTANTS
  c1 = c1
  c2 = c2
  Cars = {c1, c2}
  Visitor = c2
  CarType <- Types
  NSpot = 1
  Zero = Zero
  NoSpot = NoSpot
  NoCar = NoCar
  Faults = {}
  MaxFault = 0
PROPERTY
  OpensIfAllowed
