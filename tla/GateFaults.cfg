SPECIFICATION FairSpec
CONSTANTS
  c1 = c1
  c2 = c2
  Cars = {c1, c2}
  Visitor = None
  CarType <- Types
  NSpot = 2
  Zero = Zero
  NoSpot = NoSpot
  NoCar = NoCar
  Faults = {"load", "plate", "crash", "query", "connect", "echo", "hurry", "picture", "restart"}
  MaxFault = 2
INVARIANTS
  CarsMatchRows
  OneRowPerCar
  SpotsTold
  LogAgrees
  AnswerForFront
PROPERTIES
  EmptySpot
  Answered
  LetThrough
CHECK_DEADLOCK FALSE
