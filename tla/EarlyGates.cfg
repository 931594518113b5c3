SPECIFICATION FairSpec
CONSTANTS
  c1 = c1
  c2 = c2
  Cars = {c1, c2}
  CarType <- MCCarType
  NSpot = 2
  Zero = Zero
  NoSpot = NoSpot
  NoCar = NoCar
  Faults = {"load", "plate", "crash", "query", "connect", "echo", "restart"}
  MaxFault = 2
  MaxInput = 1
  MaxAnswers = 1
INVARIANTS
  AnswerIsAwaited
  SpotsTold
PROPERTIES
  OpensForBooked
  RowsOnlyFill
  Answered
CHECK_DEADLOCK FALSE
