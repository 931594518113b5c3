SPECIFICATION FairSpec
CONSTANTS
  Full = 1
  MaxVisit = 3
  MaxOther = 1
  MaxEnd = 1
INVARIANTS
  StartsInOrder
  StartAfterParking
PROPERTIES
  AdminSeesFull
  StartReported
  HearsAgain
CHECK_DEADLOCK FALSE
