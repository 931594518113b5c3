SPECIFICATION Spec
CONSTANTS
  Full = 1
  MaxVisit = 1
  MaxOther = 0
  MaxEnd = 0
PROPERTY
  StartIsUnderstood
CHECK_DEADLOCK FALSE
