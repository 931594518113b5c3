SPECIFICATION Spec
CONSTANTS
  Pictures <- MCPictures
  Texts <- MCTexts
INVARIANTS
  TypeOK
  LosesARightmost
  FullestIsChosen
  FrameHoldsFriends
  PlateIsKept
